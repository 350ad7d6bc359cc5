----------------------------- MODULE MCFileHash -----------------------------
(***************************************************************************)
(* FileHash for TLC: the calls that are checked.                           *)
(***************************************************************************)
EXTENDS FileHash

\* The released builds, for amd64 and arm64 with cgo.
Released == [cgo |-> TRUE, wide |-> TRUE, unrolled |-> FALSE, oneshot |-> TRUE,
             order |-> "little", access |-> "efficient"]
Stub == [Released EXCEPT !.cgo = FALSE]

\* What the readers of t1ha know of.  A big-endian machine with efficient access
\* has to be built for oneshot reads: without them the code does not compile.
Readers ==
    {[Released EXCEPT !.oneshot = o, !.order = e, !.access = u] :
        o \in BOOLEAN, e \in {"little", "big"}, u \in {"unable", "slow", "efficient"}}
    \ {[Released EXCEPT !.oneshot = FALSE, !.order = "big"]}

\* Products and loops in the other ways, on both byte orders.
Others ==
    {[Released EXCEPT !.wide = w, !.unrolled = u, !.order = e] :
        w \in BOOLEAN, u \in BOOLEAN, e \in {"little", "big"}}

CallsOf(entries, machines, lengths, addresses) ==
    [entry : entries, machine : machines, len : lengths, addr : addresses]

\* Tails that begin on, end on and cross a border of pages, aligned and not.
Tails == CallsOf({"t1ha1_be", "t1ha1", "t1ha2_atonce", "t1ha2"}, Readers,
                 0 .. 9 \cup {16, 17, 24, 25, 31, 32},
                 {0, 3, 4056, 4061, 4080, 4088, 4090, 4095})
Longer == CallsOf({"t1ha1_be", "t1ha1", "t1ha2_atonce", "t1ha2"},
                  Readers, {33, 40, 63, 64, 65, 95, 96, 97, 100}, {0, 5, 4029})
Streams == CallsOf({"t1ha2_stream", "t1ha2_stream128"},
                   {Released, [Released EXCEPT !.oneshot = FALSE, !.access = "slow"],
                    [Released EXCEPT !.order = "big", !.access = "unable"]},
                   {0, 7, 23, 24, 31, 32, 39, 40, 56, 71}, {0, 3})
Pairs16 == CallsOf({"rapidhash", "rapidhashMicro", "rapidhashNano", "wyhash"}, Others,
                   0 .. 245 \cup {336, 337, 448, 449, 480}, {1})
Elsewheres ==
    CallsOf({"rapidhash", "wyhash", "t1ha1", "t1ha2"}, {Stub}, 0 .. 100, {0})
        \cup CallsOf({"blake3", "sha256", "no such algorithm"}, {Released, Stub}, {0, 5}, {0})

MCCalls == Tails \cup Longer \cup Streams \cup Pairs16 \cup Elsewheres
StubCalls == CallsOf({"t1ha2"}, {Released, Stub}, 0 .. 40, {0})
=============================================================================
