------------------------------- MODULE Words -------------------------------
(***************************************************************************)
(* How the fast hashes load words from memory: the readers of              *)
(* src/t1ha/lib/t1ha_bits.h, src/rapidhashc/rapidhash.h and                *)
(* src/wyhashc/wyhash.h, for every byte order, alignment and way to access *)
(* memory they are written for.                                            *)
(*                                                                         *)
(* A byte of memory is named by its offset from the first byte of the      *)
(* file, which may be negative: some readers load more than they keep.  A  *)
(* word is the eight places of a 64-bit number, the lowest first, each the *)
(* set of bytes that were added into it: none for a zero, and more than    *)
(* one only if two of them have run into each other.                       *)
(***************************************************************************)
EXTENDS Integers

Places == 0 .. 7

Nothing == [k \in Places |-> {}]
ByteAt(p) == [k \in Places |-> IF k = 0 THEN {p} ELSE {}]

Or(v, w) == [k \in Places |-> v[k] \cup w[k]]
Up(w, n) == [k \in Places |-> IF k >= n THEN w[k - n] ELSE {}]
Down(w, n) == [k \in Places |-> IF k + n \in Places THEN w[k + n] ELSE {}]

\* Masked with the ones of n bytes.
Keep(w, n) == [k \in Places |-> IF k < n THEN w[k] ELSE {}]

BytesOf(w) == UNION {w[k] : k \in Places}

-----------------------------------------------------------------------------
(* A load of n bytes.  The machine m is a record: its byte order, how it   *)
(* can access unaligned memory, and whether tails may be loaded as whole   *)
(* words.                                                                  *)

\* What the machine's own load gives.
Load(m, p, n) ==
    [k \in Places |-> IF k >= n THEN {}
                      ELSE IF m.order = "little" THEN {p + k} ELSE {p + n - 1 - k}]

bswap(w, n) == [k \in Places |-> IF k < n THEN w[n - 1 - k] ELSE {}]

\* A number of the given byte order, from a machine of any.
Ordered(m, order, p, n) ==
    IF m.order = order THEN Load(m, p, n) ELSE bswap(Load(m, p, n), n)

\* The halves of a number, k bytes each, the one at the lower address first.
Joined(order, v, w, k) ==
    IF order = "little" THEN Or(v, Up(w, k)) ELSE Or(Up(v, k), w)

Joined16(order, p) == Joined(order, ByteAt(p), ByteAt(p + 1), 1)
Joined32(order, p) == Joined(order, Joined16(order, p), Joined16(order, p + 2), 2)
Joined64(order, p) == Joined(order, Joined32(order, p), Joined32(order, p + 4), 4)

\* Byte by byte, on a machine that cannot access unaligned memory at all.
Bytewise(order, p, n) ==
    CASE n = 2 -> Joined16(order, p)
      [] n = 4 -> Joined32(order, p)
      [] n = 8 -> Joined64(order, p)

fetch_le(m, aligned, p, n) ==
    IF ~aligned /\ m.access = "unable" THEN Bytewise("little", p, n)
    ELSE Ordered(m, "little", p, n)

fetch_be(m, aligned, p, n) ==
    IF ~aligned /\ m.access = "unable" THEN Bytewise("big", p, n)
    ELSE Ordered(m, "big", p, n)

\* The readers of rapidhash and of wyhash, both of little-endian numbers.
rapid_read(m, p, n) == Ordered(m, "little", p, n)
_wyr(m, p, n) == Ordered(m, "little", p, n)

\* One byte shifted by 45 bits lies in two places.
UpBits45(p) == [k \in Places |-> IF k \in {5, 6} THEN {p} ELSE {}]

-----------------------------------------------------------------------------
(* The last 1 to 8 bytes of t1ha.  "tail" is what is left of the length,   *)
(* of which only the remainder by 8 counts.                                *)

TailSize(tail) == IF tail % 8 = 0 THEN 8 ELSE tail % 8

\* The largest load the cases of a switch begin with.
Whole(n) == CHOOSE k \in {1, 2, 4, 8} : k <= n /\ 2 * k > n

\* The bytes of a tail of n from the k-th on, each shifted to its place by the
\* cases it falls through.
RestLe(p, k, n) == [j \in Places |-> IF k <= j /\ j < n THEN {p + j} ELSE {}]
RestBe(p, k, n) == [j \in Places |-> IF j < n - k THEN {p + n - 1 - j} ELSE {}]

SwitchLe(m, aligned, byWords, p, n) ==
    IF ~byWords THEN RestLe(p, 0, n)
    ELSE IF n = 1 THEN ByteAt(p)
    ELSE Or(fetch_le(m, aligned, p, Whole(n)), RestLe(p, Whole(n), n))

SwitchBe(m, aligned, byWords, p, n) ==
    IF ~byWords THEN RestBe(p, 0, n)
    ELSE IF n = 1 THEN ByteAt(p)
    ELSE Or(Up(fetch_be(m, aligned, p, Whole(n)), n - Whole(n)), RestBe(p, Whole(n), n))

tail64_le_aligned(m, p, tail) ==
    LET n == TailSize(tail)
    IN IF m.oneshot THEN Keep(fetch_le(m, TRUE, p, 8), n)
       ELSE SwitchLe(m, TRUE, m.order = "little", p, n)

tail64_be_aligned(m, p, tail) ==
    LET n == TailSize(tail)
    IN IF m.oneshot THEN Down(fetch_be(m, TRUE, p, 8), 8 - n)
       ELSE SwitchBe(m, TRUE, m.order = "big", p, n)

\* Whether eight bytes that end, rather than begin, at the address lie in its
\* page; "page" is the address of p within one.
OnlyAbove(m, page) == TRUE                          \* mutant: the page is not looked at
can_read_underside(m, page) == page >= 8

\* Whether a tail is loaded as a whole word that may reach beyond it.
OneshotUnaligned(m) == m.oneshot /\ m.access # "unable"

\* Whether the switch for unaligned memory loads words, or goes byte by byte.
PlainLoads(m, order) == m.order = order /\ m.access = "efficient"

tail64_le_unaligned(m, p, page, tail) ==
    LET n == TailSize(tail)
    IN IF ~OneshotUnaligned(m) THEN SwitchLe(m, FALSE, PlainLoads(m, "little"), p, n)
       ELSE IF can_read_underside(m, page)
       THEN Down(fetch_le(m, FALSE, p - (8 - n), 8), 8 - n)
       ELSE Keep(fetch_le(m, FALSE, p, 8), n)

tail64_be_unaligned(m, p, page, tail) ==
    LET n == TailSize(tail)
    IN IF ~OneshotUnaligned(m) THEN SwitchBe(m, FALSE, PlainLoads(m, "big"), p, n)
       ELSE IF can_read_underside(m, page)
       THEN Keep(fetch_be(m, FALSE, p - (8 - n), 8), n)
       ELSE Down(fetch_be(m, FALSE, p, 8), 8 - n)
=============================================================================
