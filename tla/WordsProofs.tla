---------------------------- MODULE WordsProofs ----------------------------
(***************************************************************************)
(* Every reader of Words gives the same word: that of the bytes it was     *)
(* asked for, in the order it was asked for, and zeros, whatever the       *)
(* machine, the alignment and the place in a page; and every product of    *)
(* words put together from half words is exact, whatever their size.       *)
(***************************************************************************)
EXTENDS Words, Product, TLAPS

Little(p, n) == [k \in Places |-> IF k < n THEN {p + k} ELSE {}]
Big(p, n) == [k \in Places |-> IF k < n THEN {p + n - 1 - k} ELSE {}]

Sizes == {1, 2, 4, 8}

-----------------------------------------------------------------------------
LEMMA Indices ==
    ASSUME NEW k \in Places
    PROVE k \in {0, 1, 2, 3, 4, 5, 6, 7}
BY DEF Places

LEMMA JoinedBytes ==
    ASSUME NEW p \in Int, NEW n \in {2, 4, 8}
    PROVE Bytewise("little", p, n) = Little(p, n) /\ Bytewise("big", p, n) = Big(p, n)
<1>1. \A q \in Int : Joined16("little", q) = Little(q, 2) /\ Joined16("big", q) = Big(q, 2)
  BY DEF Joined16, Joined, ByteAt, Or, Up, Little, Big, Places
<1>2. \A q \in Int : Joined32("little", q) = Little(q, 4) /\ Joined32("big", q) = Big(q, 4)
  BY <1>1 DEF Joined32, Joined, Or, Up, Little, Big, Places
<1>3. \A q \in Int : Joined64("little", q) = Little(q, 8) /\ Joined64("big", q) = Big(q, 8)
  BY <1>2 DEF Joined64, Joined, Or, Up, Little, Big, Places
<1>4. QED
  BY <1>1, <1>2, <1>3 DEF Bytewise

LEMMA OrderedBytes ==
    ASSUME NEW m, m.order \in {"little", "big"}, NEW p \in Int, NEW n \in 1 .. 8
    PROVE Ordered(m, "little", p, n) = Little(p, n) /\ Ordered(m, "big", p, n) = Big(p, n)
<1>1. m.order = "little" => Load(m, p, n) = Little(p, n)
  <2>1. \A k \in Places : (k >= n) <=> ~(k < n)
    BY DEF Places
  <2>2. QED
    BY <2>1 DEF Load, Little
<1>2. m.order = "big" => Load(m, p, n) = Big(p, n)
  <2>1. \A k \in Places : (k >= n) <=> ~(k < n)
    BY DEF Places
  <2>2. QED
    BY <2>1 DEF Load, Big
<1>3. bswap(Little(p, n), n) = Big(p, n)
  <2>1. \A k \in Places : k < n =>
          /\ n - 1 - k \in Places /\ n - 1 - k < n
          /\ p + (n - 1 - k) = p + n - 1 - k
    BY DEF Places
  <2>2. QED
    BY <2>1 DEF bswap, Little, Big
<1>4. bswap(Big(p, n), n) = Little(p, n)
  <2>1. \A k \in Places : k < n =>
          /\ n - 1 - k \in Places /\ n - 1 - k < n
          /\ p + n - 1 - (n - 1 - k) = p + k
    BY DEF Places
  <2>2. QED
    BY <2>1 DEF bswap, Little, Big
<1>5. QED
  BY <1>1, <1>2, <1>3, <1>4 DEF Ordered

(* A word is read right in either order by t1ha on any machine, known to   *)
(* be aligned or not (fetch64_le_aligned and the like).                    *)
THEOREM FetchRight ==
    ASSUME NEW m, m.order \in {"little", "big"}, NEW aligned \in BOOLEAN,
           NEW p \in Int, NEW n \in {2, 4, 8}
    PROVE fetch_le(m, aligned, p, n) = Little(p, n) /\ fetch_be(m, aligned, p, n) = Big(p, n)
BY JoinedBytes, OrderedBytes DEF fetch_le, fetch_be

(* And by rapidhash and wyhash.                                            *)
THEOREM ReadRight ==
    ASSUME NEW m, m.order \in {"little", "big"}, NEW p \in Int, NEW n \in {4, 8}
    PROVE rapid_read(m, p, n) = Little(p, n) /\ _wyr(m, p, n) = Little(p, n)
BY OrderedBytes DEF rapid_read, _wyr
-----------------------------------------------------------------------------
(* The tails.                                                              *)

LEMMA WholeLoad ==
    ASSUME NEW n \in 1 .. 8
    PROVE Whole(n) \in Sizes /\ Whole(n) <= n /\ (n > 1 => Whole(n) \in {2, 4, 8})
<1>1. \E k \in {1, 2, 4, 8} : k <= n /\ 2 * k > n
  OBVIOUS
<1>2. Whole(n) \in {1, 2, 4, 8} /\ Whole(n) <= n /\ 2 * Whole(n) > n
  BY <1>1 DEF Whole
<1>3. QED
  BY <1>2 DEF Sizes

LEMMA SwitchRight ==
    ASSUME NEW m, m.order \in {"little", "big"}, NEW aligned \in BOOLEAN, NEW byWords \in BOOLEAN,
           NEW p \in Int, NEW n \in 1 .. 8
    PROVE /\ SwitchLe(m, aligned, byWords, p, n) = Little(p, n)
          /\ SwitchBe(m, aligned, byWords, p, n) = Big(p, n)
<1>1. RestLe(p, 0, n) = Little(p, n) /\ RestBe(p, 0, n) = Big(p, n)
  BY DEF RestLe, RestBe, Little, Big, Places
<1>2. n = 1 => ByteAt(p) = Little(p, n) /\ ByteAt(p) = Big(p, n)
  BY DEF ByteAt, Little, Big, Places
<1>3. ASSUME n # 1
      PROVE /\ Or(fetch_le(m, aligned, p, Whole(n)), RestLe(p, Whole(n), n)) = Little(p, n)
            /\ Or(Up(fetch_be(m, aligned, p, Whole(n)), n - Whole(n)), RestBe(p, Whole(n), n))
                   = Big(p, n)
  <2> DEFINE w == Whole(n)
  <2>1. w \in {2, 4, 8} /\ w <= n
    BY <1>3, WholeLoad
  <2>2. fetch_le(m, aligned, p, w) = Little(p, w) /\ fetch_be(m, aligned, p, w) = Big(p, w)
    BY <2>1, FetchRight
  <2> HIDE DEF w
  <2>3. Or(Little(p, w), RestLe(p, w, n)) = Little(p, n)
    BY <2>1 DEF Or, RestLe, Little, Places
  <2>4. \A k \in Places :
          /\ (k < n - w) <=> ~(k >= n - w)
          /\ k < n - w => k < n
          /\ k >= n - w =>
                /\ k - (n - w) \in Places
                /\ (k - (n - w) < w) <=> (k < n)
                /\ p + w - 1 - (k - (n - w)) = p + n - 1 - k
    BY <2>1 DEF Places
  <2>5. Or(Up(Big(p, w), n - w), RestBe(p, w, n)) = Big(p, n)
    <3>1. \A k \in Places : Up(Big(p, w), n - w)[k] \cup RestBe(p, w, n)[k] = Big(p, n)[k]
      BY <2>4 DEF Up, RestBe, Big
    <3>2. QED
      BY <3>1 DEF Or, Big
  <2>6. QED
    BY <2>2, <2>3, <2>5 DEF w
<1>4. QED
  BY <1>1, <1>2, <1>3 DEF SwitchLe, SwitchBe

(* A tail is read right, in either order: nothing of what is loaded beside *)
(* it is left in the word (tail64_le_aligned and the like).                *)
THEOREM TailRight ==
    ASSUME NEW m, m.oneshot \in BOOLEAN, m.order \in {"little", "big"},
           NEW p \in Int, NEW page \in Nat, NEW tail \in Nat
    PROVE LET n == TailSize(tail)
          IN /\ tail64_le_aligned(m, p, tail) = Little(p, n)
             /\ tail64_be_aligned(m, p, tail) = Big(p, n)
             /\ tail64_le_unaligned(m, p, page, tail) = Little(p, n)
             /\ tail64_be_unaligned(m, p, page, tail) = Big(p, n)
<1> DEFINE n == TailSize(tail)
<1>1. n \in 1 .. 8
  BY DEF TailSize
<1> HIDE DEF n
<1>2. \A aligned \in BOOLEAN, q \in Int :
        fetch_le(m, aligned, q, 8) = Little(q, 8) /\ fetch_be(m, aligned, q, 8) = Big(q, 8)
  BY FetchRight
<1>3. p - (8 - n) \in Int
  BY <1>1
<1>4. Keep(Little(p, 8), n) = Little(p, n)
  BY <1>1 DEF Keep, Little, Places
<1>5. Down(Big(p, 8), 8 - n) = Big(p, n)
  <2>1. \A k \in Places :
          /\ (k + (8 - n) \in Places) <=> k < n
          /\ k + (8 - n) \in Places => k + (8 - n) < 8 /\ p + 8 - 1 - (k + (8 - n)) = p + n - 1 - k
    BY <1>1 DEF Places
  <2>2. QED
    BY <2>1 DEF Down, Big
<1>6. Down(Little(p - (8 - n), 8), 8 - n) = Little(p, n)
  <2>1. \A k \in Places :
          /\ (k + (8 - n) \in Places) <=> k < n
          /\ k + (8 - n) \in Places => k + (8 - n) < 8 /\ p - (8 - n) + (k + (8 - n)) = p + k
    BY <1>1 DEF Places
  <2>2. QED
    BY <2>1 DEF Down, Little
<1>7. Keep(Big(p - (8 - n), 8), n) = Big(p, n)
  BY <1>1 DEF Keep, Big, Places
<1>8. \A aligned, byWords \in BOOLEAN :
        /\ SwitchLe(m, aligned, byWords, p, n) = Little(p, n)
        /\ SwitchBe(m, aligned, byWords, p, n) = Big(p, n)
  BY <1>1, SwitchRight
<1>9. QED
  <2>1. (m.order = "little") \in BOOLEAN /\ (m.order = "big") \in BOOLEAN
        /\ PlainLoads(m, "little") \in BOOLEAN /\ PlainLoads(m, "big") \in BOOLEAN
    BY DEF PlainLoads
  <2>2. tail64_le_aligned(m, p, tail) = Little(p, n)
    BY <1>2, <1>4, <1>8, <2>1, Zenon DEF tail64_le_aligned, n
  <2>3. tail64_be_aligned(m, p, tail) = Big(p, n)
    BY <1>2, <1>5, <1>8, <2>1, Zenon DEF tail64_be_aligned, n
  <2>4. tail64_le_unaligned(m, p, page, tail) = Little(p, n)
    BY <1>2, <1>3, <1>4, <1>6, <1>8, <2>1 DEF tail64_le_unaligned, n
  <2>5. tail64_be_unaligned(m, p, page, tail) = Big(p, n)
    BY <1>2, <1>3, <1>5, <1>7, <1>8, <2>1 DEF tail64_be_unaligned, n
  <2>6. QED
    BY <2>2, <2>3, <2>4, <2>5 DEF n

-----------------------------------------------------------------------------
(* Products.                                                               *)

\* Division with remainder is unique.
LEMMA DivisionUnique ==
    ASSUME NEW d \in Nat \ {0}, NEW q \in Nat, NEW r \in 0 .. d - 1
    PROVE  (q * d + r) % d = r /\ (q * d + r) \div d = q
OBVIOUS

\* The number of words is a positive number.
LEMMA WordsPositive == W \in Nat \ {0} /\ H \in Nat \ {0}
BY HalfAssumption DEF W

\* Every word is its high half times the base and its low half.
LEMMA Halves ==
    ASSUME NEW x \in Word
    PROVE  /\ x = High(x) * H + Low(x)
           /\ High(x) \in 0 .. H - 1 /\ Low(x) \in 0 .. H - 1
<1>1. High(x) \in Nat /\ Low(x) \in 0 .. H - 1 /\ x = High(x) * H + Low(x)
  BY HalfAssumption DEF High, Low, Word, W
<1>2. ASSUME High(x) >= H PROVE FALSE
  <2>1. High(x) * H >= H * H
    BY <1>1, <1>2, HalfAssumption
  <2>2. QED BY <1>1, <2>1, HalfAssumption DEF Word, W
<1>3. QED BY <1>1, <1>2, HalfAssumption

\* The product of two halves is a word.
LEMMA HalfProduct ==
    ASSUME NEW x \in 0 .. H - 1, NEW y \in 0 .. H - 1
    PROVE  x * y \in Word
<1>1. H - 1 \in Nat /\ (H - 1) * (H - 1) <= H * H - 1
  BY HalfAssumption
<1>2. x * y <= (H - 1) * (H - 1)
  <2>1. x * y <= x * (H - 1)
    BY HalfAssumption
  <2>2. x * (H - 1) <= (H - 1) * (H - 1)
    BY HalfAssumption
  <2>3. QED BY <2>1, <2>2, HalfAssumption
<1>3. QED BY <1>1, <1>2, HalfAssumption DEF Word, W

\* A word shifted up by a half keeps its low half.
LEMMA ShiftUpIsLow ==
    ASSUME NEW x \in Word
    PROVE  ShiftUp(x) = Low(x) * H /\ ShiftUp(x) \in Word
<1> DEFINE q == High(x)  r == Low(x)
<1>1. x = q * H + r /\ q \in 0 .. H - 1 /\ r \in 0 .. H - 1
  BY Halves
<1> HIDE DEF q, r
<1>2. x * H = q * W + r * H
  BY <1>1, HalfAssumption DEF W
<1>3. r * H \in 0 .. W - 1
  <2>1. r * H <= (H - 1) * H
    BY <1>1, HalfAssumption
  <2>2. QED BY <1>1, <2>1, HalfAssumption DEF W
<1>4. (q * W + r * H) % W = r * H
  <2>1. q \in Nat
    BY <1>1, HalfAssumption
  <2>2. QED BY <2>1, <1>3, WordsPositive, DivisionUnique
<1>5. QED BY <1>2, <1>3, <1>4 DEF ShiftUp, Word, r

\* A sum of two words is below one of them exactly if it has a carry, and the
\* carry is what it lacks.
LEMMA Carry ==
    ASSUME NEW x \in Word, NEW y \in Word
    PROVE  /\ (x + y) % W \in Word
           /\ x + y = ((x + y) % W) + Bit((x + y) % W < x) * W
           /\ Bit((x + y) % W < y) = Bit((x + y) % W < x)
           /\ Bit((x + y) % W < x) \in 0 .. 1
<1>1. CASE x + y < W
  <2>1. (0 * W + (x + y)) % W = x + y
    BY <1>1, WordsPositive, DivisionUnique DEF Word
  <2>2. (x + y) % W = x + y
    BY <2>1, WordsPositive DEF Word
  <2>3. QED BY <1>1, <2>2, WordsPositive DEF Bit, Word
<1>2. CASE x + y >= W
  <2>1. (1 * W + (x + y - W)) % W = x + y - W
    BY <1>2, WordsPositive, DivisionUnique DEF Word
  <2>2. (x + y) % W = x + y - W
    BY <2>1, WordsPositive DEF Word
  <2>3. QED BY <1>2, <2>2, WordsPositive DEF Bit, Word
<1>3. QED BY <1>1, <1>2, WordsPositive DEF Word

\* The four partial products put together: what both algorithms rest on.
LEMMA Assembled ==
    ASSUME NEW a \in Word, NEW b \in Word,
           NEW lo \in Word, NEW c \in 0 .. 1, NEW d \in 0 .. 1,
           Low(a) * Low(b) + Low(High(a) * Low(b)) * H
               + Low(High(b) * Low(a)) * H = lo + c * W + d * W
    PROVE  /\ WideProduct(a, b)[1] = lo
           /\ WideProduct(a, b)[2] = High(a) * High(b) + High(High(a) * Low(b))
                                       + High(High(b) * Low(a)) + c + d
<1> DEFINE ha == High(a)  la == Low(a)  hb == High(b)  lb == Low(b)
           q0 == High(ha * lb)  r0 == Low(ha * lb)
           q1 == High(hb * la)  r1 == Low(hb * la)
           hi == ha * hb + q0 + q1 + c + d
<1>1. /\ a = ha * H + la /\ b = hb * H + lb
      /\ ha \in Nat /\ la \in Nat /\ hb \in Nat /\ lb \in Nat
  BY Halves, HalfAssumption
<1>2. /\ ha * lb = q0 * H + r0 /\ hb * la = q1 * H + r1
      /\ q0 \in Nat /\ r0 \in Nat /\ q1 \in Nat /\ r1 \in Nat
  <2>1. ha * lb \in Word /\ hb * la \in Word
    BY HalfProduct, Halves
  <2>2. QED BY <2>1, Halves, HalfAssumption
<1>3. la * lb + r0 * H + r1 * H = lo + c * W + d * W
  OBVIOUS
<1> HIDE DEF ha, la, hb, lb, q0, r0, q1, r1
<1>4. a * b = (ha * hb) * W + (ha * lb) * H + (hb * la) * H + la * lb
  BY <1>1, HalfAssumption DEF W
<1>5. (ha * lb) * H = q0 * W + r0 * H /\ (hb * la) * H = q1 * W + r1 * H
  BY <1>2, HalfAssumption DEF W
<1>6. a * b = hi * W + lo
  BY <1>1, <1>2, <1>3, <1>4, <1>5, WordsPositive DEF Word
<1>7. hi \in Nat
  BY <1>1, <1>2
<1> HIDE DEF hi
<1>8. (a * b) % W = lo /\ (a * b) \div W = hi
  BY <1>6, <1>7, WordsPositive, DivisionUnique DEF Word
<1>9. QED BY <1>8 DEF WideProduct, hi, ha, la, hb, lb, q0, q1

\* The high words of the algorithms are below the number of words.
LEMMA HighWord ==
    ASSUME NEW a \in Word, NEW b \in Word
    PROVE  WideProduct(a, b)[2] \in Word
<1> DEFINE q == (a * b) \div W
<1>1. a * b <= (W - 1) * (W - 1) /\ a * b \in Nat
  <2>1. a * b <= a * (W - 1) /\ a * (W - 1) <= (W - 1) * (W - 1)
    BY WordsPositive DEF Word
  <2>2. QED BY <2>1, WordsPositive DEF Word
<1>2. q \in Nat /\ q * W <= a * b
  BY <1>1, WordsPositive
<1> HIDE DEF q
<1>3. ASSUME q >= W PROVE FALSE
  <2>1. q * W >= W * W
    BY <1>2, <1>3, WordsPositive
  <2>2. (W - 1) * (W - 1) < W * W
    BY WordsPositive
  <2>3. QED BY <1>1, <1>2, <2>1, <2>2, WordsPositive
<1>4. q \in Word
  BY <1>2, <1>3, WordsPositive DEF Word
<1>5. QED BY <1>4 DEF WideProduct, q

\* rapid_mum and _wymum: the portable product of two words is exact, for every
\* size of a half word.
THEOREM HalvesProductExact ==
    ASSUME NEW a \in Word, NEW b \in Word
    PROVE  HalvesProduct(a, b) = WideProduct(a, b)
<1> DEFINE rm0 == High(a) * Low(b)  rm1 == High(b) * Low(a)  rl == Low(a) * Low(b)
           t == (rl + ShiftUp(rm0)) % W  lo == (t + ShiftUp(rm1)) % W
           hi == High(a) * High(b) + High(rm0) + High(rm1) + Bit(t < rl) + Bit(lo < t)
<1>1. rl \in Word /\ rm0 \in Word /\ rm1 \in Word
  BY HalfProduct, Halves
<1>2. /\ ShiftUp(rm0) = Low(rm0) * H /\ ShiftUp(rm0) \in Word
      /\ ShiftUp(rm1) = Low(rm1) * H /\ ShiftUp(rm1) \in Word
  BY <1>1, ShiftUpIsLow
<1> HIDE DEF rl
<1>3. t \in Word /\ rl + ShiftUp(rm0) = t + Bit(t < rl) * W /\ Bit(t < rl) \in 0 .. 1
  BY <1>1, <1>2, Carry
<1>4. lo \in Word /\ t + ShiftUp(rm1) = lo + Bit(lo < t) * W /\ Bit(lo < t) \in 0 .. 1
  BY <1>2, <1>3, Carry
<1>5. rl + Low(rm0) * H + Low(rm1) * H = lo + Bit(t < rl) * W + Bit(lo < t) * W
  <2>1. Low(rm0) * H \in Nat /\ Low(rm1) * H \in Nat
    BY <1>2, WordsPositive DEF Word
  <2> HIDE DEF t, lo, rm0, rm1
  <2>2. QED BY <2>1, <1>1, <1>2, <1>3, <1>4, WordsPositive DEF Word
<1>6. WideProduct(a, b)[1] = lo /\ WideProduct(a, b)[2] = hi
  <2> DEFINE c == Bit(t < rl)  d == Bit(lo < t)
  <2>1. lo \in Word /\ c \in 0 .. 1 /\ d \in 0 .. 1
    BY <1>3, <1>4
  <2>2. Low(a) * Low(b) + Low(High(a) * Low(b)) * H + Low(High(b) * Low(a)) * H
          = lo + c * W + d * W
    BY <1>5 DEF rl
  <2> HIDE DEF lo, c, d
  <2>3. QED BY <2>1, <2>2, Assembled DEF c, d
<1>7. hi \in Word
  BY <1>6, HighWord
<1>8. hi % W = hi
  <2> HIDE DEF hi
  <2>1. (0 * W + hi) % W = hi
    BY <1>7, WordsPositive, DivisionUnique DEF Word
  <2>2. QED BY <2>1, <1>7, WordsPositive DEF Word
<1>9. HalvesProduct(a, b) = <<lo, hi % W>>
  BY DEF HalvesProduct, SecondCarry, rl
<1>10. QED BY <1>6, <1>8, <1>9 DEF WideProduct

\* mul_64x64_128 of t1ha: the same for the algorithm that compares with the
\* other operand and adds the carries one at a time.
THEOREM CarriesProductExact ==
    ASSUME NEW a \in Word, NEW b \in Word
    PROVE  CarriesProduct(a, b) = WideProduct(a, b)
<1> DEFINE lh == High(a) * Low(b)  hl == High(b) * Low(a)  ll == Low(a) * Low(b)
           t == (ll + ShiftUp(lh)) % W  lo == (t + ShiftUp(hl)) % W
           c == Bit(t < ShiftUp(lh))  d == Bit(lo < ShiftUp(hl))
           m == High(a) * High(b) + High(lh) + c
           hi == High(a) * High(b) + High(lh) + High(hl) + c + d
<1>1. ll \in Word /\ lh \in Word /\ hl \in Word
  BY HalfProduct, Halves
<1>2. /\ ShiftUp(lh) = Low(lh) * H /\ ShiftUp(lh) \in Word
      /\ ShiftUp(hl) = Low(hl) * H /\ ShiftUp(hl) \in Word
  BY <1>1, ShiftUpIsLow
<1> HIDE DEF ll
<1>3. t \in Word /\ ll + ShiftUp(lh) = t + c * W /\ c \in 0 .. 1
  BY <1>1, <1>2, Carry
<1>4. lo \in Word /\ t + ShiftUp(hl) = lo + d * W /\ d \in 0 .. 1
  BY <1>2, <1>3, Carry
<1>5. ll + Low(lh) * H + Low(hl) * H = lo + c * W + d * W
  <2>1. Low(lh) * H \in Nat /\ Low(hl) * H \in Nat
    BY <1>2, WordsPositive DEF Word
  <2> HIDE DEF t, lo, lh, hl, c, d
  <2>2. QED BY <2>1, <1>1, <1>2, <1>3, <1>4, WordsPositive DEF Word
<1>6. WideProduct(a, b)[1] = lo /\ WideProduct(a, b)[2] = hi
  <2>1. lo \in Word /\ c \in 0 .. 1 /\ d \in 0 .. 1
    BY <1>3, <1>4
  <2>2. Low(a) * Low(b) + Low(High(a) * Low(b)) * H + Low(High(b) * Low(a)) * H
          = lo + c * W + d * W
    BY <1>5 DEF ll
  <2> HIDE DEF lo, c, d
  <2>3. QED BY <2>1, <2>2, Assembled
<1>7. hi \in Word
  BY <1>6, HighWord
<1>8. /\ High(a) * High(b) \in Nat /\ High(lh) \in Nat /\ High(hl) \in Nat
      /\ Low(a) * High(b) = hl
  <2>1. High(a) \in Nat /\ High(b) \in Nat /\ Low(a) \in Nat
    BY Halves, HalfAssumption
  <2>2. High(lh) \in Nat /\ High(hl) \in Nat
    BY <1>1, Halves, HalfAssumption
  <2>3. QED BY <2>1, <2>2
<1>9. m % W = m /\ (m + High(hl) + d) % W = hi
  <2>1. m \in Nat /\ m <= hi /\ hi = m + High(hl) + d /\ hi \in Nat /\ hi < W
    BY <1>3, <1>4, <1>7, <1>8, WordsPositive DEF Word
  <2> HIDE DEF m, hi
  <2>2. (0 * W + m) % W = m /\ (0 * W + hi) % W = hi
    BY <2>1, WordsPositive, DivisionUnique
  <2>3. QED BY <2>1, <2>2, WordsPositive
<1>10. CarriesProduct(a, b) = <<lo, hi>>
  <2>1. CarriesProduct(a, b) =
          <<lo, (((High(a) * High(b) + High(lh) + c) % W) + High(hl) + d) % W>>
    BY <1>8 DEF CarriesProduct, add64carry_first, add64carry_last, ll
  <2> HIDE DEF lh, hl, lo, c, d
  <2>2. QED BY <2>1, <1>9
<1>11. QED BY <1>6, <1>10 DEF WideProduct
=============================================================================
