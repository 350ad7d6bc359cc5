---------------------------- MODULE Blake3Proofs ----------------------------
(***************************************************************************)
(* The hasher gives the hash of the whole file, for files of every length, *)
(* cut into any pieces, on any machine.                                    *)
(***************************************************************************)
EXTENDS Blake3, SequenceTheorems, WellFoundedInduction, TLAPS

-----------------------------------------------------------------------------
(* Multiples and powers of two.                                            *)

\* A set of natural numbers has a least element: what the inductions go by.
LEMMA LeastNumber ==
    ASSUME NEW N \in SUBSET Nat, N # {}
    PROVE  \E n \in N : \A m \in N : n <= m
  <1>1. PICK n \in N : \A m \in N : <<m, n>> \notin OpToRel(<, Nat)
    BY WFMin, NatLessThanWellFounded
  <1>2. \A m \in N : ~(m < n)
    BY <1>1 DEF OpToRel
  <1> QED
    BY <1>2

\* A set of natural numbers that has 0 and with every number the next one
\* has all up to a bound.
LEMMA UpTo ==
    ASSUME NEW bound \in Nat, NEW N, 0 \in N,
           \A n \in Nat : n < bound /\ n \in N => n + 1 \in N
    PROVE  \A n \in 0 .. bound : n \in N
  <1> DEFINE Left == {n \in 0 .. bound : n \notin N}
  <1>1. SUFFICES ASSUME Left # {} PROVE FALSE
    OBVIOUS
  <1>2. PICK n \in Left : \A m \in Left : n <= m
    <2>1. Left \in SUBSET Nat
      OBVIOUS
    <2> HIDE DEF Left
    <2> QED
      BY <1>1, <2>1, LeastNumber
  <1>3. n # 0
    BY <1>2
  <1>4. n - 1 \in 0 .. bound /\ n - 1 \notin Left
    BY <1>2, <1>3
  <1> QED
    BY <1>2, <1>3, <1>4

Multiple(x, p) == \E k \in Nat : x = p * k

LEMMA MultipleIs ==
    ASSUME NEW p \in Nat, NEW k \in Nat
    PROVE  Multiple(p * k, p)
  BY DEF Multiple

LEMMA MultipleMod ==
    ASSUME NEW x \in Nat, NEW p \in Nat, p > 0
    PROVE  Multiple(x, p) <=> x % p = 0
  <1>1. x = p * (x \div p) + (x % p) /\ x \div p \in Nat
    OBVIOUS
  <1>2. \A k \in Nat : x = p * k => x % p = 0
    OBVIOUS
  <1>3. ASSUME x % p = 0 PROVE Multiple(x, p)
    <2>1. x = p * (x \div p)
      BY <1>1, <1>3
    <2> QED
      BY <1>1, <2>1 DEF Multiple
  <1>4. ASSUME Multiple(x, p) PROVE x % p = 0
    BY <1>2, <1>4 DEF Multiple
  <1> QED
    BY <1>3, <1>4

LEMMA MultipleSelf ==
    ASSUME NEW p \in Nat
    PROVE  Multiple(p, p) /\ Multiple(0, p)
  <1>1. p = p * 1 /\ 0 = p * 0
    OBVIOUS
  <1> QED
    BY <1>1 DEF Multiple

LEMMA MultipleSum ==
    ASSUME NEW x \in Nat, NEW y \in Nat, NEW p \in Nat, Multiple(x, p), Multiple(y, p)
    PROVE  Multiple(x + y, p) /\ (y <= x => Multiple(x - y, p))
  <1>1. PICK j \in Nat : x = p * j
    BY DEF Multiple
  <1>2. PICK k \in Nat : y = p * k
    BY DEF Multiple
  <1>3. Multiple(x + y, p)
    <2>1. x + y = p * (j + k) /\ j + k \in Nat
      BY <1>1, <1>2
    <2> QED
      BY <2>1, MultipleIs
  <1>4. ASSUME y <= x PROVE Multiple(x - y, p)
    <2>1. CASE k <= j
      <3>1. x - y = p * (j - k) /\ j - k \in Nat
        BY <1>1, <1>2, <2>1
      <3> QED
        BY <3>1, MultipleIs
    <2>2. CASE j < k
      <3>1. p * j <= p * k
        BY <2>2
      <3>2. x - y = p * 0
        BY <1>1, <1>2, <1>4, <3>1
      <3> QED
        BY <3>2, MultipleIs
    <2> QED
      BY <2>1, <2>2
  <1> QED
    BY <1>3, <1>4

\* Two multiples are a step apart.
LEMMA MultipleGap ==
    ASSUME NEW x \in Nat, NEW y \in Nat, NEW p \in Nat, Multiple(x, p), Multiple(y, p), x < y
    PROVE  x + p <= y
  <1>1. PICK j \in Nat : x = p * j
    BY DEF Multiple
  <1>2. PICK k \in Nat : y = p * k
    BY DEF Multiple
  <1>3. j + 1 <= k
    <2>1. k <= j => p * k <= p * j
      OBVIOUS
    <2> QED
      BY <1>1, <1>2, <2>1
  <1>4. p * (j + 1) <= p * k /\ p * (j + 1) = p * j + p
    BY <1>3
  <1> QED
    BY <1>1, <1>2, <1>4

LEMMA MultipleOfMultiple ==
    ASSUME NEW x \in Nat, NEW y \in Nat, NEW p \in Nat, Multiple(x, y), Multiple(y, p)
    PROVE  Multiple(x, p)
  <1>1. PICK j \in Nat : x = y * j
    BY DEF Multiple
  <1>2. PICK k \in Nat : y = p * k
    BY DEF Multiple
  <1>3. x = p * (k * j) /\ k * j \in Nat
    BY <1>1, <1>2
  <1> QED
    BY <1>3, MultipleIs

LEMMA WordBitsType == WordBits \in Nat \ {0} /\ WordBits - 1 \in Nat
  BY LengthsAssumption

\* pow2 is what its definition says.
LEMMA Pow2Is == pow2 = [k \in 0 .. WordBits |-> IF k = 0 THEN 1 ELSE 2 * pow2[k - 1]]
  <1> DEFINE Upto(n) == \E g : \A k \in 0 .. n : g[k] = IF k = 0 THEN 1 ELSE 2 * g[k - 1]
             N == {n \in Nat : Upto(n)}
  <1>1. 0 \in N
    <2>1. \A k \in 0 .. 0 : [j \in {0} |-> 1][k] = IF k = 0 THEN 1 ELSE 2 * [j \in {0} |-> 1][k - 1]
      OBVIOUS
    <2> QED
      BY <2>1
  <1>2. ASSUME NEW n \in Nat, n \in N PROVE n + 1 \in N
    <2>1. PICK g : \A k \in 0 .. n : g[k] = IF k = 0 THEN 1 ELSE 2 * g[k - 1]
      BY <1>2
    <2> DEFINE h == [k \in 0 .. n + 1 |-> IF k = n + 1 THEN 2 * g[n] ELSE g[k]]
    <2>2. \A k \in 0 .. n + 1 : h[k] = IF k = 0 THEN 1 ELSE 2 * h[k - 1]
      BY <2>1
    <2> HIDE DEF h
    <2> QED
      BY <2>2
  <1>3. Upto(WordBits)
    <2> HIDE DEF Upto
    <2>1. \A n \in Nat : n < WordBits /\ n \in N => n + 1 \in N
      BY <1>2
    <2> HIDE DEF N
    <2>2. \A n \in 0 .. WordBits : n \in N
      BY <1>1, <2>1, UpTo, WordBitsType
    <2>3. WordBits \in N
      BY <2>2, WordBitsType
    <2> QED
      BY <2>3 DEF N
  <1>4. PICK g : \A k \in 0 .. WordBits : g[k] = IF k = 0 THEN 1 ELSE 2 * g[k - 1]
    BY <1>3
  <1> DEFINE h == [k \in 0 .. WordBits |-> g[k]]
  <1>5. h = [k \in 0 .. WordBits |-> IF k = 0 THEN 1 ELSE 2 * h[k - 1]]
    BY <1>4, WordBitsType
  <1> HIDE DEF h
  <1> QED
    BY <1>5 DEF pow2

LEMMA Pow2Steps ==
    /\ pow2[0] = 1
    /\ \A k \in 0 .. WordBits - 1 : pow2[k + 1] = 2 * pow2[k]
  BY Pow2Is, WordBitsType

LEMMA Pow2Type == \A k \in 0 .. WordBits : pow2[k] \in Nat \ {0}
  <1> DEFINE N == {n \in 0 .. WordBits : pow2[n] \in Nat \ {0}}
  <1>1. 0 \in N
    BY Pow2Steps, WordBitsType
  <1>2. \A n \in Nat : n < WordBits /\ n \in N => n + 1 \in N
    BY Pow2Steps, WordBitsType
  <1>3. N \subseteq {n \in 0 .. WordBits : pow2[n] \in Nat \ {0}}
    OBVIOUS
  <1> HIDE DEF N
  <1>4. \A n \in 0 .. WordBits : n \in N
    BY <1>1, <1>2, UpTo, WordBitsType
  <1> QED
    BY <1>3, <1>4

LEMMA Pow2Sum ==
    ASSUME NEW i \in 0 .. WordBits, NEW d \in 0 .. WordBits - i
    PROVE  pow2[i + d] = pow2[i] * pow2[d]
  <1> DEFINE N == {n \in 0 .. WordBits - i : pow2[i + n] = pow2[i] * pow2[n]}
  <1>1. 0 \in N
    BY Pow2Steps, Pow2Type, WordBitsType
  <1>2. ASSUME NEW n \in Nat, n < WordBits - i, n \in N PROVE n + 1 \in N
    <2>1. pow2[i + n] = pow2[i] * pow2[n]
      BY <1>2
    <2>2. pow2[(i + n) + 1] = 2 * pow2[i + n] /\ pow2[n + 1] = 2 * pow2[n]
      BY <1>2, Pow2Steps, WordBitsType
    <2>3. pow2[i] \in Nat /\ pow2[n] \in Nat
      BY <1>2, Pow2Type, WordBitsType
    <2>4. pow2[i + (n + 1)] = pow2[i] * pow2[n + 1]
      <3>1. i + (n + 1) = (i + n) + 1
        BY <1>2
      <3>2. 2 * (pow2[i] * pow2[n]) = pow2[i] * (2 * pow2[n])
        BY <2>3
      <3> QED
        BY <2>1, <2>2, <3>1, <3>2
    <2>5. n + 1 \in 0 .. WordBits - i
      BY <1>2, WordBitsType
    <2> QED
      BY <2>4, <2>5
  <1>3. WordBits - i \in Nat
    BY WordBitsType
  <1>4. \A n \in N : pow2[i + n] = pow2[i] * pow2[n]
    OBVIOUS
  <1> HIDE DEF N
  <1>5. d \in N
    BY <1>1, <1>2, <1>3, UpTo
  <1> QED
    BY <1>4, <1>5

LEMMA PowersType == Powers \subseteq Nat \ {0} /\ 1 \in Powers
  BY Pow2Type, Pow2Steps, WordBitsType DEF Powers

LEMMA Pow2Twice == \A k \in 1 .. WordBits : pow2[k] = 2 * pow2[k - 1] /\ pow2[k - 1] \in Nat \ {0}
  BY Pow2Steps, Pow2Type, WordBitsType

LEMMA PowersNest ==
    ASSUME NEW p \in Powers, NEW q \in Powers, p <= q
    PROVE  \E r \in Powers : q = p * r /\ (p < q => \E h \in Powers : r = 2 * h)
  <1>1. PICK i \in 0 .. WordBits - 1 : p = pow2[i]
    BY DEF Powers
  <1>2. PICK j \in 0 .. WordBits - 1 : q = pow2[j]
    BY DEF Powers
  <1>3. i <= j
    <2>1. CASE j < i
      <3>1. j \in 0 .. WordBits /\ i - j \in 1 .. WordBits /\ i - j \in 0 .. WordBits - j /\ j + (i - j) = i
        BY <2>1, WordBitsType
      <3>2. pow2[i] = pow2[j] * pow2[i - j]
        BY <3>1, Pow2Sum
      <3>3. pow2[i - j] >= 2 /\ pow2[i - j] \in Nat
        BY <3>1, Pow2Twice, WordBitsType
      <3>4. pow2[j] * pow2[i - j] >= pow2[j] * 2 /\ pow2[j] \in Nat \ {0}
        BY <3>1, <3>3, Pow2Type
      <3>5. p \in Nat /\ q \in Nat
        BY PowersType
      <3> QED
        BY <1>1, <1>2, <3>2, <3>4, <3>5
    <2> QED
      BY <2>1, WordBitsType
  <1>4. i \in 0 .. WordBits /\ j - i \in 0 .. WordBits - 1 /\ j - i \in 0 .. WordBits - i /\ i + (j - i) = j
    BY <1>3, WordBitsType
  <1>5. pow2[j] = pow2[i] * pow2[j - i]
    BY <1>4, Pow2Sum
  <1>6. pow2[j - i] \in Powers
    BY <1>4 DEF Powers
  <1>7. ASSUME p < q PROVE \E h \in Powers : pow2[j - i] = 2 * h
    <2>1. i # j
      BY <1>1, <1>2, <1>7, PowersType
    <2>2. j - i \in 1 .. WordBits /\ j - i - 1 \in 0 .. WordBits - 1
      BY <1>3, <1>4, <2>1, WordBitsType
    <2>3. pow2[j - i] = 2 * pow2[j - i - 1]
      BY <2>2, Pow2Twice
    <2> QED
      BY <2>2, <2>3 DEF Powers
  <1> QED
    BY <1>1, <1>2, <1>5, <1>6, <1>7

\* What a power of two divides, and how far apart two of them are.
LEMMA PowersApart ==
    ASSUME NEW p \in Powers, NEW q \in Powers
    PROVE  /\ p <= q => Multiple(q, p)
           /\ p < q => 2 * p <= q /\ Multiple(q, 2 * p)
  <1>1. p \in Nat \ {0} /\ q \in Nat \ {0}
    BY PowersType
  <1>2. ASSUME p <= q PROVE Multiple(q, p)
    <2>1. PICK r \in Powers : q = p * r
      BY <1>2, PowersNest
    <2> QED
      BY <1>1, <2>1, PowersType, MultipleIs
  <1>3. ASSUME p < q PROVE 2 * p <= q /\ Multiple(q, 2 * p)
    <2>1. PICK h \in Powers : q = p * (2 * h)
      <3>1. PICK r \in Powers : q = p * r /\ \E h \in Powers : r = 2 * h
        BY <1>1, <1>3, PowersNest
      <3> QED
        BY <3>1
    <2>2. h \in Nat \ {0}
      BY PowersType
    <2>3. q = (2 * p) * h /\ 2 * p <= (2 * p) * h
      BY <1>1, <2>1, <2>2
    <2>4. 2 * p \in Nat
      BY <1>1
    <2>5. Multiple((2 * p) * h, 2 * p)
      BY <2>2, <2>4, MultipleIs
    <2> QED
      BY <2>3, <2>5
  <1> QED
    BY <1>2, <1>3

LEMMA PowerHalf ==
    ASSUME NEW p \in Powers, p # 1
    PROVE  \E h \in Powers : p = 2 * h
  <1>1. PICK r \in Powers : p = 1 * r /\ (1 < p => \E h \in Powers : r = 2 * h)
    BY PowersNest, PowersType
  <1> QED
    BY <1>1, PowersType

\* Twice a power is a power, if a file may be as long.
LEMMA PowerTwice ==
    ASSUME NEW p \in Powers, 2 * p <= MaxLen
    PROVE  2 * p \in Powers
  <1>1. PICK k \in 0 .. WordBits - 1 : p = pow2[k]
    BY DEF Powers
  <1>2. pow2[k + 1] = 2 * p
    BY <1>1, Pow2Steps
  <1>3. k + 1 # WordBits
    BY <1>2, MaxLenAssumption, PowersType
  <1> QED
    BY <1>2, <1>3, WordBitsType DEF Powers

\* The largest power with a property that 1 has, below the longest file.
LEMMA LargestPower ==
    ASSUME NEW P, P \subseteq Powers, 1 \in P, NEW n \in 0 .. MaxLen, \A p \in P : p <= n
    PROVE  \E p \in P : 2 * p \notin P
  <1>1. SUFFICES ASSUME \A p \in P : 2 * p \in P PROVE FALSE
    OBVIOUS
  <1> DEFINE N == {k \in 0 .. WordBits : pow2[k] \in P}
  <1>2. 0 \in N
    BY Pow2Steps, WordBitsType
  <1>3. ASSUME NEW k \in Nat, k < WordBits, k \in N PROVE k + 1 \in N
    <2>1. pow2[k + 1] = 2 * pow2[k] /\ pow2[k] \in P
      BY <1>3, Pow2Steps, WordBitsType
    <2> QED
      BY <1>1, <1>3, <2>1, WordBitsType
  <1>4. \A k \in N : pow2[k] \in P
    OBVIOUS
  <1> HIDE DEF N
  <1>5. WordBits \in N
    BY <1>2, <1>3, UpTo, WordBitsType
  <1>6. pow2[WordBits] <= n
    BY <1>4, <1>5
  <1> QED
    BY <1>6, MaxLenAssumption, Pow2Type, WordBitsType

LEMMA PowerBelowIs ==
    ASSUME NEW n \in 1 .. MaxLen
    PROVE  PowerBelow(n) \in Powers /\ PowerBelow(n) <= n /\ 2 * PowerBelow(n) > n
  <1> DEFINE P == {p \in Powers : p <= n}
  <1>1. PICK p \in P : 2 * p \notin P
    <2>1. P \subseteq Powers /\ 1 \in P /\ \A p \in P : p <= n
      BY PowersType
    <2> HIDE DEF P
    <2> QED
      BY <2>1, LargestPower, MaxLenAssumption
  <1>2. p \in Powers /\ p <= n /\ 2 * p > n
    BY <1>1, PowerTwice, PowersType, MaxLenAssumption
  <1> QED
    BY <1>2 DEF PowerBelow

LEMMA SubtreeLenIs ==
    ASSUME NEW len \in 1 .. MaxLen, NEW count \in Nat
    PROVE  /\ SubtreeLen(len, count) \in Powers
           /\ SubtreeLen(len, count) <= len
           /\ Multiple(count, SubtreeLen(len, count))
           /\ \A p \in Powers : p <= len /\ Multiple(count, p) => p <= SubtreeLen(len, count)
  <1> DEFINE P == {p \in Powers : p <= len /\ count % p = 0}
             Q(p) == p <= len /\ count % p = 0 /\ (2 * p > len \/ count % (2 * p) # 0)
  <1>1. PICK p \in P : 2 * p \notin P
    <2>1. P \subseteq Powers /\ 1 \in P /\ \A p \in P : p <= len
      BY PowersType
    <2> HIDE DEF P
    <2> QED
      BY <2>1, LargestPower, MaxLenAssumption
  <1>2. p \in Powers /\ Q(p)
    BY <1>1, PowerTwice, PowersType, MaxLenAssumption
  <1>3. SubtreeLen(len, count) = CHOOSE q \in Powers : Q(q)
    BY DEF SubtreeLen
  <1> DEFINE s == SubtreeLen(len, count)
  <1>4. s \in Powers /\ Q(s)
    <2> HIDE DEF Q
    <2> QED
      BY <1>2, <1>3
  <1> HIDE DEF s
  <1>5. Multiple(count, s)
    BY <1>4, MultipleMod, PowersType
  <1>6. ASSUME NEW q \in Powers, q <= len, Multiple(count, q), s < q PROVE FALSE
    <2>1. 2 * s <= q /\ Multiple(q, 2 * s)
      BY <1>4, <1>6, PowersApart
    <2>2. s \in Nat \ {0} /\ q \in Nat /\ 2 * s \in Nat \ {0}
      BY <1>4, PowersType
    <2>3. Multiple(count, 2 * s)
      BY <1>6, <2>1, <2>2, MultipleOfMultiple
    <2>4. count % (2 * s) = 0
      BY <2>2, <2>3, MultipleMod
    <2> QED
      BY <1>4, <1>6, <2>1, <2>2, <2>4
  <1>7. \A q \in Powers : q <= len /\ Multiple(count, q) => q <= s
    BY <1>4, <1>6, PowersType
  <1> QED
    BY <1>4, <1>5, <1>7 DEF s

-----------------------------------------------------------------------------
(* The number of ones of a binary number.                                  *)

LEMMA PopcntIs ==
    popcnt = [n \in 0 .. MaxLen |-> IF n = 0 THEN 0 ELSE (n % 2) + popcnt[n \div 2]]
  <1> DEFINE Upto(n) == \E g : \A k \in 0 .. n : g[k] = IF k = 0 THEN 0 ELSE (k % 2) + g[k \div 2]
             N == {n \in Nat : Upto(n)}
  <1>1. 0 \in N
    <2> DEFINE h == [j \in {0} |-> 0]
    <2>1. \A k \in 0 .. 0 : h[k] = IF k = 0 THEN 0 ELSE (k % 2) + h[k \div 2]
      OBVIOUS
    <2> HIDE DEF h
    <2> QED
      BY <2>1
  <1>2. ASSUME NEW n \in Nat, n \in N PROVE n + 1 \in N
    <2>1. PICK g : \A k \in 0 .. n : g[k] = IF k = 0 THEN 0 ELSE (k % 2) + g[k \div 2]
      BY <1>2
    <2> DEFINE h == [k \in 0 .. n + 1 |-> IF k = n + 1 THEN (k % 2) + g[k \div 2] ELSE g[k]]
    <2>2. ASSUME NEW k \in 0 .. n + 1 PROVE h[k] = IF k = 0 THEN 0 ELSE (k % 2) + h[k \div 2]
      <3>1. k # 0 => k \div 2 \in 0 .. n
        OBVIOUS
      <3>2. k # 0 => h[k \div 2] = g[k \div 2]
        BY <3>1
      <3> QED
        BY <2>1, <3>1, <3>2
    <2> HIDE DEF h
    <2> QED
      BY <2>2
  <1>3. Upto(MaxLen)
    <2> HIDE DEF Upto
    <2>1. \A n \in Nat : n < MaxLen /\ n \in N => n + 1 \in N
      BY <1>2
    <2> HIDE DEF N
    <2>2. \A n \in 0 .. MaxLen : n \in N
      BY <1>1, <2>1, UpTo, MaxLenAssumption
    <2>3. MaxLen \in N
      BY <2>2, MaxLenAssumption
    <2> QED
      BY <2>3 DEF N
  <1>4. PICK g : \A k \in 0 .. MaxLen : g[k] = IF k = 0 THEN 0 ELSE (k % 2) + g[k \div 2]
    BY <1>3
  <1> DEFINE h == [k \in 0 .. MaxLen |-> g[k]]
  <1>5. h = [n \in 0 .. MaxLen |-> IF n = 0 THEN 0 ELSE (n % 2) + h[n \div 2]]
    <2>1. \A k \in 0 .. MaxLen : k \div 2 \in 0 .. MaxLen
      BY MaxLenAssumption
    <2> QED
      BY <1>4, <2>1
  <1> HIDE DEF h
  <1> QED
    BY <1>5 DEF popcnt

LEMMA PopcntSteps ==
    /\ popcnt[0] = 0
    /\ \A n \in 0 .. MaxLen : popcnt[n] \in Nat
    /\ \A n \in Nat : 2 * n <= MaxLen => popcnt[2 * n] = popcnt[n]
    /\ \A n \in Nat : 2 * n + 1 <= MaxLen => popcnt[2 * n + 1] = popcnt[n] + 1
  <1>1. popcnt[0] = 0
    BY PopcntIs, MaxLenAssumption
  <1>2. \A n \in 1 .. MaxLen : popcnt[n] = (n % 2) + popcnt[n \div 2]
    BY PopcntIs, MaxLenAssumption
  <1>3. \A n \in 0 .. MaxLen : popcnt[n] \in Nat
    <2> DEFINE N == {n \in 0 .. MaxLen : popcnt[n] \notin Nat}
    <2>1. SUFFICES ASSUME N # {} PROVE FALSE
      OBVIOUS
    <2>2. N \in SUBSET Nat
      BY MaxLenAssumption
    <2>3. PICK n \in N : \A m \in N : n <= m
      <3> HIDE DEF N
      <3> QED
        BY <2>1, <2>2, LeastNumber
    <2>4. n \in 1 .. MaxLen
      BY <1>1, <2>3, MaxLenAssumption
    <2>5. n \div 2 \in 0 .. MaxLen /\ n \div 2 < n /\ n % 2 \in Nat
      BY <2>4, MaxLenAssumption
    <2>6. popcnt[n \div 2] \in Nat
      BY <2>3, <2>5
    <2> QED
      BY <1>2, <2>3, <2>4, <2>5, <2>6
  <1>4. ASSUME NEW n \in Nat, 2 * n <= MaxLen PROVE popcnt[2 * n] = popcnt[n]
    <2>1. CASE n = 0
      BY <2>1
    <2>2. CASE n # 0
      <3>1. 2 * n \in 1 .. MaxLen /\ (2 * n) % 2 = 0 /\ (2 * n) \div 2 = n
        BY <1>4, <2>2, MaxLenAssumption
      <3>2. popcnt[n] \in Nat
        BY <1>3, <1>4, MaxLenAssumption
      <3> QED
        BY <1>2, <3>1, <3>2
    <2> QED
      BY <2>1, <2>2
  <1>5. ASSUME NEW n \in Nat, 2 * n + 1 <= MaxLen PROVE popcnt[2 * n + 1] = popcnt[n] + 1
    <2>1. 2 * n + 1 \in 1 .. MaxLen /\ (2 * n + 1) % 2 = 1 /\ (2 * n + 1) \div 2 = n
      BY <1>5, MaxLenAssumption
    <2>2. popcnt[n] \in Nat
      BY <1>3, <1>5, MaxLenAssumption
    <2> QED
      BY <1>2, <2>1, <2>2
  <1> QED
    BY <1>1, <1>3, <1>4, <1>5

LEMMA PopcntNext ==
    ASSUME NEW x \in Nat, x + 1 <= MaxLen
    PROVE  popcnt[x + 1] <= popcnt[x] + 1
  <1> DEFINE N == {n \in Nat : n + 1 <= MaxLen /\ ~(popcnt[n + 1] <= popcnt[n] + 1)}
  <1>1. SUFFICES ASSUME N # {} PROVE FALSE
    OBVIOUS
  <1>2. N \in SUBSET Nat
    OBVIOUS
  <1>3. PICK n \in N : \A m \in N : n <= m
    <2> HIDE DEF N
    <2> QED
      BY <1>1, <1>2, LeastNumber
  <1>4. PICK y \in Nat : n = 2 * y \/ n = 2 * y + 1
    <2>1. n \in Nat /\ n = 2 * (n \div 2) + (n % 2) /\ n % 2 \in {0, 1} /\ n \div 2 \in Nat
      BY <1>3
    <2> QED
      BY <2>1
  <1>5. popcnt[n] \in Nat /\ popcnt[y] \in Nat /\ n + 1 <= MaxLen
    BY <1>3, <1>4, PopcntSteps, MaxLenAssumption
  <1>6. CASE n = 2 * y
    <2>1. popcnt[n + 1] = popcnt[y] + 1 /\ popcnt[n] = popcnt[y]
      BY <1>4, <1>5, <1>6, PopcntSteps, MaxLenAssumption
    <2> QED
      BY <1>3, <1>5, <2>1
  <1>7. CASE n = 2 * y + 1
    <2>1. n + 1 = 2 * (y + 1) /\ y + 1 \in Nat
      BY <1>7
    <2>2. popcnt[n + 1] = popcnt[y + 1] /\ popcnt[n] = popcnt[y] + 1
      BY <1>4, <1>5, <1>7, <2>1, PopcntSteps, MaxLenAssumption
    <2>3. y \notin N
      BY <1>3, <1>7
    <2>4. popcnt[y + 1] <= popcnt[y] + 1
      BY <1>5, <1>7, <2>3, MaxLenAssumption
    <2>5. popcnt[y + 1] \in Nat
      BY <1>5, <1>7, PopcntSteps, MaxLenAssumption
    <2> QED
      BY <1>3, <1>5, <2>2, <2>4, <2>5
  <1> QED
    BY <1>4, <1>6, <1>7

\* A subtree adds a one to the number of chunks, or none if it completes another.
LEMMA PopcntAdd ==
    ASSUME NEW p \in Powers, NEW x \in Nat, x + p <= MaxLen, Multiple(x, p)
    PROVE  /\ popcnt[x + p] <= popcnt[x] + 1
           /\ Multiple(x, 2 * p) => popcnt[x + p] = popcnt[x] + 1
  <1> DEFINE R(q, y) == /\ popcnt[y + q] <= popcnt[y] + 1
                        /\ Multiple(y, 2 * q) => popcnt[y + q] = popcnt[y] + 1
             G(q) == \A y \in Nat : y + q <= MaxLen /\ Multiple(y, q) => R(q, y)
             N == {n \in 0 .. WordBits - 1 : G(pow2[n])}
  <1>1. G(1)
    <2> SUFFICES ASSUME NEW y \in Nat, y + 1 <= MaxLen PROVE R(1, y)
      BY PowersType
    <2>1. popcnt[y + 1] <= popcnt[y] + 1
      BY PopcntNext
    <2>2. ASSUME Multiple(y, 2) PROVE popcnt[y + 1] = popcnt[y] + 1
      <3>1. PICK k \in Nat : y = 2 * k
        BY <2>2 DEF Multiple
      <3>2. 2 * k <= MaxLen /\ 2 * k + 1 <= MaxLen
        BY <3>1, MaxLenAssumption
      <3>3. popcnt[2 * k] = popcnt[k] /\ popcnt[2 * k + 1] = popcnt[k] + 1
        BY <3>2, PopcntSteps
      <3> QED
        BY <3>1, <3>3
    <2> QED
      BY <2>1, <2>2
  <1>2. ASSUME NEW q \in Nat \ {0}, G(q) PROVE G(2 * q)
    <2> SUFFICES ASSUME NEW y \in Nat, y + 2 * q <= MaxLen, Multiple(y, 2 * q) PROVE R(2 * q, y)
      OBVIOUS
    <2>1. PICK k \in Nat : y = (2 * q) * k
      BY DEF Multiple
    <2> DEFINE z == q * k
    <2>2. y = 2 * z /\ z \in Nat /\ y + 2 * q = 2 * (z + q)
      BY <2>1
    <2>3. Multiple(z, q)
      BY MultipleIs
    <2>4. Multiple(y, 2 * (2 * q)) => Multiple(z, 2 * q)
      <3> SUFFICES ASSUME NEW j \in Nat, y = (2 * (2 * q)) * j PROVE Multiple(z, 2 * q)
        BY DEF Multiple
      <3> HIDE DEF z
      <3>1. 2 * z = 2 * ((2 * q) * j) /\ (2 * q) * j \in Nat
        BY <2>2
      <3>2. z = (2 * q) * j /\ 2 * q \in Nat
        BY <2>2, <3>1
      <3> QED
        BY <3>2, MultipleIs
    <2> HIDE DEF z
    <2>5. R(q, z)
      BY <1>2, <2>2, <2>3, MaxLenAssumption
    <2>6. popcnt[y] = popcnt[z] /\ popcnt[y + 2 * q] = popcnt[z + q]
      BY <2>2, PopcntSteps, MaxLenAssumption
    <2> QED
      BY <2>4, <2>5, <2>6
  <1> HIDE DEF G
  <1>3. 0 \in N
    BY <1>1, Pow2Steps, WordBitsType
  <1>4. \A n \in Nat : n < WordBits - 1 /\ n \in N => n + 1 \in N
    BY <1>2, Pow2Steps, Pow2Type, WordBitsType
  <1>5. \A n \in N : G(pow2[n])
    OBVIOUS
  <1> HIDE DEF N
  <1>6. \A n \in 0 .. WordBits - 1 : n \in N
    BY <1>3, <1>4, UpTo, WordBitsType
  <1>7. G(p)
    BY <1>5, <1>6 DEF Powers
  <1> QED
    BY <1>7 DEF G

-----------------------------------------------------------------------------
(* The tree of a file.                                                     *)

LEMMA LengthsType ==
    /\ ChunkLen \in Nat \ {0} /\ ChunkLen \in Powers
    /\ BlockLen \in Nat \ {0}
  BY LengthsAssumption, PowersType

Left(len) == CHOOSE q \in {r \in Powers : r <= len} :
                 ChunkLen * q < len /\ 2 * (ChunkLen * q) >= len

\* The tree is cut at one place only.
LEMMA LeftIs ==
    ASSUME NEW len \in 0 .. MaxLen, len > ChunkLen
    PROVE  /\ Left(len) \in Powers
           /\ ChunkLen * Left(len) \in 1 .. len - 1 /\ 2 * (ChunkLen * Left(len)) >= len
           /\ \A q \in Powers : ChunkLen * q < len /\ 2 * (ChunkLen * q) >= len => q = Left(len)
           /\ LeftSubtreeLen(len) = ChunkLen * Left(len)
  <1> DEFINE n == (len - 1) \div ChunkLen
             p == PowerBelow(n)
             Cut(q) == ChunkLen * q < len /\ 2 * (ChunkLen * q) >= len
  <1>1. n \in 1 .. MaxLen /\ ChunkLen * n <= len - 1 /\ len - 1 < ChunkLen * n + ChunkLen
    <2>1. len - 1 \in Nat /\ len - 1 >= ChunkLen
      BY LengthsType
    <2>2. n \in Nat /\ len - 1 = ChunkLen * n + ((len - 1) % ChunkLen) /\ (len - 1) % ChunkLen \in 0 .. ChunkLen - 1
      BY <2>1, LengthsType
    <2> HIDE DEF n
    <2>3. n # 0
      BY <2>1, <2>2, LengthsType
    <2>4. n <= ChunkLen * n
      BY <2>2, LengthsType
    <2> QED
      BY <2>1, <2>2, <2>3, <2>4, LengthsType, MaxLenAssumption
  <1>2. p \in Powers /\ p <= n /\ n < 2 * p
    <2> HIDE DEF n
    <2> QED
      BY <1>1, PowerBelowIs
  <1>3. LeftSubtreeLen(len) = p * ChunkLen
    BY DEF LeftSubtreeLen
  <1> HIDE DEF n, p
  <1>4. Cut(p) /\ p <= len
    <2>1. p \in Nat \ {0}
      BY <1>2, PowersType
    <2>2. ChunkLen * p <= ChunkLen * n /\ ChunkLen * (n + 1) <= ChunkLen * (2 * p)
      BY <1>1, <1>2, <2>1, LengthsType
    <2>3. ChunkLen * (n + 1) = ChunkLen * n + ChunkLen /\ ChunkLen * (2 * p) = 2 * (ChunkLen * p)
      BY <1>1, <2>1, LengthsType
    <2>4. p <= ChunkLen * p /\ ChunkLen * p \in Nat
      BY <2>1, LengthsType
    <2> QED
      BY <1>1, <2>1, <2>2, <2>3, <2>4, LengthsType
  <1>5. ASSUME NEW q \in Powers, NEW r \in Powers, q < r, Cut(q), Cut(r) PROVE FALSE
    <2>1. 2 * q <= r /\ q \in Nat \ {0} /\ r \in Nat \ {0}
      BY <1>5, PowersApart, PowersType
    <2>2. ChunkLen * (2 * q) <= ChunkLen * r /\ ChunkLen * (2 * q) = 2 * (ChunkLen * q)
      BY <2>1, LengthsType
    <2>3. ChunkLen * q \in Nat /\ ChunkLen * r \in Nat
      BY <2>1, LengthsType
    <2> QED
      BY <1>5, <2>2, <2>3
  <1>6. \A q, r \in Powers : Cut(q) /\ Cut(r) => q = r
    <2>1. \A q, r \in Powers : q = r \/ q < r \/ r < q
      BY PowersType
    <2> HIDE DEF Cut
    <2> QED
      BY <1>5, <2>1
  <1>7. Left(len) = CHOOSE q \in {r \in Powers : r <= len} : Cut(q)
    BY DEF Left
  <1>8. Left(len) \in Powers /\ Cut(Left(len))
    <2> HIDE DEF Cut
    <2> QED
      BY <1>2, <1>4, <1>7
  <1>9. Left(len) = p
    BY <1>2, <1>4, <1>6, <1>8
  <1>10. p * ChunkLen = ChunkLen * p /\ ChunkLen * p \in Nat \ {0}
    BY <1>2, PowersType, LengthsType
  <1> QED
    BY <1>3, <1>4, <1>6, <1>8, <1>9, <1>10

LEMMA TreeIs ==
    Tree = [len \in 0 .. MaxLen |-> [from \in Nat |->
              IF len <= ChunkLen THEN ChunkNode(from, len)
              ELSE Parent(<<Tree[ChunkLen * Left(len)][from],
                            Tree[len - ChunkLen * Left(len)][from + ChunkLen * Left(len)]>>)]]
  <1> DEFINE Body(g, from, len) ==
                IF len <= ChunkLen THEN ChunkNode(from, len)
                ELSE Parent(<<g[ChunkLen * Left(len)][from],
                              g[len - ChunkLen * Left(len)][from + ChunkLen * Left(len)]>>)
             Upto(n) == \E g : \A from \in Nat, len \in 0 .. n : g[len][from] = Body(g, from, len)
             N == {n \in Nat : Upto(n)}
  <1>1. 0 \in N
    <2> DEFINE h == [len \in {0} |-> [from \in Nat |-> ChunkNode(from, len)]]
    <2>1. \A from \in Nat, len \in 0 .. 0 : h[len][from] = Body(h, from, len)
      BY LengthsType
    <2> HIDE DEF h, Body
    <2> QED
      BY <2>1
  <1>2. ASSUME NEW n \in Nat, n < MaxLen, n \in N PROVE n + 1 \in N
    <2>1. PICK g : \A from \in Nat, len \in 0 .. n : g[len][from] = Body(g, from, len)
      BY <1>2
    <2> DEFINE h == [len \in 0 .. n + 1 |-> [from \in Nat |->
                       IF len = n + 1 THEN Body(g, from, len) ELSE g[len][from]]]
    <2>2. ASSUME NEW from \in Nat, NEW len \in 0 .. n + 1 PROVE h[len][from] = Body(h, from, len)
      <3>1. h[len][from] = Body(g, from, len)
        <4> HIDE DEF Body
        <4> QED
          BY <2>1
      <3>2. Body(h, from, len) = Body(g, from, len)
        <4>1. CASE len <= ChunkLen
          BY <4>1
        <4>2. CASE ~(len <= ChunkLen)
          <5> DEFINE l == ChunkLen * Left(len)
          <5>1. l \in 1 .. len - 1
            BY <1>2, <4>2, LeftIs, LengthsType, MaxLenAssumption
          <5> HIDE DEF l
          <5>2. /\ l \in 0 .. n /\ len - l \in 0 .. n /\ from + l \in Nat
            BY <5>1
          <5>3. h[l][from] = g[l][from] /\ h[len - l][from + l] = g[len - l][from + l]
            BY <5>2
          <5> HIDE DEF h
          <5> QED
            BY <4>2, <5>3 DEF l
        <4> QED
          BY <4>1, <4>2
      <3> QED
        BY <3>1, <3>2
    <2> HIDE DEF h, Body
    <2> QED
      BY <2>2
  <1>3. Upto(MaxLen)
    <2> HIDE DEF Upto
    <2>1. \A n \in Nat : n < MaxLen /\ n \in N => n + 1 \in N
      BY <1>2
    <2> HIDE DEF N
    <2>2. MaxLen \in N
      BY <1>1, <2>1, UpTo, MaxLenAssumption
    <2> QED
      BY <2>2 DEF N
  <1>4. PICK g : \A from \in Nat, len \in 0 .. MaxLen : g[len][from] = Body(g, from, len)
    <2> HIDE DEF Body
    <2> QED
      BY <1>3
  <1> DEFINE h == [len \in 0 .. MaxLen |-> [from \in Nat |-> g[len][from]]]
  <1>5. ASSUME NEW from \in Nat, NEW len \in 0 .. MaxLen PROVE Body(h, from, len) = Body(g, from, len)
    <2>1. CASE len <= ChunkLen
      BY <2>1
    <2>2. CASE ~(len <= ChunkLen)
      <3> DEFINE l == ChunkLen * Left(len)
      <3>1. l \in 1 .. len - 1
        BY <2>2, LeftIs, LengthsType, MaxLenAssumption
      <3> HIDE DEF l
      <3>2. /\ l \in 0 .. MaxLen /\ len - l \in 0 .. MaxLen /\ from + l \in Nat
        BY <3>1, MaxLenAssumption
      <3>3. h[l][from] = g[l][from] /\ h[len - l][from + l] = g[len - l][from + l]
        BY <3>2
      <3> HIDE DEF h
      <3> QED
        BY <2>2, <3>3 DEF l
    <2> QED
      BY <2>1, <2>2
  <1>6. h = [len \in 0 .. MaxLen |-> [from \in Nat |-> Body(h, from, len)]]
    <2> HIDE DEF Body
    <2> QED
      BY <1>4, <1>5
  <1> HIDE DEF h
  <1>7. Tree = CHOOSE f : f = [len \in 0 .. MaxLen |-> [from \in Nat |-> Body(f, from, len)]]
    BY DEF Tree, Left
  <1> HIDE DEF Body
  <1>8. Tree = [len \in 0 .. MaxLen |-> [from \in Nat |-> Body(Tree, from, len)]]
    BY <1>6, <1>7
  <1> QED
    BY <1>8 DEF Body

-----------------------------------------------------------------------------
(* Runs of bytes.                                                          *)

LEMMA BytesType ==
    ASSUME NEW from \in Nat, NEW len \in Nat
    PROVE  /\ Bytes(from, len) \in [1 .. len -> Nat]
           /\ Bytes(from, len) \in Seq(Nat) /\ Len(Bytes(from, len)) = len
           /\ \A i \in 1 .. len : Bytes(from, len)[i] = from + i
  BY DEF Bytes

LEMMA BytesEmpty ==
    ASSUME NEW from \in Nat, NEW len \in Nat
    PROVE  Bytes(from, len) = <<>> <=> len = 0
  <1> DEFINE s == Bytes(from, len)
  <1>1. s \in Seq(Nat) /\ Len(s) = len
    BY BytesType
  <1> HIDE DEF s
  <1>2. s = <<>> <=> len = 0
    BY <1>1, EmptySeq
  <1> QED
    BY <1>2 DEF s

LEMMA SubBytes ==
    ASSUME NEW from \in Nat, NEW len \in Nat, NEW m \in 1 .. len + 1, NEW k \in m - 1 .. len
    PROVE  SubSeq(Bytes(from, len), m, k) = Bytes(from + (m - 1), k - (m - 1))
  <1> DEFINE s == Bytes(from, len)
             t == SubSeq(s, m, k)
             u == Bytes(from + (m - 1), k - (m - 1))
  <1>1. from + (m - 1) \in Nat /\ k - (m - 1) \in Nat
    OBVIOUS
  <1>2. u \in Seq(Nat) /\ Len(u) = k - (m - 1) /\ \A i \in 1 .. k - (m - 1) : u[i] = from + (m - 1) + i
    BY <1>1, BytesType
  <1>3. s \in Seq(Nat) /\ Len(s) = len /\ \A i \in 1 .. len : s[i] = from + i
    BY BytesType
  <1> HIDE DEF s, u
  <1>4. t \in Seq(Nat) /\ Len(t) = k - (m - 1) /\ \A i \in 1 .. k - (m - 1) : t[i] = s[m + i - 1]
    BY <1>3
  <1> HIDE DEF t
  <1>5. \A i \in 1 .. k - (m - 1) : t[i] = u[i]
    BY <1>2, <1>3, <1>4
  <1>6. t = u
    BY <1>2, <1>4, <1>5, SeqEqual
  <1> QED
    BY <1>6 DEF t, u, s

LEMMA ConcatBytes ==
    ASSUME NEW from \in Nat, NEW a \in Nat, NEW b \in Nat
    PROVE  Bytes(from, a) \o Bytes(from + a, b) = Bytes(from, a + b)
  <1> DEFINE s == Bytes(from, a)
             t == Bytes(from + a, b)
             u == Bytes(from, a + b)
  <1>1. s \in Seq(Nat) /\ Len(s) = a /\ \A i \in 1 .. a : s[i] = from + i
    BY BytesType
  <1>2. t \in Seq(Nat) /\ Len(t) = b /\ \A i \in 1 .. b : t[i] = from + a + i
    <2>1. from + a \in Nat
      OBVIOUS
    <2> QED
      BY <2>1, BytesType
  <1>3. u \in Seq(Nat) /\ Len(u) = a + b /\ \A i \in 1 .. a + b : u[i] = from + i
    BY BytesType
  <1> HIDE DEF s, t, u
  <1>4. /\ s \o t \in Seq(Nat) /\ Len(s \o t) = a + b
        /\ \A i \in 1 .. a + b : (s \o t)[i] = IF i <= a THEN s[i] ELSE t[i - a]
    BY <1>1, <1>2, ConcatProperties
  <1>5. ASSUME NEW i \in 1 .. a + b PROVE (s \o t)[i] = u[i]
    <2>1. CASE i <= a
      BY <1>1, <1>3, <1>4, <2>1
    <2>2. CASE i > a
      <3>1. i - a \in 1 .. b /\ ~(i <= a) /\ from + a + (i - a) = from + i
        BY <2>2
      <3>2. t[i - a] = from + i
        BY <1>2, <3>1
      <3> QED
        BY <1>3, <1>4, <3>1, <3>2
    <2>3. i <= a \/ i > a
      OBVIOUS
    <2> QED
      BY <2>1, <2>2, <2>3
  <1>6. s \o t = u
    BY <1>3, <1>4, <1>5, SeqEqual
  <1> QED
    BY <1>6 DEF s, t, u

-----------------------------------------------------------------------------
(* A chunk.                                                                *)

LEMMA BlocksOfIs ==
    ASSUME NEW n \in Nat
    PROVE  /\ BlocksOf(n) \in Nat
           /\ n = 0 => BlocksOf(n) = 0
           /\ n > 0 => BlocksOf(n) * BlockLen < n /\ n <= BlocksOf(n) * BlockLen + BlockLen
           /\ \A b \in Nat : b * BlockLen < n /\ n <= b * BlockLen + BlockLen => b = BlocksOf(n)
  <1>1. CASE n = 0
    <2>1. \A b \in Nat : b * BlockLen >= 0
      BY LengthsType
    <2> QED
      BY <1>1, <2>1, LengthsType DEF BlocksOf
  <1>2. CASE n > 0
    <2> DEFINE d == (n - 1) \div BlockLen
    <2>1. d \in Nat /\ n - 1 = BlockLen * d + ((n - 1) % BlockLen) /\ (n - 1) % BlockLen \in 0 .. BlockLen - 1
      BY <1>2, LengthsType
    <2>2. BlocksOf(n) = d
      BY <1>2 DEF BlocksOf
    <2> HIDE DEF d
    <2>3. d * BlockLen = BlockLen * d /\ d * BlockLen \in Nat
      BY <2>1, LengthsType
    <2>4. d * BlockLen < n /\ n <= d * BlockLen + BlockLen
      BY <1>2, <2>1, <2>3, LengthsType
    <2>5. ASSUME NEW b \in Nat, b * BlockLen < n, n <= b * BlockLen + BlockLen PROVE b = d
      <3>1. CASE b < d
        <4>1. (b + 1) * BlockLen <= d * BlockLen /\ (b + 1) * BlockLen = b * BlockLen + BlockLen
          BY <2>1, <3>1, LengthsType
        <4> QED
          BY <2>3, <2>4, <2>5, <4>1, LengthsType
      <3>2. CASE d < b
        <4>1. (d + 1) * BlockLen <= b * BlockLen /\ (d + 1) * BlockLen = d * BlockLen + BlockLen
          BY <2>1, <3>2, LengthsType
        <4> QED
          BY <2>3, <2>4, <2>5, <4>1, LengthsType
      <3> QED
        BY <2>1, <3>1, <3>2
    <2> QED
      BY <1>2, <2>1, <2>2, <2>4, <2>5
  <1> QED
    BY <1>1, <1>2

\* The compression of the i-th block of a chunk.
BlockOf(counter, i) ==
    [block |-> OfBytes(Bytes(counter * ChunkLen + (i - 1) * BlockLen, BlockLen)),
     counter |-> counter, flags |-> IF i = 1 THEN {"CHUNK_START"} ELSE {}]

\* A chunk state which has compressed b blocks and keeps m bytes.
AtBlock(counter, b, m) ==
    [cv |-> [i \in 1 .. b |-> BlockOf(counter, i)], counter |-> counter,
     buf |-> Bytes(counter * ChunkLen + b * BlockLen, m), blocks |-> b]

\* A chunk state that was given n bytes.
Holding(counter, n) == AtBlock(counter, BlocksOf(n), n - BlocksOf(n) * BlockLen)

\* A sequence with one more element.
LEMMA AppendIs ==
    ASSUME NEW S, NEW n \in Nat, NEW s \in [1 .. n -> S], NEW e \in S
    PROVE  Append(s, e) = [i \in 1 .. n + 1 |-> IF i = n + 1 THEN e ELSE s[i]]
  <1>1. s \in Seq(S) /\ Len(s) = n
    BY IsASeq, SeqDef
  <1> DEFINE t == [i \in 1 .. n + 1 |-> IF i = n + 1 THEN e ELSE s[i]]
  <1>2. t \in Seq(S) /\ Len(t) = n + 1 /\ \A i \in 1 .. n + 1 : t[i] = IF i = n + 1 THEN e ELSE s[i]
    OBVIOUS
  <1> HIDE DEF t
  <1>3. /\ Append(s, e) \in Seq(S) /\ Len(Append(s, e)) = n + 1
        /\ \A i \in 1 .. n + 1 : Append(s, e)[i] = IF i = n + 1 THEN e ELSE s[i]
    BY <1>1, AppendProperties
  <1>4. Append(s, e) = t
    BY <1>2, <1>3, SeqEqual
  <1> QED
    BY <1>4 DEF t

Compressions ==
    [block : [bytes : Seq(Nat), cvs : {<<>>}], counter : Nat,
     flags : SUBSET {"CHUNK_START", "CHUNK_END"}]

LEMMA BlockOfType ==
    ASSUME NEW counter \in Nat, NEW i \in Nat \ {0}
    PROVE  BlockOf(counter, i) \in Compressions
  <1>1. counter * ChunkLen + (i - 1) * BlockLen \in Nat
    BY LengthsType
  <1> QED
    BY <1>1, BytesType, LengthsType DEF BlockOf, OfBytes, Compressions

LEMMA CompressBlockIs ==
    ASSUME NEW counter \in Nat, NEW b \in Nat, NEW m \in Nat
    PROVE  CompressBlock(AtBlock(counter, b, m), Bytes(counter * ChunkLen + b * BlockLen, BlockLen))
             = AtBlock(counter, b + 1, 0)
  <1> DEFINE s == [i \in 1 .. b |-> BlockOf(counter, i)]
             e == BlockOf(counter, b + 1)
  <1>1. s \in [1 .. b -> Compressions] /\ e \in Compressions
    BY BlockOfType
  <1>2. Append(s, e) = [i \in 1 .. b + 1 |-> BlockOf(counter, i)]
    <2>1. Append(s, e) = [i \in 1 .. b + 1 |-> IF i = b + 1 THEN e ELSE s[i]]
      <3> HIDE DEF s, e
      <3> QED
        BY <1>1, AppendIs
    <2> QED
      BY <2>1
  <1>3. e = [block |-> OfBytes(Bytes(counter * ChunkLen + b * BlockLen, BlockLen)),
             counter |-> counter, flags |-> IF b = 0 THEN {"CHUNK_START"} ELSE {}]
    <2>1. (b + 1) - 1 = b /\ (b + 1 = 1 <=> b = 0)
      OBVIOUS
    <2> QED
      BY <2>1 DEF BlockOf
  <1> DEFINE u == Append(s, e)
             v == [i \in 1 .. b + 1 |-> BlockOf(counter, i)]
             from == counter * ChunkLen + (b + 1) * BlockLen
  <1>4. from \in Nat /\ Bytes(from, 0) = <<>>
    BY BytesEmpty, LengthsType
  <1>5. AtBlock(counter, b + 1, 0) = [cv |-> v, counter |-> counter, buf |-> <<>>, blocks |-> b + 1]
    BY <1>4 DEF AtBlock
  <1>6. CompressBlock(AtBlock(counter, b, m), Bytes(counter * ChunkLen + b * BlockLen, BlockLen))
          = [cv |-> u, counter |-> counter, buf |-> <<>>, blocks |-> b + 1]
    BY <1>3 DEF AtBlock, CompressBlock, Compress, StartFlag
  <1> QED
    BY <1>2, <1>5, <1>6

LEMMA CompressBlocksIs ==
    ASSUME NEW counter \in Nat, NEW b \in Nat, NEW len \in Nat, NEW n \in Nat, n * BlockLen <= len
    PROVE  CompressBlocks(AtBlock(counter, b, 0), Bytes(counter * ChunkLen + b * BlockLen, len), n)
             = AtBlock(counter, b + n, 0)
  <1> DEFINE s == AtBlock(counter, b, 0)
             from == counter * ChunkLen + b * BlockLen
             input == Bytes(from, len)
             after == [i \in 0 .. n |-> AtBlock(counter, b + i, 0)]
             Loop(g) == [i \in 0 .. n |-> IF i = 0 THEN s
                            ELSE CompressBlock(g[i - 1], Piece(input, BlockLen, i))]
  <1>1. from \in Nat
    BY LengthsType
  <1>2. ASSUME NEW i \in 1 .. n
        PROVE  Piece(input, BlockLen, i) = Bytes(counter * ChunkLen + (b + (i - 1)) * BlockLen, BlockLen)
    <2> DEFINE p == (i - 1) * BlockLen
    <2>1. i * BlockLen <= n * BlockLen /\ i * BlockLen = p + BlockLen /\ p \in Nat
      BY LengthsType
    <2>2. (b + (i - 1)) * BlockLen = b * BlockLen + p /\ b * BlockLen \in Nat /\ counter * ChunkLen \in Nat
      BY LengthsType
    <2>3. n * BlockLen \in Nat
      BY LengthsType
    <2> HIDE DEF p, from
    <2>4. p + 1 \in 1 .. len + 1 /\ p + BlockLen \in (p + 1) - 1 .. len
      BY <2>1, <2>3, LengthsType
    <2>5. SubSeq(Bytes(from, len), p + 1, p + BlockLen)
            = Bytes(from + ((p + 1) - 1), (p + BlockLen) - ((p + 1) - 1))
      BY <1>1, <2>4, SubBytes
    <2>6. from + ((p + 1) - 1) = counter * ChunkLen + (b + (i - 1)) * BlockLen
      BY <2>1, <2>2 DEF from
    <2>7. (p + BlockLen) - ((p + 1) - 1) = BlockLen
      BY <2>1, LengthsType
    <2>8. Piece(input, BlockLen, i) = SubSeq(input, p + 1, p + BlockLen)
      BY <2>1 DEF Piece, p
    <2> QED
      BY <2>5, <2>6, <2>7, <2>8
  <1> HIDE DEF input, from, s
  <1>3. ASSUME NEW g, g = after \/ g = Loop(g)
        PROVE  \A i \in 0 .. n : g[i] = AtBlock(counter, b + i, 0)
    <2>1. CASE g = after
      BY <2>1
    <2>2. CASE g = Loop(g)
      <3> DEFINE N == {i \in 0 .. n : g[i] = AtBlock(counter, b + i, 0)}
      <3>1. 0 \in N
        BY <2>2 DEF s
      <3>2. ASSUME NEW i \in Nat, i < n, i \in N PROVE i + 1 \in N
        <4>1. i + 1 \in 1 .. n /\ (i + 1) - 1 = i
          BY <3>2
        <4>2. g[i + 1] = CompressBlock(g[i], Piece(input, BlockLen, i + 1))
          BY <2>2, <4>1
        <4>3. Piece(input, BlockLen, i + 1) = Bytes(counter * ChunkLen + (b + i) * BlockLen, BlockLen)
          BY <1>2, <4>1
        <4>4. CompressBlock(AtBlock(counter, b + i, 0), Bytes(counter * ChunkLen + (b + i) * BlockLen, BlockLen))
                = AtBlock(counter, (b + i) + 1, 0)
          BY CompressBlockIs
        <4>5. (b + i) + 1 = b + (i + 1)
          OBVIOUS
        <4> QED
          BY <3>2, <4>1, <4>2, <4>3, <4>4, <4>5
      <3>3. \A i \in N : g[i] = AtBlock(counter, b + i, 0)
        OBVIOUS
      <3> HIDE DEF N
      <3>4. \A i \in 0 .. n : i \in N
        BY <3>1, <3>2, UpTo
      <3> QED
        BY <3>3, <3>4
    <2> QED
      BY <1>3, <2>1, <2>2
  <1>4. after = Loop(after)
    <2>1. ASSUME NEW i \in 0 .. n PROVE after[i] = Loop(after)[i]
      <3>1. CASE i = 0
        BY <3>1 DEF s
      <3>2. CASE i # 0
        <4>1. i \in 1 .. n /\ i - 1 \in 0 .. n /\ b + (i - 1) \in Nat /\ (b + (i - 1)) + 1 = b + i
          BY <3>2
        <4>2. CompressBlock(AtBlock(counter, b + (i - 1), 0), Bytes(counter * ChunkLen + (b + (i - 1)) * BlockLen, BlockLen))
                = AtBlock(counter, (b + (i - 1)) + 1, 0)
          BY <4>1, CompressBlockIs
        <4> QED
          BY <1>2, <3>2, <4>1, <4>2
      <3> QED
        BY <3>1, <3>2
    <2> QED
      BY <2>1
  <1> DEFINE f == CHOOSE g : g = Loop(g)
  <1>5. f = Loop(f)
    <2> HIDE DEF Loop, after
    <2> QED
      BY <1>4
  <1>6. f[n] = AtBlock(counter, b + n, 0)
    <2> HIDE DEF Loop, after, f
    <2> QED
      BY <1>3, <1>5
  <1>7. CompressBlocks(s, input, n) = f[n]
    BY DEF CompressBlocks
  <1> QED
    BY <1>6, <1>7 DEF s, input, from

LEMMA CompressNone ==
    ASSUME NEW s, NEW input
    PROVE  CompressBlocks(s, input, 0) = s
  <1> DEFINE Loop(g) == [i \in 0 .. 0 |-> IF i = 0 THEN s
                            ELSE CompressBlock(g[i - 1], Piece(input, BlockLen, i))]
             h == [i \in 0 .. 0 |-> s]
             f == CHOOSE g : g = Loop(g)
  <1>1. h = Loop(h)
    OBVIOUS
  <1>2. f = Loop(f)
    <2> HIDE DEF Loop, h
    <2> QED
      BY <1>1
  <1>3. f[0] = s
    <2> HIDE DEF f
    <2> QED
      BY <1>2
  <1>4. CompressBlocks(s, input, 0) = f[0]
    BY DEF CompressBlocks
  <1> QED
    BY <1>3, <1>4

LEMMA AtBlockFields ==
    ASSUME NEW counter \in Nat, NEW b \in Nat, NEW m \in Nat
    PROVE  /\ AtBlock(counter, b, m).counter = counter
           /\ AtBlock(counter, b, m).blocks = b
           /\ AtBlock(counter, b, m).buf = Bytes(counter * ChunkLen + b * BlockLen, m)
           /\ counter * ChunkLen + b * BlockLen \in Nat
  <1>1. counter * ChunkLen + b * BlockLen \in Nat
    BY LengthsType
  <1> QED
    BY <1>1 DEF AtBlock

LEMMA AtBlockLen ==
    ASSUME NEW counter \in Nat, NEW b \in Nat, NEW m \in Nat
    PROVE  /\ Len(AtBlock(counter, b, m).buf) = m
           /\ AtBlock(counter, b, m).buf = <<>> <=> m = 0
  <1> DEFINE from == counter * ChunkLen + b * BlockLen
             buf == AtBlock(counter, b, m).buf
  <1>1. from \in Nat
    BY LengthsType
  <1>2. buf = Bytes(from, m)
    BY DEF AtBlock
  <1> HIDE DEF from, buf
  <1>3. Len(Bytes(from, m)) = m
    BY <1>1, BytesType
  <1>4. Bytes(from, m) = <<>> <=> m = 0
    BY <1>1, BytesEmpty
  <1>5. Len(buf) = m /\ (buf = <<>> <=> m = 0)
    BY <1>2, <1>3, <1>4
  <1> QED
    BY <1>5 DEF buf

LEMMA FillBufIs ==
    ASSUME NEW counter \in Nat, NEW b \in Nat, NEW m \in Nat, NEW k \in Nat
    PROVE  FillBuf(AtBlock(counter, b, m), Bytes(counter * ChunkLen + b * BlockLen + m, k))
             = AtBlock(counter, b, m + k)
  <1> DEFINE from == counter * ChunkLen + b * BlockLen
  <1>1. from \in Nat
    BY LengthsType
  <1>2. Bytes(from, m) \o Bytes(from + m, k) = Bytes(from, m + k)
    <2> HIDE DEF from
    <2> QED
      BY <1>1, ConcatBytes
  <1> QED
    BY <1>2 DEF FillBuf, AtBlock

\* What chunk_state_update does once a begun block is complete.
ChunkRest(opened, rest) ==
    LET n == BlocksOf(Len(rest))
        whole == CompressBlocks(opened, rest, n)
        last == SubSeq(rest, n * BlockLen + 1, Len(rest))
    IN FillBuf(whole, SubSeq(last, 1, Take(whole, Len(last))))

LEMMA HoldingIs ==
    ASSUME NEW counter \in Nat, NEW b \in Nat, NEW m \in Nat, m <= BlockLen, m > 0 \/ b = 0
    PROVE  AtBlock(counter, b, m) = Holding(counter, b * BlockLen + m)
  <1> DEFINE n == b * BlockLen + m
  <1>1. n \in Nat /\ b * BlockLen \in Nat /\ 0 * BlockLen = 0
    BY LengthsType
  <1>2. BlocksOf(n) = b
    <2>1. CASE m > 0
      <3>1. b * BlockLen < n /\ n <= b * BlockLen + BlockLen
        BY <1>1, <2>1, LengthsType
      <3> HIDE DEF n
      <3> QED
        BY <1>1, <3>1, BlocksOfIs
    <2>2. CASE m = 0
      <3>1. b = 0 /\ n = 0
        BY <1>1, <2>2
      <3> QED
        BY <3>1, BlocksOfIs
    <2> QED
      BY <2>1, <2>2
  <1>3. n - b * BlockLen = m
    BY <1>1
  <1> QED
    BY <1>2, <1>3 DEF Holding

LEMMA ChunkRestIs ==
    ASSUME NEW counter \in Nat, NEW b \in Nat, NEW m \in Nat, m > 0 \/ b = 0
    PROVE  ChunkRest(AtBlock(counter, b, 0), Bytes(counter * ChunkLen + b * BlockLen, m))
             = Holding(counter, b * BlockLen + m)
  <1> DEFINE from == counter * ChunkLen + b * BlockLen
             rest == Bytes(from, m)
             n == BlocksOf(m)
             k == m - n * BlockLen
             last == Bytes(from + n * BlockLen, k)
             whole == AtBlock(counter, b + n, 0)
  <1>1. from \in Nat /\ Len(rest) = m /\ n \in Nat /\ n * BlockLen \in Nat /\ b * BlockLen \in Nat
    <2>1. from \in Nat /\ b * BlockLen \in Nat
      BY LengthsType
    <2>2. n \in Nat
      BY BlocksOfIs
    <2> HIDE DEF from, n
    <2>3. n * BlockLen \in Nat
      BY <2>2, LengthsType
    <2> QED
      BY <2>1, <2>2, <2>3, BytesType
  <1>2. n * BlockLen <= m /\ k \in 0 .. BlockLen /\ (m > 0 => k > 0) /\ (m = 0 => n = 0)
    <2>1. m = 0 => n = 0 /\ n * BlockLen = 0
      BY BlocksOfIs, LengthsType
    <2>2. m > 0 => n * BlockLen < m /\ m <= n * BlockLen + BlockLen
      BY BlocksOfIs
    <2> HIDE DEF n
    <2> QED
      BY <1>1, <2>1, <2>2, LengthsType
  <1>3. CompressBlocks(AtBlock(counter, b, 0), rest, n) = whole
    <2> HIDE DEF n
    <2> QED
      BY <1>1, <1>2, CompressBlocksIs
  <1>4. SubSeq(rest, n * BlockLen + 1, m) = last
    <2> DEFINE p == n * BlockLen
    <2>1. p + 1 \in 1 .. m + 1 /\ m \in (p + 1) - 1 .. m /\ from + ((p + 1) - 1) = from + p /\ m - ((p + 1) - 1) = m - p
      BY <1>1, <1>2
    <2> HIDE DEF p, from
    <2>2. SubSeq(Bytes(from, m), p + 1, m) = Bytes(from + ((p + 1) - 1), m - ((p + 1) - 1))
      BY <1>1, <2>1, SubBytes
    <2>3. SubSeq(Bytes(from, m), p + 1, m) = Bytes(from + p, m - p)
      BY <2>1, <2>2
    <2> QED
      BY <2>3 DEF p
  <1>5. from + n * BlockLen \in Nat /\ from + n * BlockLen = counter * ChunkLen + (b + n) * BlockLen + 0
    <2>1. (b + n) * BlockLen = b * BlockLen + n * BlockLen /\ counter * ChunkLen \in Nat
      BY <1>1, LengthsType
    <2> QED
      BY <1>1, <2>1
  <1>6. Len(last) = k /\ SubSeq(last, 1, k) = last /\ Take(whole, k) = k
    <2>1. last \in Seq(Nat) /\ Len(last) = k
      <3> HIDE DEF k, n, from
      <3> QED
        BY <1>2, <1>5, BytesType
    <2>2. Len(whole.buf) = 0
      <3>1. b + n \in Nat
        BY <1>1
      <3> HIDE DEF n
      <3>2. Len(AtBlock(counter, b + n, 0).buf) = 0
        BY <3>1, AtBlockLen
      <3> QED
        BY <3>2
    <2> HIDE DEF last, whole, k
    <2>3. SubSeq(last, 1, Len(last)) = last
      BY <2>1, SubSeqFull
    <2>4. Take(whole, k) = k
      BY <1>2, <2>2, LengthsType DEF Take
    <2> QED
      BY <2>1, <2>3, <2>4
  <1>7. ChunkRest(AtBlock(counter, b, 0), rest) = FillBuf(whole, last)
    <2> HIDE DEF whole, last, k, n, rest
    <2>1. BlocksOf(Len(rest)) = n
      BY <1>1 DEF n
    <2> QED
      BY <1>1, <1>3, <1>4, <1>6, <2>1 DEF ChunkRest
  <1>8. FillBuf(whole, last) = AtBlock(counter, b + n, k)
    <2>1. b + n \in Nat /\ k \in Nat /\ 0 + k = k /\ last = Bytes(counter * ChunkLen + (b + n) * BlockLen + 0, k)
      BY <1>1, <1>2, <1>5
    <2> HIDE DEF k, n, last
    <2>2. FillBuf(AtBlock(counter, b + n, 0), Bytes(counter * ChunkLen + (b + n) * BlockLen + 0, k)) = AtBlock(counter, b + n, 0 + k)
      BY <2>1, FillBufIs
    <2> QED
      BY <2>1, <2>2
  <1>9. (b + n) * BlockLen + k = b * BlockLen + m
    <2>1. (b + n) * BlockLen = b * BlockLen + n * BlockLen
      BY <1>1, LengthsType
    <2> QED
      BY <1>1, <2>1
  <1>10. AtBlock(counter, b + n, k) = Holding(counter, (b + n) * BlockLen + k)
    <2>1. k > 0 \/ b + n = 0
      BY <1>1, <1>2
    <2> HIDE DEF k, n
    <2> QED
      BY <1>1, <1>2, <2>1, HoldingIs
  <1> QED
    BY <1>7, <1>8, <1>9, <1>10

\* A chunk that was given n bytes and then m more was given n + m.
LEMMA ChunkUpdateIs ==
    ASSUME NEW counter \in Nat, NEW n \in Nat, NEW m \in Nat
    PROVE  ChunkUpdate(Holding(counter, n), Bytes(counter * ChunkLen + n, m)) = Holding(counter, n + m)
  <1> DEFINE b == BlocksOf(n)
             k == n - b * BlockLen
             from == counter * ChunkLen
             s == AtBlock(counter, b, k)
             input == Bytes(from + n, m)
             take == IF k = 0 THEN 0 ELSE IF m < BlockLen - k THEN m ELSE BlockLen - k
             filled == AtBlock(counter, b, k + take)
             rest == Bytes(from + n + take, m - take)
             opened == IF k # 0 /\ take < m THEN AtBlock(counter, b + 1, 0) ELSE filled
  <1>1. /\ b \in Nat /\ b * BlockLen \in Nat /\ from \in Nat
        /\ k \in 0 .. BlockLen /\ (n = 0 => b = 0) /\ (n > 0 => k > 0) /\ n = b * BlockLen + k
    <2>1. b \in Nat
      BY BlocksOfIs
    <2>2. n = 0 => b = 0 /\ b * BlockLen = 0
      BY BlocksOfIs, LengthsType
    <2>3. n > 0 => b * BlockLen < n /\ n <= b * BlockLen + BlockLen
      BY BlocksOfIs
    <2> HIDE DEF b
    <2>4. b * BlockLen \in Nat /\ from \in Nat
      BY <2>1, LengthsType
    <2> QED
      BY <2>1, <2>2, <2>3, <2>4, LengthsType
  <1>2. Holding(counter, n) = s
    BY DEF Holding
  <1> HIDE DEF b, k, from
  <1>3. /\ s.buf = <<>> <=> k = 0
        /\ Len(s.buf) = k
        /\ from + b * BlockLen + k = from + n
    <2>1. from + b * BlockLen + k = from + n /\ k \in Nat
      BY <1>1
    <2>2. b \in Nat /\ k \in Nat
      BY <1>1, <2>1
    <2>3. (AtBlock(counter, b, k).buf = <<>> <=> k = 0) /\ Len(AtBlock(counter, b, k).buf) = k
      BY <2>2, AtBlockLen
    <2> QED
      BY <2>1, <2>3
  <1>4. take \in 0 .. m /\ k + take \in 0 .. BlockLen /\ m - take \in Nat /\ from + n + take \in Nat
    BY <1>1, LengthsType
  <1>5. Len(input) = m /\ SubSeq(input, 1, take) = Bytes(from + n, take) /\ SubSeq(input, take + 1, m) = rest
    <2>1. from + n \in Nat
      BY <1>1
    <2>2. 1 \in 1 .. m + 1 /\ take \in 1 - 1 .. m /\ take + 1 \in 1 .. m + 1 /\ m \in (take + 1) - 1 .. m
      BY <1>4
    <2> HIDE DEF take
    <2>3. SubSeq(Bytes(from + n, m), 1, take) = Bytes(from + n + (1 - 1), take - (1 - 1))
      BY <2>1, <2>2, SubBytes
    <2>4. SubSeq(Bytes(from + n, m), take + 1, m) = Bytes(from + n + ((take + 1) - 1), m - ((take + 1) - 1))
      BY <2>1, <2>2, SubBytes
    <2>5. /\ from + n + (1 - 1) = from + n /\ take - (1 - 1) = take
          /\ from + n + ((take + 1) - 1) = from + n + take /\ m - ((take + 1) - 1) = m - take
      BY <1>4, <2>1
    <2>6. Len(Bytes(from + n, m)) = m
      BY <2>1, BytesType
    <2> QED
      BY <2>3, <2>4, <2>5, <2>6
  <1>6. (IF s.buf = <<>> THEN 0 ELSE Take(s, Len(input))) = take
    <2> HIDE DEF s, input
    <2> QED
      BY <1>1, <1>3, <1>5 DEF Take
  <1>7. FillBuf(s, Bytes(from + n, take)) = filled
    <2>1. take \in Nat /\ k \in Nat
      BY <1>1, <1>4
    <2> HIDE DEF take
    <2>2. FillBuf(s, Bytes(from + b * BlockLen + k, take)) = filled
      BY <1>1, <2>1, FillBufIs DEF from
    <2> QED
      BY <1>3, <2>2
  <1>8. (rest = <<>> <=> take = m) /\ Len(rest) = m - take
    <2> HIDE DEF take
    <2>1. rest = <<>> <=> m - take = 0
      BY <1>4, BytesEmpty
    <2>2. Len(rest) = m - take
      BY <1>4, BytesType
    <2> QED
      BY <1>4, <2>1, <2>2
  <1>9. (IF s.buf # <<>> /\ rest # <<>> THEN CompressBlock(filled, filled.buf) ELSE filled) = opened
    <2>1. CASE k # 0 /\ take < m
      <3>1. k + take = BlockLen
        BY <1>1, <1>4, <2>1, LengthsType
      <3>2. k + take \in Nat
        BY <1>4
      <3> HIDE DEF take
      <3>3. filled.buf = Bytes(from + b * BlockLen, BlockLen)
        <4>1. AtBlock(counter, b, k + take).buf = Bytes(counter * ChunkLen + b * BlockLen, k + take)
          BY DEF AtBlock
        <4> QED
          BY <3>1, <4>1 DEF from
      <3>4. CompressBlock(AtBlock(counter, b, k + take), Bytes(from + b * BlockLen, BlockLen)) = AtBlock(counter, b + 1, 0)
        BY <1>1, <3>2, CompressBlockIs DEF from
      <3> HIDE DEF s, rest
      <3> QED
        BY <1>3, <1>8, <2>1, <3>3, <3>4
    <2>2. CASE k = 0 \/ take = m
      <3> HIDE DEF take, s, rest, filled
      <3> QED
        BY <1>3, <1>8, <2>2
    <2> QED
      BY <1>4, <2>1, <2>2
  <1>10. ChunkUpdate(s, input) = ChunkRest(opened, rest)
    <2> HIDE DEF s, input, take, filled, rest, opened
    <2> QED
      BY <1>5, <1>6, <1>7, <1>9 DEF ChunkUpdate, ChunkRest
  <1>11. CASE k # 0 /\ take < m
    <2>1. k + take = BlockLen /\ opened = AtBlock(counter, b + 1, 0) /\ m - take > 0
      BY <1>1, <1>4, <1>11, LengthsType
    <2>2. (b + 1) * BlockLen = b * BlockLen + BlockLen /\ b + 1 \in Nat
      BY <1>1, LengthsType
    <2>3. from + n + take = from + (b + 1) * BlockLen /\ (b + 1) * BlockLen + (m - take) = n + m
      BY <1>1, <1>4, <2>1, <2>2, LengthsType
    <2> HIDE DEF take
    <2>4. ChunkRest(AtBlock(counter, b + 1, 0), Bytes(from + (b + 1) * BlockLen, m - take))
            = Holding(counter, (b + 1) * BlockLen + (m - take))
      BY <1>4, <2>1, <2>2, ChunkRestIs DEF from
    <2> QED
      BY <1>2, <1>10, <2>1, <2>3, <2>4 DEF from
  <1>12. CASE k = 0
    <2>1. n = 0 /\ b = 0 /\ take = 0 /\ opened = AtBlock(counter, 0, 0)
      BY <1>1, <1>12
    <2>2. 0 * BlockLen = 0 /\ from + n + take = from + 0 * BlockLen /\ m - take = m /\ 0 * BlockLen + m = n + m
      BY <1>1, <2>1, LengthsType
    <2>3. ChunkRest(AtBlock(counter, 0, 0), Bytes(from + 0 * BlockLen, m)) = Holding(counter, 0 * BlockLen + m)
      BY ChunkRestIs DEF from
    <2> HIDE DEF take, opened
    <2> QED
      BY <1>2, <1>10, <2>1, <2>2, <2>3 DEF from
  <1>13. CASE k # 0 /\ take = m
    <2>1. opened = filled /\ k + m \in 0 .. BlockLen /\ k + m > 0 /\ k + m \in Nat
      BY <1>1, <1>4, <1>13
    <2>2. rest = <<>>
      BY <1>8, <1>13
    <2>3. ChunkRest(filled, <<>>) = filled
      <3> DEFINE t == AtBlock(counter, b, k + m)
      <3>1. BlocksOf(0) = 0 /\ 0 * BlockLen + 1 = 1
        BY LengthsType DEF BlocksOf
      <3>2. CompressBlocks(t, <<>>, 0) = t
        BY CompressNone
      <3>3. Len(t.buf) = k + m
        <4>1. b \in Nat /\ k + m \in Nat
          BY <1>1, <2>1
        <4>2. Len(AtBlock(counter, b, k + m).buf) = k + m
          BY <4>1, AtBlockLen
        <4> QED
          BY <4>2
      <3>4. SubSeq(<<>>, 1, 0) = <<>> /\ Len(<<>>) = 0
        OBVIOUS
      <3>5. Take(t, 0) = 0
        <4> HIDE DEF t
        <4> QED
          BY <2>1, <3>3, LengthsType DEF Take
      <3>6. ChunkRest(t, <<>>) = FillBuf(t, <<>>)
        <4> HIDE DEF t
        <4> QED
          BY <3>1, <3>2, <3>4, <3>5 DEF ChunkRest
      <3>7. FillBuf(t, <<>>) = t
        <4> DEFINE f == counter * ChunkLen + b * BlockLen
        <4>1. f \in Nat /\ f + (k + m) \in Nat /\ (k + m) + 0 = k + m
          BY <1>1, <2>1, LengthsType
        <4>2. Bytes(f + (k + m), 0) = <<>>
          <5> HIDE DEF f
          <5> QED
            BY <4>1, BytesEmpty
        <4>3. FillBuf(t, Bytes(f + (k + m), 0)) = AtBlock(counter, b, (k + m) + 0)
          BY <1>1, <2>1, FillBufIs
        <4> QED
          BY <4>1, <4>2, <4>3
      <3> QED
        BY <1>13, <3>6, <3>7
    <2>4. AtBlock(counter, b, k + m) = Holding(counter, b * BlockLen + (k + m))
      BY <1>1, <2>1, HoldingIs
    <2>5. b * BlockLen + (k + m) = n + m
      BY <1>1
    <2> HIDE DEF take, opened, rest
    <2> QED
      BY <1>2, <1>10, <1>13, <2>1, <2>2, <2>3, <2>4, <2>5 DEF from
  <1>14. k # 0 => take < m \/ take = m
    BY <1>4
  <1> QED
    BY <1>11, <1>12, <1>13, <1>14

LEMMA ChunkOutputIs ==
    ASSUME NEW counter \in Nat, NEW n \in Nat
    PROVE  ChunkOutput(Holding(counter, n)) = ChunkNode(counter * ChunkLen, n)
  <1> DEFINE b == BlocksOf(n)
             m == n - b * BlockLen
             from == counter * ChunkLen
             s == [i \in 1 .. b |-> BlockOf(counter, i)]
             e == [block |-> OfBytes(Bytes(from + b * BlockLen, m)), counter |-> counter,
                   flags |-> (IF b = 0 THEN {"CHUNK_START"} ELSE {}) \cup {"CHUNK_END"}]
             Size(i) == IF i < b + 1 THEN BlockLen ELSE n - b * BlockLen
             Flags(i) == (IF i = 1 THEN {"CHUNK_START"} ELSE {})
                             \cup (IF i = b + 1 THEN {"CHUNK_END"} ELSE {})
             node == [i \in 1 .. b + 1 |->
                        [block |-> OfBytes(Bytes(from + (i - 1) * BlockLen, Size(i))),
                         counter |-> counter, flags |-> Flags(i)]]
  <1>1. b \in Nat /\ b * BlockLen \in Nat /\ m \in Nat /\ from \in Nat /\ from \div ChunkLen = counter
    <2>1. b \in Nat /\ b * BlockLen <= n
      <3>1. b \in Nat /\ (n = 0 => b = 0) /\ (n > 0 => b * BlockLen < n)
        BY BlocksOfIs
      <3> HIDE DEF b
      <3>2. 0 * BlockLen = 0 /\ b * BlockLen \in Nat
        BY <3>1, LengthsType
      <3> QED
        BY <3>1, <3>2
    <2>2. from \in Nat /\ from \div ChunkLen = counter
      BY LengthsType
    <2> HIDE DEF b, from
    <2> QED
      BY <2>1, <2>2, LengthsType
  <1>2. b = IF n = 0 THEN 0 ELSE (n - 1) \div BlockLen
    BY DEF BlocksOf
  <1>3. ChunkNode(from, n) = node
    <2>1. (IF n = 0 THEN 1 ELSE (n - 1) \div BlockLen + 1) = b + 1
      BY <1>2
    <2>2. (b + 1) - 1 = b
      BY <1>1
    <2> HIDE DEF b, from
    <2> QED
      BY <1>1, <2>1, <2>2 DEF ChunkNode
  <1>4. ChunkOutput(Holding(counter, n)) = Append(s, e)
    BY DEF ChunkOutput, Holding, AtBlock, Compress, StartFlag
  <1>5. s \in [1 .. b -> Compressions] /\ e \in Compressions
    <2>1. \A i \in 1 .. b : BlockOf(counter, i) \in Compressions
      BY BlockOfType
    <2>2. from + b * BlockLen \in Nat
      BY <1>1
    <2> HIDE DEF b, from, m
    <2>3. Bytes(from + b * BlockLen, m) \in Seq(Nat)
      BY <1>1, <2>2, BytesType
    <2> QED
      BY <2>1, <2>3 DEF OfBytes, Compressions
  <1>6. Append(s, e) = [i \in 1 .. b + 1 |-> IF i = b + 1 THEN e ELSE s[i]]
    <2> HIDE DEF s, e, b
    <2> QED
      BY <1>1, <1>5, AppendIs
  <1>7. ASSUME NEW i \in 1 .. b + 1 PROVE (IF i = b + 1 THEN e ELSE s[i]) = node[i]
    <2>1. CASE i = b + 1
      <3>1. i - 1 = b /\ Size(i) = m /\ (i = 1 <=> b = 0)
        BY <1>1, <2>1
      <3> HIDE DEF b
      <3> QED
        BY <2>1, <3>1
    <2>2. CASE i # b + 1
      <3>1. i \in 1 .. b /\ Size(i) = BlockLen /\ Flags(i) = IF i = 1 THEN {"CHUNK_START"} ELSE {}
        BY <1>1, <2>2
      <3> HIDE DEF b
      <3> QED
        BY <2>2, <3>1 DEF BlockOf
    <2> QED
      BY <2>1, <2>2
  <1>8. [i \in 1 .. b + 1 |-> IF i = b + 1 THEN e ELSE s[i]] = node
    <2>1. DOMAIN node = 1 .. b + 1
      OBVIOUS
    <2> HIDE DEF b, e, s
    <2> QED
      BY <1>7
  <1> QED
    BY <1>3, <1>4, <1>6, <1>8 DEF from

LEMMA ChunkStateIs ==
    ASSUME NEW counter \in Nat
    PROVE  ChunkState(counter) = Holding(counter, 0)
  <1>1. BlocksOf(0) = 0 /\ 0 * BlockLen = 0 /\ counter * ChunkLen \in Nat
    BY BlocksOfIs, LengthsType
  <1>2. Bytes(counter * ChunkLen + 0, 0) = <<>>
    BY <1>1, BytesEmpty
  <1>3. [i \in 1 .. 0 |-> BlockOf(counter, i)] = <<>>
    OBVIOUS
  <1> QED
    BY <1>1, <1>2, <1>3 DEF ChunkState, Holding, AtBlock, Key

LEMMA HoldingLen ==
    ASSUME NEW counter \in Nat, NEW n \in Nat
    PROVE  /\ ChunkStateLen(Holding(counter, n)) = n
           /\ Holding(counter, n).counter = counter
           /\ Holding(counter, n).blocks \in Nat
           /\ Len(Holding(counter, n).buf) <= BlockLen
  <1> DEFINE b == BlocksOf(n)
             m == n - b * BlockLen
             s == AtBlock(counter, b, m)
  <1>1. b \in Nat /\ m \in 0 .. BlockLen /\ n = BlockLen * b + m
    <2>1. b \in Nat /\ (n = 0 => b = 0) /\ (n > 0 => b * BlockLen < n /\ n <= b * BlockLen + BlockLen)
      BY BlocksOfIs
    <2> HIDE DEF b
    <2>2. 0 * BlockLen = 0 /\ b * BlockLen \in Nat /\ b * BlockLen = BlockLen * b
      BY <2>1, LengthsType
    <2> QED
      BY <2>1, <2>2, LengthsType
  <1>2. Holding(counter, n) = s
    BY DEF Holding
  <1> HIDE DEF b, m
  <1>3. Len(s.buf) = m
    <2>1. m \in Nat
      BY <1>1
    <2> QED
      BY <1>1, <2>1, AtBlockLen
  <1>4. s.blocks = b /\ s.counter = counter
    BY DEF AtBlock
  <1> HIDE DEF s
  <1> QED
    BY <1>1, <1>2, <1>3, <1>4, LengthsType DEF ChunkStateLen

-----------------------------------------------------------------------------
(* Many chunks or parents at a time.                                       *)

\* hash_one: one compression per block.
HashNodes(blocks, n, counter, flags, start, end) ==
    [i \in 1 .. n |-> [block |-> blocks[i], counter |-> counter,
                       flags |-> flags \cup (IF i = 1 THEN start ELSE {})
                                       \cup (IF i = n THEN end ELSE {})]]

LEMMA HashOneIs ==
    ASSUME NEW B, NEW n \in Nat, NEW blocks \in Seq(B), Len(blocks) = n,
           NEW counter \in Nat, NEW flags, NEW start, NEW end
    PROVE  HashOne(blocks, counter, flags, start, end)
             = HashNodes(blocks, n, counter, flags, start, end)
  <1> DEFINE Flags(i) == flags \cup (IF i = 1 THEN start ELSE {}) \cup (IF i = n THEN end ELSE {})
             Node(i) == [block |-> blocks[i], counter |-> counter, flags |-> Flags(i)]
             S == {Node(i) : i \in 1 .. n}
             First(i) == [j \in 1 .. i |-> Node(j)]
             after == [i \in 0 .. n |-> First(i)]
             Loop(g) == [i \in 0 .. n |-> IF i = 0 THEN Key
                            ELSE Compress(g[i - 1], blocks[i], counter, Flags(i))]
  <1>2. ASSUME NEW i \in 1 .. n
        PROVE  Compress(First(i - 1), blocks[i], counter, Flags(i)) = First(i)
    <2> DEFINE s == First(i - 1)
               e == Node(i)
    <2>1. i - 1 \in Nat /\ s \in [1 .. i - 1 -> S] /\ e \in S
      <3> HIDE DEF Node
      <3>1. \A j \in 1 .. n : Node(j) \in S
        OBVIOUS
      <3> HIDE DEF S
      <3>2. \A j \in 1 .. i - 1 : j \in 1 .. n
        OBVIOUS
      <3> QED
        BY <3>1, <3>2
    <2>2. Append(s, e) = [j \in 1 .. (i - 1) + 1 |-> IF j = (i - 1) + 1 THEN e ELSE s[j]]
      <3> HIDE DEF s, e, S
      <3> QED
        BY <2>1, AppendIs
    <2>3. (i - 1) + 1 = i
      OBVIOUS
    <2>4. [j \in 1 .. i |-> IF j = i THEN e ELSE s[j]] = First(i)
      <3> HIDE DEF Flags
      <3>1. \A j \in 1 .. i : (IF j = i THEN e ELSE s[j]) = Node(j)
        OBVIOUS
      <3> HIDE DEF Node, s, e
      <3> QED
        BY <3>1
    <2>5. Append(s, e) = First(i)
      <3> HIDE DEF s, e, First
      <3> QED
        BY <2>2, <2>3, <2>4
    <2> HIDE DEF First, s, Flags
    <2> QED
      BY <2>5 DEF Compress, s
  <1> HIDE DEF Node, S, Flags
  <1>3. ASSUME NEW g, g = Loop(g) PROVE \A i \in 0 .. n : g[i] = First(i)
    <2> DEFINE N == {i \in 0 .. n : g[i] = First(i)}
    <2>1. 0 \in N
      <3>1. g[0] = Key /\ First(0) = <<>>
        BY <1>3
      <3> HIDE DEF Loop, First
      <3> QED
        BY <3>1 DEF Key
    <2>2. ASSUME NEW i \in Nat, i < n, i \in N PROVE i + 1 \in N
      <3>1. i + 1 \in 1 .. n /\ (i + 1) - 1 = i
        BY <2>2
      <3>2. g[i + 1] = Compress(g[i], blocks[i + 1], counter, Flags(i + 1))
        BY <1>3, <3>1
      <3>3. Compress(First(i), blocks[i + 1], counter, Flags(i + 1)) = First(i + 1)
        <4> HIDE DEF First
        <4> QED
          BY <1>2, <3>1
      <3>4. g[i] = First(i)
        BY <2>2
      <3> HIDE DEF Loop, First
      <3> QED
        BY <3>1, <3>2, <3>3, <3>4
    <2>3. \A i \in N : g[i] = First(i)
      OBVIOUS
    <2> HIDE DEF N
    <2>4. \A i \in 0 .. n : i \in N
      BY <2>1, <2>2, UpTo
    <2> HIDE DEF First
    <2> QED
      BY <2>3, <2>4
  <1>4. after = Loop(after)
    <2>1. ASSUME NEW i \in 0 .. n PROVE after[i] = Loop(after)[i]
      <3>1. CASE i = 0
        <4>1. First(0) = <<>>
          OBVIOUS
        <4> HIDE DEF First
        <4> QED
          BY <3>1, <4>1 DEF Key
      <3>2. CASE i # 0
        <4>1. i \in 1 .. n /\ i - 1 \in 0 .. n
          BY <3>2
        <4> HIDE DEF First
        <4> QED
          BY <1>2, <3>2, <4>1
      <3> QED
        BY <3>1, <3>2
    <2> HIDE DEF First
    <2> QED
      BY <2>1
  <1> DEFINE f == CHOOSE g : g = Loop(g)
  <1>5. f = Loop(f)
    <2> HIDE DEF Loop, after
    <2> QED
      BY <1>4
  <1>6. f[n] = First(n)
    <2> HIDE DEF Loop, First, f
    <2> QED
      BY <1>3, <1>5
  <1>7. HashOne(blocks, counter, flags, start, end) = f[n]
    BY DEF HashOne, Flags
  <1> QED
    BY <1>6, <1>7 DEF Node, Flags, HashNodes

LEMMA SmallPowers ==
    ASSUME NEW p \in Powers
    PROVE  p \in {1, 2, 4, 8, 16} \/ p >= 32
  <1> DEFINE Halves(q) == \E h \in Powers : q = 2 * h
  <1>1. \A q \in Powers : q \in Nat \ {0} /\ (q # 1 => Halves(q))
    BY PowerHalf, PowersType
  <1>2. CASE p # 1
    <2>1. PICK h1 \in Powers : p = 2 * h1
      BY <1>1, <1>2
    <2>2. CASE h1 # 1
      <3>1. PICK h2 \in Powers : h1 = 2 * h2
        BY <1>1, <2>2
      <3>2. CASE h2 # 1
        <4>1. PICK h3 \in Powers : h2 = 2 * h3
          BY <1>1, <3>2
        <4>2. CASE h3 # 1
          <5>1. PICK h4 \in Powers : h3 = 2 * h4
            BY <1>1, <4>2
          <5>2. h4 \in Nat \ {0} /\ p = 16 * h4
            BY <1>1, <2>1, <3>1, <4>1, <5>1
          <5> QED
            BY <5>2
        <4> QED
          BY <1>1, <2>1, <3>1, <4>1, <4>2
      <3> QED
        BY <1>1, <2>1, <3>1, <3>2
    <2> QED
      BY <1>1, <2>1, <2>2
  <1> QED
    BY <1>2

LEMMA DegreeIs ==
    ASSUME machine \in Machines
    PROVE  /\ degree \in {1, 4, 8, 16}
           /\ degree <= MAX_SIMD_DEGREE_OR_2 /\ 2 <= MAX_SIMD_DEGREE_OR_2
           /\ Lanes[blake3_hash_many] \in {1, 4, 8, 16}
  <1>1. machine.x86 \in BOOLEAN /\ machine.neon \in BOOLEAN
    BY MachinesAssumption
  <1>2. degree \in {1, 4, 8, 16} /\ degree <= MAX_SIMD_DEGREE_OR_2 /\ 2 <= MAX_SIMD_DEGREE_OR_2
    BY <1>1 DEF degree, blake3_simd_degree, Usable, MAX_SIMD_DEGREE_OR_2, MAX_SIMD_DEGREE
  <1>3. Lanes[blake3_hash_many] \in {1, 4, 8, 16}
    <2> DEFINE k == blake3_hash_many
    <2>1. k \in {"avx512", "avx2", "sse41", "sse2", "neon", "portable"}
      BY DEF blake3_hash_many
    <2> HIDE DEF k
    <2>2. Lanes[k] \in {1, 4, 8, 16}
      BY <2>1 DEF Lanes
    <2> QED
      BY <2>2 DEF k
  <1> QED
    BY <1>2, <1>3

\* The counter of each input is that of its chunk, whatever the lanes.
LEMMA CounterIs ==
    ASSUME machine \in Machines, NEW counter \in Nat, NEW i \in Nat \ {0}
    PROVE  CounterOf(counter, i) = counter + (i - 1)
  <1> DEFINE lanes == Lanes[blake3_hash_many]
  <1>1. lanes \in {1, 4, 8, 16}
    BY DegreeIs
  <1>2. CounterOf(counter, i) = counter + lanes * ((i - 1) \div lanes) + ((i - 1) % lanes)
    BY DEF CounterOf
  <1> HIDE DEF lanes
  <1> DEFINE d == (i - 1) \div lanes
             r == (i - 1) % lanes
  <1>3. d \in Nat /\ r \in Nat /\ i - 1 = lanes * d + r
    BY <1>1
  <1>4. CounterOf(counter, i) = counter + lanes * d + r
    BY <1>2
  <1> HIDE DEF d, r
  <1>5. lanes * d \in Nat
    BY <1>1, <1>3
  <1> QED
    BY <1>3, <1>4, <1>5

\* The nodes of all subtrees, and n neighbours of a size.
Nodes == {Tree[len][from] : len \in 0 .. MaxLen, from \in Nat}
Row(from, size, n) == [i \in 1 .. n |-> Tree[size][from + (i - 1) * size]]

LEMMA NodesAre == \A len \in 0 .. MaxLen, from \in Nat : Tree[len][from] \in Nodes
  BY DEF Nodes

LEMMA RowType ==
    ASSUME NEW from \in Nat, NEW size \in 0 .. MaxLen, NEW n \in Nat
    PROVE  /\ Row(from, size, n) \in [1 .. n -> Nodes]
           /\ Row(from, size, n) \in Seq(Nodes)
           /\ Len(Row(from, size, n)) = n
           /\ \A i \in 1 .. n : Row(from, size, n)[i] = Tree[size][from + (i - 1) * size]
  <1> DEFINE row == Row(from, size, n)
  <1>1. ASSUME NEW i \in 1 .. n PROVE Tree[size][from + (i - 1) * size] \in Nodes
    <2>1. from + (i - 1) * size \in Nat
      BY MaxLenAssumption
    <2> QED
      BY <2>1, NodesAre
  <1>2. row \in [1 .. n -> Nodes]
    BY <1>1 DEF Row
  <1>3. \A i \in 1 .. n : row[i] = Tree[size][from + (i - 1) * size]
    BY DEF Row
  <1> HIDE DEF row
  <1>4. row \in Seq(Nodes) /\ Len(row) = n
    BY <1>2, IsASeq, SeqDef
  <1> QED
    BY <1>2, <1>3, <1>4 DEF row

LEMMA ChunkTree ==
    ASSUME NEW len \in 0 .. MaxLen, len <= ChunkLen, NEW from \in Nat
    PROVE  Tree[len][from] = ChunkNode(from, len)
  <1> DEFINE Split(l, f) == Parent(<<Tree[ChunkLen * Left(l)][f],
                                Tree[l - ChunkLen * Left(l)][f + ChunkLen * Left(l)]>>)
  <1>1. Tree = [l \in 0 .. MaxLen |-> [f \in Nat |->
                  IF l <= ChunkLen THEN ChunkNode(f, l) ELSE Split(l, f)]]
    BY TreeIs
  <1> HIDE DEF Split
  <1> QED
    BY <1>1

\* The tree of a full subtree: two halves under a parent.
LEMMA ParentTree ==
    ASSUME NEW p \in Powers, NEW from \in Nat, ChunkLen * (2 * p) <= MaxLen
    PROVE  Tree[ChunkLen * (2 * p)][from]
             = Parent(<<Tree[ChunkLen * p][from], Tree[ChunkLen * p][from + ChunkLen * p]>>)
  <1> DEFINE len == ChunkLen * (2 * p)
             half == ChunkLen * p
             Split(l, f) == Parent(<<Tree[ChunkLen * Left(l)][f],
                                Tree[l - ChunkLen * Left(l)][f + ChunkLen * Left(l)]>>)
  <1>1. len = 2 * half /\ half \in Nat /\ half >= ChunkLen /\ p \in Nat \ {0}
    BY PowersType, LengthsType
  <1>2. len \in 0 .. MaxLen /\ len > ChunkLen
    BY <1>1, LengthsType, MaxLenAssumption
  <1>3. Left(len) = p
    <2>1. ChunkLen * p < len /\ 2 * (ChunkLen * p) >= len
      BY <1>1, <1>2, LengthsType
    <2> HIDE DEF len
    <2> QED
      BY <1>2, <2>1, LeftIs
  <1>4. len - half = half
    BY <1>1
  <1>5. Tree = [l \in 0 .. MaxLen |-> [f \in Nat |->
                  IF l <= ChunkLen THEN ChunkNode(f, l) ELSE Split(l, f)]]
    BY TreeIs
  <1> HIDE DEF Split, len
  <1>6. Tree[len][from] = Split(len, from)
    BY <1>2, <1>5, LengthsType
  <1> HIDE DEF half
  <1>7. Split(len, from) = Parent(<<Tree[half][from], Tree[half][from + half]>>)
    BY <1>3, <1>4 DEF Split, half
  <1> QED
    BY <1>6, <1>7 DEF half, len

\* The blocks of a whole chunk.
Blocks(from) == [j \in 1 .. ChunkLen \div BlockLen |-> OfBytes(Bytes(from + (j - 1) * BlockLen, BlockLen))]

LEMMA WholeChunk ==
    ASSUME NEW counter \in Nat
    PROVE  HashOne(Blocks(counter * ChunkLen), counter, {}, {"CHUNK_START"}, {"CHUNK_END"})
             = ChunkNode(counter * ChunkLen, ChunkLen)
  <1> DEFINE from == counter * ChunkLen
             k == ChunkLen \div BlockLen
             Node(i) == [block |-> OfBytes(Bytes(from + (i - 1) * BlockLen, BlockLen)), counter |-> counter,
                         flags |-> (IF i = 1 THEN {"CHUNK_START"} ELSE {})
                                       \cup (IF i = k THEN {"CHUNK_END"} ELSE {})]
             Size(i) == IF i < k THEN BlockLen ELSE ChunkLen - (k - 1) * BlockLen
  <1>1. k \in Nat \ {0} /\ ChunkLen = k * BlockLen
    <2>1. PICK j \in 1 .. ChunkLen : ChunkLen = BlockLen * j
      BY LengthsAssumption
    <2>2. (BlockLen * j) \div BlockLen = j /\ BlockLen * j = j * BlockLen
      BY LengthsType
    <2> QED
      BY <2>1, <2>2
  <1>2. from \in Nat /\ from \div ChunkLen = counter
    BY LengthsType
  <1>3. HashOne(Blocks(from), counter, {}, {"CHUNK_START"}, {"CHUNK_END"}) = [i \in 1 .. k |-> Node(i)]
    <2> DEFINE blocks == Blocks(from)
               B == [bytes : Seq(Nat), cvs : {<<>>}]
               F(i) == {} \cup (IF i = 1 THEN {"CHUNK_START"} ELSE {}) \cup (IF i = k THEN {"CHUNK_END"} ELSE {})
    <2>1. ASSUME NEW j \in 1 .. k PROVE OfBytes(Bytes(from + (j - 1) * BlockLen, BlockLen)) \in B
      <3>1. from + (j - 1) * BlockLen \in Nat
        BY <1>1, <1>2, LengthsType
      <3> HIDE DEF from
      <3>2. Bytes(from + (j - 1) * BlockLen, BlockLen) \in Seq(Nat)
        BY <3>1, BytesType, LengthsType
      <3> QED
        BY <3>2 DEF OfBytes
    <2>2. blocks \in [1 .. k -> B]
      <3> HIDE DEF B, from, k
      <3> QED
        BY <2>1 DEF Blocks, k
    <2>3. \A i \in 1 .. k : blocks[i] = OfBytes(Bytes(from + (i - 1) * BlockLen, BlockLen))
      BY DEF Blocks
    <2> HIDE DEF B, blocks, from, k
    <2>4. k \in Nat /\ blocks \in Seq(B) /\ Len(blocks) = k
      BY <1>1, <2>2, IsASeq, SeqDef
    <2>5. HashOne(blocks, counter, {}, {"CHUNK_START"}, {"CHUNK_END"})
            = HashNodes(blocks, k, counter, {}, {"CHUNK_START"}, {"CHUNK_END"})
      BY <2>4, HashOneIs
    <2>6. \A i \in 1 .. k : [block |-> blocks[i], counter |-> counter, flags |-> F(i)] = Node(i)
      BY <2>3
    <2>7. HashNodes(blocks, k, counter, {}, {"CHUNK_START"}, {"CHUNK_END"})
            = [i \in 1 .. k |-> [block |-> blocks[i], counter |-> counter, flags |-> F(i)]]
      BY DEF HashNodes
    <2> HIDE DEF Node, F
    <2>8. [i \in 1 .. k |-> [block |-> blocks[i], counter |-> counter, flags |-> F(i)]]
            = [i \in 1 .. k |-> Node(i)]
      BY <2>6
    <2> QED
      BY <2>5, <2>7, <2>8 DEF blocks
  <1>4. ChunkNode(from, ChunkLen)
          = [i \in 1 .. k |-> [block |-> OfBytes(Bytes(from + (i - 1) * BlockLen, Size(i))),
                               counter |-> counter,
                               flags |-> (IF i = 1 THEN {"CHUNK_START"} ELSE {})
                                             \cup (IF i = k THEN {"CHUNK_END"} ELSE {})]]
    <2>1. (IF ChunkLen = 0 THEN 1 ELSE (ChunkLen - 1) \div BlockLen + 1) = k
      <3>1. k - 1 \in Nat /\ k * BlockLen = (k - 1) * BlockLen + BlockLen
        BY <1>1, LengthsType
      <3> HIDE DEF k
      <3>2. (k - 1) * BlockLen < ChunkLen /\ ChunkLen <= (k - 1) * BlockLen + BlockLen
        BY <1>1, <3>1, LengthsType
      <3>3. k - 1 = BlocksOf(ChunkLen)
        BY <3>1, <3>2, BlocksOfIs, LengthsType
      <3> QED
        BY <1>1, <3>3, LengthsType DEF BlocksOf
    <2> HIDE DEF k, from
    <2> QED
      BY <1>2, <2>1 DEF ChunkNode
  <1>5. \A i \in 1 .. k : Size(i) = BlockLen
    <2> HIDE DEF k
    <2>1. k * BlockLen - (k - 1) * BlockLen = BlockLen
      BY <1>1, LengthsType
    <2> QED
      BY <1>1, <2>1
  <1>6. ChunkNode(from, ChunkLen) = [i \in 1 .. k |-> Node(i)]
    <2> HIDE DEF k, Size
    <2> QED
      BY <1>4, <1>5
  <1> QED
    BY <1>3, <1>6

LEMMA CompressChunksIs ==
    ASSUME machine \in Machines, NEW counter \in Nat, NEW n \in Nat, ChunkLen <= MaxLen
    PROVE  CompressChunks(counter * ChunkLen, n * ChunkLen, counter) = Row(counter * ChunkLen, ChunkLen, n)
  <1> DEFINE from == counter * ChunkLen
             whole == [i \in 1 .. n |->
                        HashOne(Blocks(from + (i - 1) * ChunkLen), CounterOf(counter, i),
                                {}, {"CHUNK_START"}, {"CHUNK_END"})]
  <1>1. (n * ChunkLen) \div ChunkLen = n /\ from \in Nat
    BY LengthsType
  <1>2. CompressChunks(from, n * ChunkLen, counter) = whole
    <2> HIDE DEF from
    <2> QED
      BY <1>1 DEF CompressChunks, Blocks
  <1>3. ASSUME NEW i \in 1 .. n
        PROVE  HashOne(Blocks(from + (i - 1) * ChunkLen), CounterOf(counter, i), {}, {"CHUNK_START"}, {"CHUNK_END"})
                 = Tree[ChunkLen][from + (i - 1) * ChunkLen]
    <2> DEFINE c == counter + (i - 1)
    <2>1. c \in Nat /\ from + (i - 1) * ChunkLen = c * ChunkLen
      BY LengthsType
    <2>2. CounterOf(counter, i) = c
      BY CounterIs
    <2> HIDE DEF c
    <2>3. HashOne(Blocks(c * ChunkLen), c, {}, {"CHUNK_START"}, {"CHUNK_END"}) = ChunkNode(c * ChunkLen, ChunkLen)
      BY <2>1, WholeChunk
    <2>4. Tree[ChunkLen][c * ChunkLen] = ChunkNode(c * ChunkLen, ChunkLen)
      <3>1. c * ChunkLen \in Nat /\ ChunkLen \in 0 .. MaxLen /\ ChunkLen <= ChunkLen
        BY <2>1, LengthsType, MaxLenAssumption
      <3> QED
        BY <3>1, ChunkTree
    <2> HIDE DEF from
    <2> QED
      BY <2>1, <2>2, <2>3, <2>4
  <1>4. whole = Row(from, ChunkLen, n)
    <2> HIDE DEF from
    <2> QED
      BY <1>3 DEF Row
  <1> QED
    BY <1>2, <1>4

LEMMA PairIs ==
    ASSUME NEW S, NEW s \in Seq(S), NEW i \in 1 .. Len(s) - 1
    PROVE  SubSeq(s, i, i + 1) = <<s[i], s[i + 1]>>
  <1> DEFINE t == SubSeq(s, i, i + 1)
             u == <<s[i], s[i + 1]>>
  <1>1. Len(s) \in Nat /\ i + 1 \in 1 .. Len(s) /\ i \in 1 .. Len(s) /\ (i + 1) - i + 1 = 2
    OBVIOUS
  <1>2. t \in Seq(S) /\ Len(t) = 2 /\ \A j \in 1 .. 2 : t[j] = s[i + j - 1]
    BY <1>1
  <1>3. s[i] \in S /\ s[i + 1] \in S
    BY <1>1, ElementOfSeq
  <1>4. u \in Seq(S) /\ Len(u) = 2 /\ u[1] = s[i] /\ u[2] = s[i + 1]
    BY <1>3
  <1> HIDE DEF t, u
  <1>5. t[1] = s[i] /\ t[2] = s[i + 1]
    <2>1. i + 1 - 1 = i /\ i + 2 - 1 = i + 1 /\ 1 \in 1 .. 2 /\ 2 \in 1 .. 2
      OBVIOUS
    <2> QED
      BY <1>2, <2>1
  <1>6. t = u
    <2>1. \A j \in 1 .. 2 : t[j] = u[j]
      BY <1>4, <1>5
    <2> QED
      BY <1>2, <1>4, <2>1, SeqEqual
  <1> QED
    BY <1>6 DEF t, u

LEMMA ParentIs ==
    ASSUME NEW pair \in Seq(Nodes)
    PROVE  HashOne(<<OfCvs(pair)>>, 0, {"PARENT"}, {}, {}) = Parent(pair)
  <1> DEFINE b == OfCvs(pair)
             blocks == <<b>>
             B == {b}
             e == [block |-> b, counter |-> 0, flags |-> {"PARENT"}]
  <1>1. blocks \in Seq(B) /\ Len(blocks) = 1 /\ blocks[1] = b
    OBVIOUS
  <1> HIDE DEF blocks, B, b
  <1>2. HashOne(blocks, 0, {"PARENT"}, {}, {}) = HashNodes(blocks, 1, 0, {"PARENT"}, {}, {})
    <2> DEFINE n == 1
               counter == 0
    <2>1. n \in Nat /\ counter \in Nat /\ Len(blocks) = n
      BY <1>1
    <2> HIDE DEF n, counter
    <2>2. HashOne(blocks, counter, {"PARENT"}, {}, {}) = HashNodes(blocks, n, counter, {"PARENT"}, {}, {})
      BY <1>1, <2>1, HashOneIs
    <2> QED
      BY <2>2 DEF n, counter
  <1>3. HashNodes(blocks, 1, 0, {"PARENT"}, {}, {}) = [i \in 1 .. 1 |-> e]
    <2> DEFINE F(i) == {"PARENT"} \cup (IF i = 1 THEN {} ELSE {}) \cup (IF i = 1 THEN {} ELSE {})
               Node(i) == [block |-> blocks[i], counter |-> 0, flags |-> F(i)]
    <2>1. HashNodes(blocks, 1, 0, {"PARENT"}, {}, {}) = [i \in 1 .. 1 |-> Node(i)]
      BY DEF HashNodes
    <2>2. \A i \in 1 .. 1 : Node(i) = e
      <3>1. \A i \in 1 .. 1 : i = 1 /\ F(i) = {"PARENT"}
        OBVIOUS
      <3> HIDE DEF F
      <3> QED
        BY <1>1, <3>1
    <2> HIDE DEF Node, e
    <2> QED
      BY <2>1, <2>2
  <1>4. [i \in 1 .. 1 |-> e] = Append(<<>>, e)
    <2> HIDE DEF e
    <2> QED
      OBVIOUS
  <1> QED
    BY <1>2, <1>3, <1>4 DEF blocks, b, Parent, Compress, Key

LEMMA CompressParentsIs ==
    ASSUME NEW from \in Nat, NEW p \in Powers, ChunkLen * (2 * p) <= MaxLen, NEW n \in Nat
    PROVE  CompressParents(Row(from, ChunkLen * p, 2 * n)) = Row(from, ChunkLen * (2 * p), n)
  <1> DEFINE size == ChunkLen * p
             cvs == Row(from, size, 2 * n)
             Pair(i) == HashOne(<<OfCvs(SubSeq(cvs, 2 * i - 1, 2 * i))>>, 0, {"PARENT"}, {}, {})
  <1>1. size \in 0 .. MaxLen /\ ChunkLen * (2 * p) = 2 * size /\ 2 * n \in Nat /\ size \in Nat
    BY PowersType, LengthsType, MaxLenAssumption
  <1> HIDE DEF size
  <1>2. cvs \in Seq(Nodes) /\ Len(cvs) = 2 * n /\ \A i \in 1 .. 2 * n : cvs[i] = Tree[size][from + (i - 1) * size]
    BY <1>1, RowType
  <1> HIDE DEF cvs
  <1>3. CompressParents(cvs) = [i \in 1 .. n |-> Pair(i)]
    <2>1. (2 * n) \div 2 = n
      OBVIOUS
    <2> QED
      BY <1>2, <2>1 DEF CompressParents
  <1>4. ASSUME NEW i \in 1 .. n PROVE Pair(i) = Tree[2 * size][from + (i - 1) * (2 * size)]
    <2> DEFINE f == from + (i - 1) * (2 * size)
    <2>1. f \in Nat /\ from + ((2 * i - 1) - 1) * size = f /\ from + (2 * i - 1) * size = f + size
      BY <1>1
    <2> HIDE DEF f
    <2>2. 2 * i - 1 \in 1 .. 2 * n - 1 /\ (2 * i - 1) + 1 = 2 * i /\ 2 * i - 1 \in 1 .. 2 * n /\ 2 * i \in 1 .. 2 * n
      OBVIOUS
    <2>3. SubSeq(cvs, 2 * i - 1, 2 * i) = <<cvs[2 * i - 1], cvs[2 * i]>>
      <3> DEFINE j == 2 * i - 1
      <3>1. j \in 1 .. Len(cvs) - 1 /\ j + 1 = 2 * i
        BY <1>2, <2>2
      <3> HIDE DEF j
      <3>2. SubSeq(cvs, j, j + 1) = <<cvs[j], cvs[j + 1]>>
        BY <1>2, <3>1, PairIs
      <3> QED
        BY <3>1, <3>2 DEF j
    <2>4. cvs[2 * i - 1] = Tree[size][f] /\ cvs[2 * i] = Tree[size][f + size]
      BY <1>2, <2>1, <2>2
    <2> DEFINE pair == SubSeq(cvs, 2 * i - 1, 2 * i)
    <2>5. pair \in Seq(Nodes) /\ pair = <<Tree[size][f], Tree[size][f + size]>>
      <3>1. Tree[size][f] \in Nodes /\ Tree[size][f + size] \in Nodes
        BY <1>1, <2>1, NodesAre
      <3>2. pair = <<Tree[size][f], Tree[size][f + size]>>
        BY <2>3, <2>4
      <3> HIDE DEF pair
      <3> QED
        BY <3>1, <3>2
    <2> HIDE DEF pair
    <2>6. HashOne(<<OfCvs(pair)>>, 0, {"PARENT"}, {}, {}) = Parent(pair)
      BY <2>5, ParentIs
    <2>7. Tree[2 * size][f] = Parent(<<Tree[size][f], Tree[size][f + size]>>)
      BY <1>1, <2>1, ParentTree DEF size
    <2> QED
      BY <2>5, <2>6, <2>7 DEF pair, f
  <1> HIDE DEF Pair
  <1>5. [i \in 1 .. n |-> Pair(i)] = Row(from, 2 * size, n)
    BY <1>4 DEF Row
  <1> QED
    BY <1>1, <1>3, <1>5 DEF cvs, size

-----------------------------------------------------------------------------
(* Subtrees.                                                               *)

\* What compress_subtree_wide does with the CVs of two halves.
Join(len, l, r) ==
    LET place == IF LeftSubtreeLen(len) > ChunkLen /\ degree = 1 THEN 2 ELSE degree
    IN IF PairKept(l) THEN CvArray(l, r, place, 2)
       ELSE CompressParents(CvArray(l, r, place, Len(l) + Len(r)))

LEMMA WideIs ==
    ASSUME machine \in Machines
    PROVE  SubtreeWide = [len \in 0 .. MaxLen |-> [from \in Nat |-> [counter \in Nat |->
              IF len <= degree * ChunkLen THEN CompressChunks(from, len, counter)
              ELSE Join(len, SubtreeWide[LeftSubtreeLen(len)][from][counter],
                        SubtreeWide[len - LeftSubtreeLen(len)][from + LeftSubtreeLen(len)]
                                   [counter + LeftSubtreeLen(len) \div ChunkLen])]]]
  <1> DEFINE Body(g, len, from, counter) ==
                IF len <= degree * ChunkLen THEN CompressChunks(from, len, counter)
                ELSE Join(len, g[LeftSubtreeLen(len)][from][counter],
                          g[len - LeftSubtreeLen(len)][from + LeftSubtreeLen(len)]
                           [counter + LeftSubtreeLen(len) \div ChunkLen])
             Upto(n) == \E g : \A from \in Nat, counter \in Nat, len \in 0 .. n :
                                  g[len][from][counter] = Body(g, len, from, counter)
             N == {n \in Nat : Upto(n)}
  <1>1. degree \in {1, 4, 8, 16} /\ degree * ChunkLen >= ChunkLen /\ degree * ChunkLen \in Nat
    <2>1. degree \in {1, 4, 8, 16}
      BY DegreeIs
    <2> QED
      BY <2>1, LengthsType
  <1>2. ASSUME NEW len \in 0 .. MaxLen, ~(len <= degree * ChunkLen)
        PROVE  LeftSubtreeLen(len) \in 1 .. len - 1 /\ LeftSubtreeLen(len) \div ChunkLen \in Nat
    <2>1. len > ChunkLen
      BY <1>1, <1>2, LengthsType, MaxLenAssumption
    <2>2. LeftSubtreeLen(len) \in 1 .. len - 1
      BY <2>1, LeftIs
    <2> QED
      BY <2>2, LengthsType
  \* Two functions that agree below a length have the same there.
  <1>3. ASSUME NEW g, NEW h, NEW len \in 0 .. MaxLen, NEW from \in Nat, NEW counter \in Nat,
               \A l \in 0 .. len - 1, f \in Nat, c \in Nat : g[l][f][c] = h[l][f][c]
        PROVE  Body(g, len, from, counter) = Body(h, len, from, counter)
    <2>1. CASE len <= degree * ChunkLen
      BY <2>1
    <2>2. CASE ~(len <= degree * ChunkLen)
      <3> DEFINE l == LeftSubtreeLen(len)
                 c == l \div ChunkLen
      <3>1. l \in 1 .. len - 1 /\ c \in Nat
        BY <1>2, <2>2
      <3> HIDE DEF l, c
      <3>2. /\ l \in 0 .. len - 1 /\ len - l \in 0 .. len - 1
            /\ from + l \in Nat /\ counter + c \in Nat
        BY <3>1, MaxLenAssumption
      <3>3. g[l][from][counter] = h[l][from][counter]
            /\ g[len - l][from + l][counter + c] = h[len - l][from + l][counter + c]
        BY <1>3, <3>2
      <3> QED
        BY <2>2, <3>3 DEF l, c
    <2> QED
      BY <2>1, <2>2
  <1> HIDE DEF Body
  <1>4. 0 \in N
    <2> DEFINE h == [len \in {0} |-> [from \in Nat |-> [counter \in Nat |-> CompressChunks(from, 0, counter)]]]
    <2>1. \A from \in Nat, counter \in Nat, len \in 0 .. 0 : h[len][from][counter] = Body(h, len, from, counter)
      BY <1>1 DEF Body
    <2> HIDE DEF h
    <2> QED
      BY <2>1
  <1>5. ASSUME NEW n \in Nat, n < MaxLen, n \in N PROVE n + 1 \in N
    <2>1. PICK g : \A from \in Nat, counter \in Nat, len \in 0 .. n :
                      g[len][from][counter] = Body(g, len, from, counter)
      BY <1>5
    <2> DEFINE h == [len \in 0 .. n + 1 |-> [from \in Nat |-> [counter \in Nat |->
                       IF len = n + 1 THEN Body(g, len, from, counter) ELSE g[len][from][counter]]]]
    <2>2. \A from \in Nat, counter \in Nat, len \in 0 .. n : h[len][from][counter] = g[len][from][counter]
      BY <1>5
    <2>3. \A from \in Nat, counter \in Nat : h[n + 1][from][counter] = Body(g, n + 1, from, counter)
      BY <1>5
    <2> HIDE DEF h
    <2>4. ASSUME NEW from \in Nat, NEW counter \in Nat, NEW len \in 0 .. n + 1
          PROVE  h[len][from][counter] = Body(h, len, from, counter)
      <3>1. h[len][from][counter] = Body(g, len, from, counter)
        <4>1. len = n + 1 \/ len \in 0 .. n
          OBVIOUS
        <4> QED
          BY <2>1, <2>2, <2>3, <4>1
      <3>2. \A l \in 0 .. len - 1, f \in Nat, c \in Nat : g[l][f][c] = h[l][f][c]
        BY <2>2
      <3>3. len \in 0 .. MaxLen
        BY <1>5, MaxLenAssumption
      <3>4. Body(g, len, from, counter) = Body(h, len, from, counter)
        BY <1>3, <3>2, <3>3
      <3> QED
        BY <3>1, <3>4
    <2>5. Upto(n + 1)
      BY <2>4
    <2> HIDE DEF Upto
    <2> QED
      BY <2>5
  <1>6. Upto(MaxLen)
    <2> HIDE DEF Upto
    <2>1. \A n \in Nat : n < MaxLen /\ n \in N => n + 1 \in N
      BY <1>5
    <2> HIDE DEF N
    <2>2. MaxLen \in N
      BY <1>4, <2>1, UpTo, MaxLenAssumption
    <2> QED
      BY <2>2 DEF N
  <1>7. PICK g : \A from \in Nat, counter \in Nat, len \in 0 .. MaxLen :
                    g[len][from][counter] = Body(g, len, from, counter)
    BY <1>6
  <1> DEFINE h == [len \in 0 .. MaxLen |-> [from \in Nat |-> [counter \in Nat |-> g[len][from][counter]]]]
  <1>8. ASSUME NEW len \in 0 .. MaxLen, NEW from \in Nat, NEW counter \in Nat
        PROVE  g[len][from][counter] = Body(h, len, from, counter)
    <2>1. \A l \in 0 .. len - 1, f \in Nat, c \in Nat : g[l][f][c] = h[l][f][c]
      BY MaxLenAssumption
    <2> HIDE DEF h
    <2>2. Body(g, len, from, counter) = Body(h, len, from, counter)
      BY <1>3, <2>1
    <2> QED
      BY <1>7, <2>2
  <1>9. h = [len \in 0 .. MaxLen |-> [from \in Nat |-> [counter \in Nat |-> Body(h, len, from, counter)]]]
    BY <1>8
  <1> HIDE DEF h
  <1>10. SubtreeWide = CHOOSE f : f = [len \in 0 .. MaxLen |-> [from \in Nat |->
                                        [counter \in Nat |-> Body(f, len, from, counter)]]]
    BY DEF SubtreeWide, Join, Body
  <1>11. SubtreeWide = [len \in 0 .. MaxLen |-> [from \in Nat |->
                          [counter \in Nat |-> Body(SubtreeWide, len, from, counter)]]]
    BY <1>9, <1>10
  <1> QED
    BY <1>11 DEF Body

\* How many CVs a full subtree of p chunks is compressed to.
Width(p) == IF p <= degree THEN p ELSE IF degree = 1 THEN 2 ELSE degree

LEMMA PowerAbove ==
    ASSUME machine \in Machines, NEW p \in Powers, p > degree
    PROVE  \E h \in Powers : p = 2 * h /\ h >= degree
  <1>1. degree \in {1, 4, 8, 16}
    BY DegreeIs
  <1>2. p \in {1, 2, 4, 8, 16} \/ p >= 32
    BY SmallPowers
  <1> HIDE DEF degree
  <1>3. p # 1 /\ p \in Nat
    BY <1>1, PowersType
  <1>4. PICK h \in Powers : p = 2 * h
    BY <1>3, PowerHalf
  <1>5. h \in Nat
    BY PowersType
  <1>6. h >= degree
    BY <1>1, <1>2, <1>4, <1>5
  <1> QED
    BY <1>4, <1>6

LEMMA LeftHalf ==
    ASSUME NEW p \in Powers, ChunkLen * (2 * p) <= MaxLen
    PROVE  LeftSubtreeLen(ChunkLen * (2 * p)) = ChunkLen * p
  <1> DEFINE len == ChunkLen * (2 * p)
             half == ChunkLen * p
  <1>1. len = 2 * half /\ half \in Nat /\ half >= ChunkLen /\ p \in Nat \ {0}
    BY PowersType, LengthsType
  <1>2. len \in 0 .. MaxLen /\ len > ChunkLen /\ half < len /\ 2 * half >= len
    BY <1>1, LengthsType, MaxLenAssumption
  <1> HIDE DEF len
  <1>3. Left(len) = p /\ LeftSubtreeLen(len) = ChunkLen * Left(len)
    BY <1>2, LeftIs
  <1> QED
    BY <1>3 DEF len

LEMMA JoinRows ==
    ASSUME NEW from \in Nat, NEW size \in 0 .. MaxLen, NEW n \in Nat
    PROVE  CvArray(Row(from, size, n), Row(from + n * size, size, n), n, 2 * n) = Row(from, size, 2 * n)
  <1> DEFINE l == Row(from, size, n)
             r == Row(from + n * size, size, n)
             Entry(i) == IF i > n THEN r[i - n] ELSE IF i <= Len(l) THEN l[i] ELSE Garbage
  <1>1. from + n * size \in Nat /\ n * size \in Nat
    BY MaxLenAssumption
  <1>2. Len(l) = n /\ \A i \in 1 .. n : l[i] = Tree[size][from + (i - 1) * size]
    BY RowType
  <1>3. \A i \in 1 .. n : r[i] = Tree[size][from + n * size + (i - 1) * size]
    <2> DEFINE f == from + n * size
    <2> HIDE DEF f
    <2>1. \A i \in 1 .. n : Row(f, size, n)[i] = Tree[size][f + (i - 1) * size]
      BY <1>1, RowType DEF f
    <2> QED
      BY <2>1 DEF f
  <1> HIDE DEF l, r
  <1>4. ASSUME NEW i \in 1 .. 2 * n PROVE Entry(i) = Tree[size][from + (i - 1) * size]
    <2>1. CASE i <= n
      <3>1. i \in 1 .. n /\ ~(i > n)
        BY <2>1
      <3> QED
        BY <1>2, <3>1
    <2>2. CASE i > n
      <3>1. i - n \in 1 .. n
        BY <2>2
      <3>2. from + n * size + ((i - n) - 1) * size = from + (i - 1) * size
        BY <1>1, <2>2, MaxLenAssumption
      <3> QED
        BY <1>3, <2>2, <3>1, <3>2
    <2> QED
      BY <2>1, <2>2
  <1> HIDE DEF Entry
  <1>5. [i \in 1 .. 2 * n |-> Entry(i)] = Row(from, size, 2 * n)
    BY <1>4 DEF Row
  <1> QED
    BY <1>5 DEF CvArray, Entry, l, r

\* That a full subtree of p chunks is compressed to nodes of one size.
WideIsRow(p) ==
    \E q \in Powers :
        /\ p = Width(p) * q
        /\ \A counter \in Nat :
              SubtreeWide[ChunkLen * p][counter * ChunkLen][counter]
                = Row(counter * ChunkLen, ChunkLen * q, Width(p))

LEMMA WidthIs ==
    ASSUME machine \in Machines, NEW p \in Powers
    PROVE  /\ Width(p) \in Nat \ {0}
           /\ p >= 2 => /\ Width(p) \in {2, 4, 8, 16} /\ Width(p) <= MAX_SIMD_DEGREE_OR_2
                        /\ Width(p) <= IF degree = 1 THEN 2 ELSE degree
  <1>1. degree \in {1, 4, 8, 16} /\ degree <= MAX_SIMD_DEGREE_OR_2 /\ 2 <= MAX_SIMD_DEGREE_OR_2
    BY DegreeIs
  <1>2. p \in Nat \ {0} /\ (p \in {1, 2, 4, 8, 16} \/ p >= 32)
    BY SmallPowers, PowersType
  <1> HIDE DEF degree
  <1>3. MAX_SIMD_DEGREE_OR_2 \in Nat
    BY DEF MAX_SIMD_DEGREE_OR_2, MAX_SIMD_DEGREE
  <1> HIDE DEF MAX_SIMD_DEGREE_OR_2
  <1> QED
    BY <1>1, <1>2, <1>3 DEF Width

\* A call of compress_subtree_wide, for a full subtree.
LEMMA WideStep ==
    ASSUME machine \in Machines, NEW p \in Powers, ChunkLen * p <= MaxLen, NEW counter \in Nat
    PROVE  /\ p <= degree =>
                SubtreeWide[ChunkLen * p][counter * ChunkLen][counter]
                  = Row(counter * ChunkLen, ChunkLen, p)
           /\ \A h \in Powers : p = 2 * h /\ p > degree =>
                SubtreeWide[ChunkLen * p][counter * ChunkLen][counter]
                  = Join(ChunkLen * p, SubtreeWide[ChunkLen * h][counter * ChunkLen][counter],
                         SubtreeWide[ChunkLen * h][(counter + h) * ChunkLen][counter + h])
  <1> DEFINE Body(len, from, c) ==
                IF len <= degree * ChunkLen THEN CompressChunks(from, len, c)
                ELSE Join(len, SubtreeWide[LeftSubtreeLen(len)][from][c],
                          SubtreeWide[len - LeftSubtreeLen(len)][from + LeftSubtreeLen(len)]
                                     [c + LeftSubtreeLen(len) \div ChunkLen])
             len == ChunkLen * p
             from == counter * ChunkLen
  <1>1. SubtreeWide = [l \in 0 .. MaxLen |-> [f \in Nat |-> [c \in Nat |-> Body(l, f, c)]]]
    BY WideIs
  <1>2. len \in 0 .. MaxLen /\ len = p * ChunkLen /\ from \in Nat /\ p \in Nat \ {0} /\ ChunkLen <= MaxLen
    <2>1. p \in Nat \ {0}
      BY PowersType
    <2>2. len \in Nat /\ len = p * ChunkLen /\ from \in Nat /\ ChunkLen <= len
      BY <2>1, LengthsType
    <2> QED
      BY <2>1, <2>2, LengthsType, MaxLenAssumption
  <1> HIDE DEF Body
  <1>3. SubtreeWide[len][from][counter] = Body(len, from, counter)
    BY <1>1, <1>2
  <1>4. (p <= degree) <=> (len <= degree * ChunkLen)
    <2>1. degree \in {1, 4, 8, 16}
      BY DegreeIs
    <2> HIDE DEF degree
    <2>2. p <= degree => p * ChunkLen <= degree * ChunkLen
      BY <1>2, <2>1, LengthsType
    <2>3. degree + 1 <= p => (degree + 1) * ChunkLen <= p * ChunkLen
      BY <1>2, <2>1, LengthsType
    <2>4. (degree + 1) * ChunkLen = degree * ChunkLen + ChunkLen /\ degree * ChunkLen \in Nat
      BY <2>1, LengthsType
    <2> QED
      BY <1>2, <2>1, <2>2, <2>3, <2>4, LengthsType
  <1>5. ASSUME p <= degree PROVE SubtreeWide[len][from][counter] = Row(from, ChunkLen, p)
    <2>1. CompressChunks(counter * ChunkLen, p * ChunkLen, counter) = Row(counter * ChunkLen, ChunkLen, p)
      BY <1>2, CompressChunksIs
    <2>2. SubtreeWide[len][from][counter] = CompressChunks(from, len, counter)
      <3> HIDE DEF len, from
      <3> QED
        BY <1>3, <1>4, <1>5 DEF Body
    <2> QED
      BY <1>2, <2>1, <2>2
  <1>6. ASSUME NEW h \in Powers, p = 2 * h, p > degree
        PROVE  SubtreeWide[len][from][counter]
                 = Join(len, SubtreeWide[ChunkLen * h][from][counter],
                        SubtreeWide[ChunkLen * h][(counter + h) * ChunkLen][counter + h])
    <2> DEFINE half == ChunkLen * h
    <2>1. LeftSubtreeLen(len) = half
      BY <1>6, LeftHalf
    <2>2. h \in Nat \ {0} /\ half \div ChunkLen = h /\ len - half = half /\ from + half = (counter + h) * ChunkLen
      <3>1. h \in Nat \ {0}
        BY PowersType
      <3> QED
        BY <1>6, <3>1, LengthsType
    <2>3. ~(len <= degree * ChunkLen)
      <3>1. degree \in {1, 4, 8, 16}
        BY DegreeIs
      <3> QED
        BY <1>2, <1>4, <1>6, <3>1
    <2>4. Body(len, from, counter)
            = Join(len, SubtreeWide[half][from][counter],
                   SubtreeWide[half][(counter + h) * ChunkLen][counter + h])
      <3> HIDE DEF len, from, half
      <3> QED
        BY <2>1, <2>2, <2>3 DEF Body
    <2> QED
      BY <1>3, <2>4
  <1> QED
    BY <1>5, <1>6

\* Two halves at least as wide as the kernel.
LEMMA JoinHalves ==
    ASSUME machine \in Machines, NEW h \in Powers, ChunkLen * (2 * h) <= MaxLen,
           h >= degree, NEW counter \in Nat,
           NEW q \in Powers, h = Width(h) * q, NEW l, NEW r,
           l = Row(counter * ChunkLen, ChunkLen * q, Width(h)),
           r = Row((counter + h) * ChunkLen, ChunkLen * q, Width(h))
    PROVE  IF h = 1 THEN Join(ChunkLen * (2 * h), l, r) = Row(counter * ChunkLen, ChunkLen * q, 2)
           ELSE Join(ChunkLen * (2 * h), l, r) = Row(counter * ChunkLen, ChunkLen * (2 * q), Width(h))
  <1> DEFINE n == Width(h)
             size == ChunkLen * q
             from == counter * ChunkLen
             len == ChunkLen * (2 * h)
             place == IF ChunkLen * h > ChunkLen /\ degree = 1 THEN 2 ELSE degree
  <1>1. h \in Nat \ {0} /\ q \in Nat \ {0} /\ n \in Nat \ {0} /\ degree \in {1, 4, 8, 16}
    BY PowersType, WidthIs, DegreeIs
  <1>2. n = place /\ (h = 1 => n = 1) /\ (h # 1 => n # 1)
    <2>1. ChunkLen * h > ChunkLen <=> h # 1
      <3>1. h >= 2 => ChunkLen * h >= ChunkLen * 2
        BY <1>1, LengthsType
      <3> QED
        BY <1>1, <3>1, LengthsType
    <2> QED
      BY <1>1, <2>1 DEF Width
  <1> HIDE DEF n
  <1>3. size \in 0 .. MaxLen /\ n * size = ChunkLen * h /\ from \in Nat /\ from + n * size = (counter + h) * ChunkLen
    <2>1. n * (ChunkLen * q) = ChunkLen * (n * q)
      BY <1>1, LengthsType
    <2>2. n * size = ChunkLen * h
      BY <2>1 DEF n
    <2>3. size <= n * size /\ size \in Nat
      BY <1>1, LengthsType
    <2>4. ChunkLen * h <= ChunkLen * (2 * h) /\ ChunkLen * h \in Nat /\ ChunkLen * (2 * h) \in Nat
      BY <1>1, LengthsType
    <2>5. from \in Nat /\ from + ChunkLen * h = (counter + h) * ChunkLen
      BY <1>1, LengthsType
    <2> HIDE DEF size, from
    <2> QED
      BY <1>1, <2>2, <2>3, <2>4, <2>5, MaxLenAssumption
  <1>4. Len(l) = n /\ Len(r) = n
    <2>1. (counter + h) * ChunkLen \in Nat
      BY <1>1, LengthsType
    <2> HIDE DEF size, from
    <2>2. Len(Row(from, size, n)) = n
      BY <1>1, <1>3, RowType
    <2>3. Len(Row((counter + h) * ChunkLen, size, n)) = n
      BY <1>1, <1>3, <2>1, RowType
    <2> QED
      BY <2>2, <2>3 DEF size, from, n
  <1>5. CvArray(l, r, n, 2 * n) = Row(from, size, 2 * n)
    <2> HIDE DEF size, from
    <2>1. CvArray(Row(from, size, n), Row(from + n * size, size, n), n, 2 * n) = Row(from, size, 2 * n)
      BY <1>1, <1>3, JoinRows
    <2> QED
      BY <1>3, <2>1 DEF n, size, from
  <1>6. Join(len, l, r) = IF n = 1 THEN CvArray(l, r, place, 2) ELSE CompressParents(CvArray(l, r, place, n + n))
    <2>1. LeftSubtreeLen(len) = ChunkLen * h
      BY LeftHalf
    <2> HIDE DEF len
    <2> QED
      BY <1>4, <2>1 DEF Join, PairKept
  <1> HIDE DEF place, size, from
  <1>7. CASE h = 1
    <2>1. 2 * n = 2 /\ n = 1
      BY <1>2, <1>7
    <2> QED
      BY <1>2, <1>5, <1>6, <1>7, <2>1 DEF size, from
  <1>8. CASE h # 1
    <2>1. n # 1 /\ n + n = 2 * n
      BY <1>1, <1>2, <1>8
    <2>2. Join(len, l, r) = CompressParents(Row(from, size, 2 * n))
      BY <1>2, <1>5, <1>6, <2>1
    <2>3. ChunkLen * (2 * q) <= MaxLen
      <3>1. q <= n * q
        BY <1>1
      <3>2. 2 * q <= 2 * h
        BY <1>1, <3>1 DEF n
      <3>3. ChunkLen * (2 * q) <= ChunkLen * (2 * h) /\ ChunkLen * (2 * q) \in Nat /\ ChunkLen * (2 * h) \in Nat
        BY <1>1, <3>2, LengthsType
      <3> QED
        BY <3>3, MaxLenAssumption
    <2>4. CompressParents(Row(from, ChunkLen * q, 2 * n)) = Row(from, ChunkLen * (2 * q), n)
      BY <1>1, <1>3, <2>3, CompressParentsIs
    <2> QED
      BY <1>8, <2>2, <2>4 DEF size, from, n
  <1> QED
    BY <1>7, <1>8

LEMMA WideDoubles ==
    ASSUME machine \in Machines, NEW h \in Powers, NEW p \in Powers, p = 2 * h, p > degree, h >= degree,
           ChunkLen * p <= MaxLen, WideIsRow(h)
    PROVE  WideIsRow(p)
  <1>1. degree \in {1, 4, 8, 16} /\ h \in Nat \ {0}
    BY DegreeIs, PowersType
  <1>2. PICK q \in Powers :
          /\ h = Width(h) * q
          /\ \A counter \in Nat :
                SubtreeWide[ChunkLen * h][counter * ChunkLen][counter]
                  = Row(counter * ChunkLen, ChunkLen * q, Width(h))
    BY DEF WideIsRow
  <1>3. ASSUME NEW counter \in Nat
        PROVE  SubtreeWide[ChunkLen * p][counter * ChunkLen][counter]
                 = IF h = 1 THEN Row(counter * ChunkLen, ChunkLen * q, 2)
                   ELSE Row(counter * ChunkLen, ChunkLen * (2 * q), Width(h))
    <2> DEFINE l == SubtreeWide[ChunkLen * h][counter * ChunkLen][counter]
               r == SubtreeWide[ChunkLen * h][(counter + h) * ChunkLen][counter + h]
    <2>1. counter + h \in Nat
      BY <1>1
    <2>2. l = Row(counter * ChunkLen, ChunkLen * q, Width(h))
          /\ r = Row((counter + h) * ChunkLen, ChunkLen * q, Width(h))
      BY <1>2, <2>1
    <2>3. SubtreeWide[ChunkLen * p][counter * ChunkLen][counter] = Join(ChunkLen * p, l, r)
      BY WideStep
    <2> HIDE DEF l, r
    <2>4. IF h = 1 THEN Join(ChunkLen * (2 * h), l, r) = Row(counter * ChunkLen, ChunkLen * q, 2)
          ELSE Join(ChunkLen * (2 * h), l, r) = Row(counter * ChunkLen, ChunkLen * (2 * q), Width(h))
      BY <1>2, <2>2, JoinHalves
    <2> QED
      BY <2>3, <2>4
  <1>4. q \in Nat \ {0} /\ Width(h) \in Nat \ {0}
    BY PowersType, WidthIs
  <1>5. CASE h = 1
    <2>1. degree = 1 /\ Width(h) = 1 /\ Width(p) = 2
      BY <1>1, <1>5 DEF Width
    <2>2. p = Width(p) * q
      BY <1>2, <1>4, <1>5, <2>1
    <2> QED
      BY <1>3, <1>5, <2>1, <2>2 DEF WideIsRow
  <1>6. CASE h # 1
    <2>1. Width(p) = Width(h)
      BY <1>1, <1>6 DEF Width
    <2>2. p = Width(p) * (2 * q)
      BY <1>2, <1>4, <2>1
    <2>3. 2 * q \in Powers
      <3>1. q <= Width(h) * q
        BY <1>4
      <3>2. 2 * q <= p
        BY <1>1, <1>2, <1>4, <3>1
      <3>3. p <= ChunkLen * p /\ ChunkLen * p \in Nat
        BY <1>1, LengthsType
      <3>4. 2 * q <= MaxLen
        BY <1>1, <1>4, <3>2, <3>3, MaxLenAssumption
      <3> QED
        BY <3>4, PowerTwice
    <2> QED
      BY <1>3, <1>6, <2>1, <2>2, <2>3 DEF WideIsRow
  <1> QED
    BY <1>5, <1>6

\* compress_subtree_wide gives nodes of the tree, whatever the width of the kernels.
LEMMA WideRow ==
    ASSUME machine \in Machines, NEW p \in Powers, ChunkLen * p <= MaxLen
    PROVE  WideIsRow(p)
  <1> DEFINE G(x) == ChunkLen * x <= MaxLen => WideIsRow(x)
             N == {k \in 0 .. WordBits - 1 : G(pow2[k])}
  <1>1. ASSUME NEW x \in Powers, x <= degree PROVE G(x)
    <2> SUFFICES ASSUME ChunkLen * x <= MaxLen PROVE WideIsRow(x)
      OBVIOUS
    <2>1. Width(x) = x /\ x \in Nat \ {0} /\ x = x * 1 /\ ChunkLen * 1 = ChunkLen
      BY <1>1, PowersType, LengthsType DEF Width
    <2>2. \A counter \in Nat :
            SubtreeWide[ChunkLen * x][counter * ChunkLen][counter] = Row(counter * ChunkLen, ChunkLen, x)
      BY <1>1, WideStep
    <2> QED
      BY <2>1, <2>2, PowersType DEF WideIsRow
  <1>2. ASSUME NEW k \in Nat, k < WordBits - 1, k \in N PROVE k + 1 \in N
    <2>1. k + 1 \in 0 .. WordBits - 1 /\ k \in 0 .. WordBits - 1
      BY <1>2, WordBitsType
    <2> DEFINE h == pow2[k]
               x == pow2[k + 1]
    <2>2. h \in Powers /\ x \in Powers /\ x = 2 * h
      BY <2>1, Pow2Steps DEF Powers
    <2> HIDE DEF h, x
    <2>3. G(h)
      BY <1>2 DEF h
    <2>4. G(x)
      <3>1. CASE x <= degree
        BY <1>1, <2>2, <3>1
      <3>2. CASE ~(x <= degree)
        <4> SUFFICES ASSUME ChunkLen * x <= MaxLen PROVE WideIsRow(x)
          OBVIOUS
        <4>1. x > degree
          <5>1. degree \in {1, 4, 8, 16} /\ x \in Nat
            BY <2>2, DegreeIs, PowersType
          <5> QED
            BY <3>2, <5>1
        <4>2. h >= degree
          <5>1. PICK y \in Powers : x = 2 * y /\ y >= degree
            BY <2>2, <4>1, PowerAbove
          <5>2. y = h
            BY <2>2, <5>1, PowersType
          <5> QED
            BY <5>1, <5>2
        <4>3. ChunkLen * h <= MaxLen
          <5>1. h \in Nat /\ ChunkLen * (2 * h) = 2 * (ChunkLen * h) /\ ChunkLen * h \in Nat
            BY <2>2, PowersType, LengthsType
          <5> QED
            BY <2>2, <5>1, MaxLenAssumption
        <4> QED
          BY <2>2, <2>3, <4>1, <4>2, <4>3, WideDoubles
      <3> QED
        BY <3>1, <3>2
    <2> QED
      BY <2>1, <2>4 DEF x
  <1>3. 0 \in N
    <2>1. 1 <= degree
      BY DegreeIs
    <2>2. G(1)
      BY <1>1, <2>1, PowersType
    <2> QED
      BY <2>2, Pow2Steps, WordBitsType
  <1>4. \A k \in N : G(pow2[k])
    OBVIOUS
  <1> HIDE DEF N, G
  <1>5. \A k \in 0 .. WordBits - 1 : k \in N
    BY <1>2, <1>3, UpTo, WordBitsType
  <1>6. G(p)
    BY <1>4, <1>5 DEF Powers
  <1> QED
    BY <1>6 DEF G

\* A round of condensing the CVs of a subtree.
Round(cvs) == IF Len(cvs) > 2 THEN CompressParents(cvs) ELSE cvs

Condenses(round, start, bound) ==
    round = [i \in 0 .. bound |-> IF i = 0 THEN start ELSE Round(round[i - 1])]

LEMMA RoundsExist ==
    ASSUME NEW start, NEW bound \in Nat
    PROVE  \E g : Condenses(g, start, bound)
  <1> DEFINE Upto(n) == \E g : \A i \in 0 .. n : g[i] = IF i = 0 THEN start ELSE Round(g[i - 1])
             N == {n \in Nat : Upto(n)}
  <1>1. 0 \in N
    <2> DEFINE h == [i \in {0} |-> start]
    <2>1. \A i \in 0 .. 0 : h[i] = IF i = 0 THEN start ELSE Round(h[i - 1])
      OBVIOUS
    <2> HIDE DEF h
    <2> QED
      BY <2>1
  <1>2. ASSUME NEW n \in Nat, n < bound, n \in N PROVE n + 1 \in N
    <2>1. PICK g : \A i \in 0 .. n : g[i] = IF i = 0 THEN start ELSE Round(g[i - 1])
      BY <1>2
    <2> DEFINE h == [i \in 0 .. n + 1 |-> IF i = n + 1 THEN Round(g[n]) ELSE g[i]]
    <2>2. \A i \in 0 .. n + 1 : h[i] = IF i = 0 THEN start ELSE Round(h[i - 1])
      BY <2>1
    <2> HIDE DEF h
    <2> QED
      BY <2>2
  <1>3. Upto(bound)
    <2> HIDE DEF Upto
    <2>1. \A n \in Nat : n < bound /\ n \in N => n + 1 \in N
      BY <1>2
    <2> HIDE DEF N
    <2>2. bound \in N
      BY <1>1, <2>1, UpTo
    <2> QED
      BY <2>2 DEF N
  <1>4. PICK g : \A i \in 0 .. bound : g[i] = IF i = 0 THEN start ELSE Round(g[i - 1])
    BY <1>3
  <1> DEFINE h == [i \in 0 .. bound |-> g[i]]
  <1>5. h = [i \in 0 .. bound |-> IF i = 0 THEN start ELSE Round(h[i - 1])]
    BY <1>4
  <1> HIDE DEF h
  <1> QED
    BY <1>5 DEF Condenses

\* The two CVs under the top node of a full subtree are those of its halves.
LEMMA SubtreeToParentNodeIs ==
    ASSUME machine \in Machines, NEW h \in Powers, 2 * h \in Powers, ChunkLen * (2 * h) <= MaxLen, NEW counter \in Nat
    PROVE  SubtreeToParentNode(counter * ChunkLen, ChunkLen * (2 * h), counter)
             = <<Tree[ChunkLen * h][counter * ChunkLen], Tree[ChunkLen * h][(counter + h) * ChunkLen]>>
  <1> DEFINE p == 2 * h
             from == counter * ChunkLen
             start == SubtreeWide[ChunkLen * p][from][counter]
             round == CHOOSE g : Condenses(g, start, degree)
  <1>1. degree \in {1, 4, 8, 16} /\ degree \in Nat /\ h \in Nat \ {0} /\ p \in Powers
    BY DegreeIs, PowersType
  <1>2. round = [i \in 0 .. degree |-> IF i = 0 THEN start ELSE Round(round[i - 1])]
    <2> HIDE DEF start, degree
    <2>1. Condenses(round, start, degree)
      BY <1>1, RoundsExist
    <2> HIDE DEF round
    <2> QED
      BY <2>1 DEF Condenses
  <1>3. SubtreeToParentNode(from, ChunkLen * p, counter) = SubSeq(round[degree], 1, 2)
    BY DEF SubtreeToParentNode, Round, Condenses
  <1>4. PICK q \in Powers : p = Width(p) * q /\ start = Row(from, ChunkLen * q, Width(p))
    <2>1. WideIsRow(p)
      BY <1>1, WideRow
    <2> HIDE DEF p
    <2> QED
      BY <2>1 DEF WideIsRow
  <1>5. Width(p) \in {2, 4, 8, 16} /\ (Width(p) > 2 => Width(p) <= degree)
    <2>1. p >= 2
      BY <1>1
    <2> HIDE DEF p
    <2>2. Width(p) \in {2, 4, 8, 16} /\ Width(p) <= IF degree = 1 THEN 2 ELSE degree
      BY <1>1, <2>1, WidthIs
    <2> QED
      BY <1>1, <2>2
  <1> DEFINE IsRow(i, n, s) == /\ p = n * s /\ n \in {2, 4, 8, 16}
                               /\ n > 2 => n + i <= degree
                               /\ round[i] = Row(from, ChunkLen * s, n)
             N == {i \in 0 .. degree : \E n \in Nat, s \in Powers : IsRow(i, n, s)}
  <1> HIDE DEF p, round, start
  <1>6. from \in Nat /\ p \in Nat
    BY <1>1, LengthsType DEF p
  <1>7. 0 \in N
    <2> DEFINE n == Width(p)
    <2>1. n \in Nat /\ n \in {2, 4, 8, 16} /\ (n > 2 => n + 0 <= degree) /\ p = n * q
      BY <1>4, <1>5
    <2>2. round[0] = Row(from, ChunkLen * q, n)
      BY <1>1, <1>2, <1>4
    <2> HIDE DEF n
    <2> QED
      BY <1>1, <2>1, <2>2
  <1>8. ASSUME NEW i \in Nat, i < degree, i \in N PROVE i + 1 \in N
    <2>1. PICK n \in Nat, s \in Powers : IsRow(i, n, s)
      BY <1>8
    <2>2. s \in Nat \ {0} /\ i + 1 \in 0 .. degree
      BY <1>1, <1>8, PowersType
    <2>3. ChunkLen * s \in 0 .. MaxLen
      <3>1. s <= n * s
        BY <2>1, <2>2
      <3>2. ChunkLen * s <= ChunkLen * p /\ ChunkLen * s \in Nat /\ ChunkLen * p \in Nat
        BY <1>6, <2>1, <2>2, <3>1, LengthsType
      <3> QED
        BY <3>2, MaxLenAssumption DEF p
    <2>4. Len(round[i]) = n
      <3> DEFINE size == ChunkLen * s
      <3> HIDE DEF size
      <3>1. Len(Row(from, size, n)) = n
        BY <1>6, <2>1, <2>3, RowType DEF size
      <3> QED
        BY <2>1, <3>1 DEF size
    <2>5. round[i + 1] = Round(round[i])
      <3>1. (i + 1) - 1 = i /\ i + 1 # 0
        BY <1>8
      <3> QED
        BY <1>2, <2>2, <3>1
    <2>6. CASE n = 2
      <3>1. IsRow(i + 1, n, s)
        BY <2>1, <2>4, <2>5, <2>6 DEF Round
      <3> QED
        BY <2>2, <3>1
    <2>7. CASE n > 2
      <3>1. PICK m \in {2, 4, 8} : n = 2 * m
        BY <2>1, <2>7
      <3>2. n * s = m * (2 * s) /\ 2 * s <= n * s
        BY <2>2, <3>1
      <3>3. ChunkLen * (2 * s) <= MaxLen /\ 2 * s <= MaxLen
        <4>1. ChunkLen * (2 * s) <= ChunkLen * p /\ ChunkLen * (2 * s) \in Nat /\ ChunkLen * p \in Nat
          BY <1>6, <2>1, <2>2, <3>2, LengthsType
        <4>2. 2 * s <= ChunkLen * (2 * s)
          BY <2>2, LengthsType
        <4> QED
          BY <2>2, <4>1, <4>2, MaxLenAssumption DEF p
      <3>4. 2 * s \in Powers
        BY <3>3, PowerTwice
      <3>5. CompressParents(Row(from, ChunkLen * s, 2 * m)) = Row(from, ChunkLen * (2 * s), m)
        <4>1. m \in Nat
          BY <3>1
        <4> HIDE DEF from
        <4> QED
          BY <1>6, <3>3, <4>1, CompressParentsIs
      <3>6. round[i + 1] = Row(from, ChunkLen * (2 * s), m)
        BY <2>1, <2>4, <2>5, <2>7, <3>1, <3>5 DEF Round
      <3>7. m > 2 => m + (i + 1) <= degree
        BY <1>1, <2>1, <2>7, <3>1
      <3>8. IsRow(i + 1, m, 2 * s) /\ m \in Nat
        BY <2>1, <3>1, <3>2, <3>6, <3>7
      <3> QED
        BY <2>2, <3>4, <3>8
    <2> QED
      BY <2>1, <2>6, <2>7
  <1>9. \A i \in N : \E n \in Nat, s \in Powers : IsRow(i, n, s)
    OBVIOUS
  <1>10. degree \in N
    <2> HIDE DEF N
    <2> QED
      BY <1>1, <1>7, <1>8, UpTo
  <1>11. PICK n \in Nat, s \in Powers : IsRow(degree, n, s)
    <2> HIDE DEF N, IsRow
    <2> QED
      BY <1>9, <1>10
  <1>12. n = 2 /\ s = h
    <2>1. s \in Nat
      BY PowersType
    <2>2. n = 2
      BY <1>1, <1>11
    <2> QED
      BY <1>1, <1>11, <2>1, <2>2 DEF p
  <1>13. round[degree] = Row(from, ChunkLen * h, 2)
    BY <1>11, <1>12
  <1>14. SubSeq(Row(from, ChunkLen * h, 2), 1, 2) = <<Tree[ChunkLen * h][from], Tree[ChunkLen * h][(counter + h) * ChunkLen]>>
    <2> DEFINE size == ChunkLen * h
    <2>1. size \in 0 .. MaxLen /\ from + size = (counter + h) * ChunkLen
      <3>1. size \in Nat /\ ChunkLen * (2 * h) = 2 * size /\ ChunkLen * (2 * h) \in Nat
        BY <1>1, LengthsType
      <3>2. from + size = (counter + h) * ChunkLen
        BY <1>1, LengthsType
      <3> QED
        BY <3>1, <3>2, MaxLenAssumption
    <2> DEFINE row == Row(from, size, 2)
    <2> HIDE DEF from, size
    <2>2. row \in Seq(Nodes) /\ Len(row) = 2 /\ row[1] = Tree[size][from + (1 - 1) * size]
          /\ row[2] = Tree[size][from + (2 - 1) * size]
      <3> DEFINE two == 2
                 r == Row(from, size, two)
      <3>1. two \in Nat /\ 1 \in 1 .. two /\ 2 \in 1 .. two
        OBVIOUS
      <3> HIDE DEF two
      <3>2. r \in Seq(Nodes) /\ Len(r) = two /\ \A i \in 1 .. two : r[i] = Tree[size][from + (i - 1) * size]
        BY <1>6, <2>1, <3>1, RowType
      <3> HIDE DEF r
      <3>3. r[1] = Tree[size][from + (1 - 1) * size] /\ r[2] = Tree[size][from + (2 - 1) * size]
        BY <3>1, <3>2
      <3> QED
        BY <3>2, <3>3 DEF r, two
    <2>3. from + (1 - 1) * size = from /\ from + (2 - 1) * size = from + size
      BY <1>6, <2>1
    <2> HIDE DEF row
    <2>4. SubSeq(row, 1, 1 + 1) = <<row[1], row[1 + 1]>>
      <3>1. 1 \in 1 .. Len(row) - 1
        BY <2>2
      <3> QED
        BY <2>2, <3>1, PairIs
    <2>5. 1 + 1 = 2
      OBVIOUS
    <2>6. SubSeq(row, 1, 2) = <<row[1], row[2]>>
      BY <2>4, <2>5
    <2> QED
      BY <2>1, <2>2, <2>3, <2>6 DEF row, size, from
  <1> QED
    BY <1>3, <1>13, <1>14 DEF p

-----------------------------------------------------------------------------
(* The stack.                                                              *)

\* The stack holds full subtrees, one after the other: the i-th is that of the
\* chunks b[i - 1] to b[i], and lies at a multiple of its size.  What is above
\* it is at most as large: merging is lazy by one CV.
Stacked(cvs, b, counter) ==
    /\ cvs \in Seq(Nodes)
    /\ b \in [0 .. Len(cvs) -> 0 .. counter] /\ b[0] = 0 /\ b[Len(cvs)] = counter
    /\ \A i \in 1 .. Len(cvs) :
          /\ b[i] - b[i - 1] \in Powers /\ Multiple(b[i - 1], b[i] - b[i - 1])
          /\ cvs[i] = Tree[ChunkLen * (b[i] - b[i - 1])][b[i - 1] * ChunkLen]
          /\ i < Len(cvs) => counter - b[i] <= b[i] - b[i - 1]

LEMMA StackedSizes ==
    ASSUME NEW cvs, NEW b, NEW counter \in Nat, Stacked(cvs, b, counter), NEW i \in 1 .. Len(cvs)
    PROVE  /\ Len(cvs) \in Nat
           /\ b[i] \in Nat /\ b[i - 1] \in Nat /\ b[i] <= counter /\ b[i - 1] < b[i]
           /\ b[i] - b[i - 1] \in Nat \ {0} /\ b[i] - b[i - 1] \in Powers
           /\ Multiple(b[i - 1], b[i] - b[i - 1]) /\ Multiple(b[i], b[i] - b[i - 1])
           /\ i < Len(cvs) => b[i + 1] - b[i] > 0 /\ b[i + 1] <= counter /\ b[i + 1] \in Nat
  <1> DEFINE m == Len(cvs)
  <1>1. m \in Nat /\ b \in [0 .. m -> 0 .. counter]
    BY DEF Stacked
  <1>2. \A j \in 1 .. m : b[j] - b[j - 1] \in Powers /\ Multiple(b[j - 1], b[j] - b[j - 1])
    BY DEF Stacked
  <1> HIDE DEF m
  <1>3. \A j \in 0 .. m : b[j] \in Nat /\ b[j] <= counter
    BY <1>1
  <1>4. i \in 1 .. m /\ i \in 0 .. m /\ i - 1 \in 0 .. m /\ (i < m => i + 1 \in 1 .. m /\ i + 1 \in 0 .. m /\ (i + 1) - 1 = i)
    BY <1>1 DEF m
  <1> DEFINE s == b[i] - b[i - 1]
  <1>5. s \in Powers /\ s \in Nat \ {0} /\ Multiple(b[i - 1], s) /\ b[i] \in Nat /\ b[i - 1] \in Nat /\ b[i] = b[i - 1] + s
    BY <1>2, <1>3, <1>4, PowersType
  <1>6. Multiple(b[i], s)
    <2> HIDE DEF s
    <2>1. Multiple(b[i - 1] + s, s)
      BY <1>5, MultipleSelf, MultipleSum
    <2> QED
      BY <1>5, <2>1
  <1>7. i < m => b[i + 1] - b[i] \in Powers
    BY <1>2, <1>4
  <1> QED
    BY <1>1, <1>3, <1>4, <1>5, <1>6, <1>7, PowersType DEF m

\* Below the top two, a subtree is smaller than the one under it.
LEMMA StackedApart ==
    ASSUME NEW cvs, NEW b, NEW counter \in Nat, Stacked(cvs, b, counter), NEW i \in 1 .. Len(cvs),
           i = Len(cvs) => i > 1 /\ b[i - 1] - b[i - 2] # b[i] - b[i - 1]
    PROVE  Multiple(b[i - 1], 2 * (b[i] - b[i - 1]))
  <1> DEFINE s == b[i] - b[i - 1]
             t == b[i - 1] - b[i - 2]
  <1>1. s \in Nat \ {0} /\ s \in Powers /\ b[i] \in Nat /\ b[i - 1] \in Nat /\ Len(cvs) \in Nat /\ b[i] <= counter
    BY StackedSizes
  <1>2. CASE i = 1
    <2>1. b[i - 1] = 0
      BY <1>2 DEF Stacked
    <2> QED
      BY <1>1, <2>1, MultipleSelf
  <1>3. CASE i # 1
    <2>1. i - 1 \in 1 .. Len(cvs) /\ (i - 1) - 1 = i - 2 /\ i - 1 < Len(cvs) /\ (i - 1) + 1 = i
      BY <1>1, <1>3
    <2>2. t \in Nat \ {0} /\ t \in Powers /\ Multiple(b[i - 1], t)
      <3> DEFINE j == i - 1
      <3> HIDE DEF j
      <3>1. b[j] - b[j - 1] \in Nat \ {0} /\ b[j] - b[j - 1] \in Powers /\ Multiple(b[j], b[j] - b[j - 1])
        BY <2>1, StackedSizes DEF j
      <3> QED
        BY <2>1, <3>1 DEF j
    <2>3. counter - b[i - 1] <= t
      <3> DEFINE j == i - 1
      <3>1. \A k \in 1 .. Len(cvs) : k < Len(cvs) => counter - b[k] <= b[k] - b[k - 1]
        BY DEF Stacked
      <3> HIDE DEF j
      <3>2. counter - b[j] <= b[j] - b[j - 1]
        BY <2>1, <3>1 DEF j
      <3> QED
        BY <2>1, <3>2 DEF j
    <2>4. s < t
      <3>1. CASE i = Len(cvs)
        <4>1. s # t
          BY <3>1
        <4> HIDE DEF s, t
        <4>2. s = counter - b[i - 1]
          BY <3>1 DEF Stacked, s
        <4> QED
          BY <1>1, <2>2, <2>3, <4>1, <4>2
      <3>2. CASE i < Len(cvs)
        <4>1. b[i + 1] - b[i] > 0 /\ b[i + 1] <= counter /\ b[i + 1] \in Nat
          BY <3>2, StackedSizes
        <4>2. s = b[i] - b[i - 1] /\ t \in Nat
          BY <2>2
        <4> HIDE DEF s, t
        <4> QED
          BY <1>1, <2>3, <4>1, <4>2
      <3> QED
        BY <1>1, <3>1, <3>2
    <2> HIDE DEF s, t
    <2>5. Multiple(t, 2 * s)
      BY <1>1, <2>2, <2>4, PowersApart
    <2>6. 2 * s \in Nat
      BY <1>1
    <2>7. Multiple(b[i - 1], 2 * s)
      BY <1>1, <2>2, <2>5, <2>6, MultipleOfMultiple
    <2> QED
      BY <2>7 DEF s
  <1> QED
    BY <1>2, <1>3

LEMMA StackedPopcnt ==
    ASSUME NEW cvs, NEW b, NEW counter \in Nat, counter <= MaxLen, Stacked(cvs, b, counter),
           NEW i \in 0 .. Len(cvs), i = 0 \/ i < Len(cvs)
    PROVE  popcnt[b[i]] = i
  <1> DEFINE N == {j \in 0 .. i : popcnt[b[j]] = j}
  <1>1. 0 \in N
    BY PopcntSteps DEF Stacked
  <1>2. ASSUME NEW j \in Nat, j < i, j \in N PROVE j + 1 \in N
    <2> DEFINE k == j + 1
               s == b[k] - b[k - 1]
    <2>1. k \in 1 .. Len(cvs) /\ k # Len(cvs) /\ k - 1 = j /\ k \in 0 .. i
      <3>1. Len(cvs) \in Nat
        BY DEF Stacked
      <3> QED
        BY <1>2, <3>1
    <2> HIDE DEF k
    <2>2. Multiple(b[k - 1], 2 * s)
      BY <2>1, StackedApart
    <2>3. s \in Powers /\ s \in Nat /\ Multiple(b[k - 1], s) /\ b[k - 1] \in Nat /\ b[k] \in Nat /\ b[k] <= counter
      BY <2>1, StackedSizes
    <2>4. b[k - 1] + s = b[k] /\ b[k] <= MaxLen
      BY <2>3, MaxLenAssumption
    <2> HIDE DEF s
    <2>5. popcnt[b[k - 1] + s] = popcnt[b[k - 1]] + 1
      BY <2>2, <2>3, <2>4, PopcntAdd
    <2>6. popcnt[b[k]] = k
      BY <1>2, <2>1, <2>4, <2>5
    <2> QED
      BY <2>1, <2>6 DEF k
  <1>3. i \in Nat
    BY DEF Stacked
  <1>4. \A j \in N : popcnt[b[j]] = j
    OBVIOUS
  <1> HIDE DEF N
  <1>5. \A j \in Nat : j < i /\ j \in N => j + 1 \in N
    BY <1>2
  <1>6. \A j \in 0 .. i : j \in N
    BY <1>1, <1>3, <1>5, UpTo
  <1> QED
    BY <1>3, <1>4, <1>6

\* Two subtrees of a size make a larger one, which counts as one.
LEMMA StackedTwice ==
    ASSUME NEW cvs, NEW b, NEW counter \in Nat, counter <= MaxLen, Stacked(cvs, b, counter),
           NEW i \in 1 .. Len(cvs), i < Len(cvs), counter = b[i] + (b[i] - b[i - 1])
    PROVE  /\ popcnt[counter] <= i
           /\ 2 * (b[i] - b[i - 1]) \in Powers /\ Multiple(b[i - 1], 2 * (b[i] - b[i - 1]))
  <1> DEFINE s == b[i] - b[i - 1]
  <1>1. Len(cvs) \in Nat
    BY DEF Stacked
  <1>2. s \in Nat \ {0} /\ s \in Powers /\ b[i] \in Nat /\ b[i - 1] \in Nat
    BY StackedSizes
  <1>3. Multiple(b[i - 1], 2 * s)
    <2>1. i # Len(cvs)
      BY <1>1
    <2> QED
      BY <2>1, StackedApart
  <1>4. i - 1 \in 0 .. Len(cvs) /\ i - 1 < Len(cvs)
    BY <1>1
  <1>5. popcnt[b[i - 1]] = i - 1
    <2> DEFINE j == i - 1
    <2> HIDE DEF j
    <2>1. popcnt[b[j]] = j
      BY <1>4, StackedPopcnt DEF j
    <2> QED
      BY <2>1 DEF j
  <1>6. b[i - 1] + 2 * s = counter
    BY <1>2
  <1> HIDE DEF s
  <1>7. 2 * s \in Powers
    BY <1>2, <1>6, PowerTwice, MaxLenAssumption
  <1>8. popcnt[b[i - 1] + 2 * s] <= popcnt[b[i - 1]] + 1
    <2> DEFINE p == 2 * s
               x == b[i - 1]
    <2>1. p \in Powers /\ x \in Nat /\ x + p <= MaxLen /\ Multiple(x, p)
      BY <1>2, <1>3, <1>6, <1>7
    <2> HIDE DEF p, x
    <2>2. popcnt[x + p] <= popcnt[x] + 1
      BY <2>1, PopcntAdd
    <2> QED
      BY <2>2 DEF p, x
  <1>9. popcnt[counter] <= i
    BY <1>5, <1>6, <1>8
  <1> QED
    BY <1>3, <1>7, <1>9 DEF s

\* merge_cv_stack merges the top two as long as there are more CVs than ones
\* in the number of chunks, which is as long as these two are of a size.
LEMMA StackedSettled ==
    ASSUME NEW cvs, NEW b, NEW counter \in Nat, counter <= MaxLen, Stacked(cvs, b, counter)
    PROVE  /\ popcnt[counter] \in Nat /\ popcnt[counter] <= Len(cvs)
           /\ popcnt[counter] < Len(cvs) =>
                /\ Len(cvs) >= 2
                /\ counter = b[Len(cvs) - 1] + (b[Len(cvs) - 1] - b[Len(cvs) - 2])
           /\ popcnt[counter] = Len(cvs) =>
                \A i \in 1 .. Len(cvs) : counter - b[i] < b[i] - b[i - 1]
  <1> DEFINE m == Len(cvs)
  <1>1. m \in Nat /\ b[m] = counter /\ b[0] = 0
    BY DEF Stacked
  <1>2. popcnt[counter] \in Nat
    BY PopcntSteps, MaxLenAssumption
  <1>3. CASE m = 0
    <2>1. popcnt[counter] = 0
      BY <1>1, <1>3, PopcntSteps
    <2> QED
      BY <1>3, <2>1
  <1>4. CASE m # 0
    <2> DEFINE Equal == m >= 2 /\ counter = b[m - 1] + (b[m - 1] - b[m - 2])
    <2>1. m \in 1 .. m /\ m - 1 \in 0 .. m /\ (m - 1 = 0 \/ m - 1 < m)
      BY <1>1, <1>4
    <2>2. CASE Equal
      <3> DEFINE i == m - 1
      <3>1. i \in 1 .. m /\ i < m /\ i - 1 = m - 2
        BY <1>1, <2>2
      <3>2. counter = b[i] + (b[i] - b[i - 1])
        BY <2>2, <3>1
      <3> HIDE DEF i
      <3>3. popcnt[counter] <= i
        BY <3>1, <3>2, StackedTwice
      <3> QED
        BY <1>1, <1>2, <2>2, <3>1, <3>3
    <2>3. CASE ~Equal
      <3> DEFINE s == b[m] - b[m - 1]
      <3>1. s \in Powers /\ s \in Nat /\ Multiple(b[m - 1], s) /\ b[m - 1] \in Nat
        BY <2>1, StackedSizes
      <3>2. Multiple(b[m - 1], 2 * s)
        <4>1. CASE m = 1
          <5>1. b[m - 1] = 0
            BY <1>1, <4>1
          <5> QED
            BY <3>1, <5>1, MultipleSelf
        <4>2. CASE m > 1
          <5>1. b[m - 1] - b[m - 2] # b[m] - b[m - 1]
            <6>1. m - 1 \in 1 .. m /\ (m - 1) - 1 = m - 2
              BY <1>1, <4>2
            <6>2. b[m - 2] \in Nat
              <7> DEFINE j == m - 1
              <7> HIDE DEF j
              <7>1. b[j - 1] \in Nat
                BY <6>1, StackedSizes DEF j
              <7> QED
                BY <6>1, <7>1 DEF j
            <6> QED
              BY <1>1, <2>3, <3>1, <4>2, <6>2
          <5> QED
            BY <2>1, <4>2, <5>1, StackedApart
        <4> HIDE DEF s, m
        <4> QED
          BY <1>1, <1>4, <4>1, <4>2
      <3>3. b[m - 1] + s = counter
        BY <1>1, <3>1
      <3> HIDE DEF s
      <3>4. popcnt[b[m - 1] + s] = popcnt[b[m - 1]] + 1
        BY <3>1, <3>2, <3>3, PopcntAdd
      <3>5. popcnt[b[m - 1]] = m - 1
        <4> DEFINE j == m - 1
        <4> HIDE DEF j
        <4>1. popcnt[b[j]] = j
          BY <2>1, StackedPopcnt DEF j
        <4> QED
          BY <4>1 DEF j
      <3>6. popcnt[counter] = m
        BY <1>1, <3>3, <3>4, <3>5
      <3>7. ASSUME NEW i \in 1 .. m PROVE counter - b[i] < b[i] - b[i - 1]
        <4>1. b[i] \in Nat /\ b[i - 1] \in Nat /\ b[i - 1] < b[i]
          BY StackedSizes
        <4>2. CASE i = m
          BY <1>1, <4>1, <4>2
        <4>3. CASE i < m
          <5>1. counter - b[i] <= b[i] - b[i - 1]
            BY <4>3 DEF Stacked
          <5>2. counter # b[i] + (b[i] - b[i - 1])
            <6>1. ASSUME counter = b[i] + (b[i] - b[i - 1]) PROVE FALSE
              <7>1. popcnt[counter] <= i
                BY <4>3, <6>1, StackedTwice
              <7> QED
                BY <1>1, <3>6, <4>3, <7>1
            <6> QED
              BY <6>1
          <5> QED
            BY <4>1, <5>1, <5>2
        <4> QED
          BY <1>1, <4>2, <4>3
      <3> QED
        BY <1>1, <1>2, <3>6, <3>7
    <2> QED
      BY <2>2, <2>3
  <1> QED
    BY <1>3, <1>4

LEMMA ChunksFit ==
    ASSUME NEW counter \in Nat, counter * ChunkLen <= MaxLen
    PROVE  counter \in 0 .. MaxLen /\ \A n \in Nat : n <= counter => ChunkLen * n <= MaxLen /\ ChunkLen * n \in 0 .. MaxLen
  <1>1. counter <= counter * ChunkLen /\ counter * ChunkLen \in Nat
    BY LengthsType
  <1>2. \A n \in Nat : n <= counter => ChunkLen * n <= counter * ChunkLen /\ ChunkLen * n \in Nat
    BY LengthsType
  <1> QED
    BY <1>1, <1>2, MaxLenAssumption

LEMMA FrontIs ==
    ASSUME NEW S, NEW s \in Seq(S), NEW n \in 0 .. Len(s)
    PROVE  /\ SubSeq(s, 1, n) \in Seq(S) /\ Len(SubSeq(s, 1, n)) = n
           /\ \A i \in 1 .. n : SubSeq(s, 1, n)[i] = s[i]
  <1>1. Len(s) \in Nat
    OBVIOUS
  <1> QED
    BY <1>1

LEMMA MergeTopIs ==
    ASSUME NEW cvs, NEW b, NEW counter \in Nat, counter * ChunkLen <= MaxLen, Stacked(cvs, b, counter),
           popcnt[counter] < Len(cvs)
    PROVE  /\ Len(MergeTop(cvs)) = Len(cvs) - 1
           /\ \E c : Stacked(MergeTop(cvs), c, counter)
  <1> DEFINE m == Len(cvs)
             s == b[m - 1] - b[m - 2]
             front == SubSeq(cvs, 1, m - 2)
             e == Parent(SubSeq(cvs, m - 1, m))
             c == [i \in 0 .. m - 1 |-> IF i = m - 1 THEN counter ELSE b[i]]
             n == m - 1
  <1>1. /\ cvs \in Seq(Nodes) /\ m \in Nat /\ b \in [0 .. m -> 0 .. counter] /\ b[0] = 0 /\ b[m] = counter
        /\ \A i \in 1 .. m :
              /\ b[i] - b[i - 1] \in Powers /\ Multiple(b[i - 1], b[i] - b[i - 1])
              /\ cvs[i] = Tree[ChunkLen * (b[i] - b[i - 1])][b[i - 1] * ChunkLen]
              /\ i < m => counter - b[i] <= b[i] - b[i - 1]
    BY DEF Stacked
  <1>2. counter <= MaxLen
    BY ChunksFit, MaxLenAssumption
  <1>3. m >= 2 /\ counter = b[m - 1] + s
    BY <1>2, StackedSettled
  <1> HIDE DEF m
  <1>4. n \in 1 .. m /\ n < m /\ n - 1 = m - 2 /\ m - 2 \in 0 .. m /\ n \in 0 .. m /\ m \in 1 .. m
    BY <1>1, <1>3
  <1>5. /\ b[n] \in Nat /\ b[m - 2] \in Nat /\ b[m - 2] < b[n] /\ s \in Nat \ {0} /\ s \in Powers
        /\ Multiple(b[m - 2], s)
    <2> HIDE DEF n
    <2>1. /\ b[n] \in Nat /\ b[n - 1] \in Nat /\ b[n - 1] < b[n] /\ b[n] - b[n - 1] \in Nat \ {0}
          /\ b[n] - b[n - 1] \in Powers /\ Multiple(b[n - 1], b[n] - b[n - 1])
      BY <1>4, StackedSizes DEF m
    <2> QED
      BY <1>4, <2>1 DEF n
  <1>6. 2 * s \in Powers /\ Multiple(b[m - 2], 2 * s) /\ counter - b[m - 2] = 2 * s
    <2> HIDE DEF n
    <2>1. counter = b[n] + (b[n] - b[n - 1])
      BY <1>3, <1>4 DEF n
    <2>2. 2 * (b[n] - b[n - 1]) \in Powers /\ Multiple(b[n - 1], 2 * (b[n] - b[n - 1]))
      BY <1>2, <1>4, <2>1, StackedTwice DEF m
    <2> QED
      BY <1>3, <1>4, <1>5, <2>2 DEF n
  <1>7. e = Tree[ChunkLen * (2 * s)][b[m - 2] * ChunkLen] /\ e \in Nodes
    <2>1. SubSeq(cvs, m - 1, m) = <<cvs[m - 1], cvs[m]>>
      <3> HIDE DEF n
      <3>1. n \in 1 .. Len(cvs) - 1 /\ n + 1 = m
        BY <1>1, <1>4 DEF m, n
      <3>2. SubSeq(cvs, n, n + 1) = <<cvs[n], cvs[n + 1]>>
        BY <1>1, <3>1, PairIs
      <3> QED
        BY <3>1, <3>2 DEF n
    <2>2. cvs[m - 1] = Tree[ChunkLen * s][b[m - 2] * ChunkLen]
      <3> HIDE DEF n
      <3>1. cvs[n] = Tree[ChunkLen * (b[n] - b[n - 1])][b[n - 1] * ChunkLen]
        BY <1>1, <1>4
      <3> QED
        BY <1>4, <3>1 DEF n
    <2>3. cvs[m] = Tree[ChunkLen * s][b[m - 1] * ChunkLen]
      <3>1. b[m] - b[m - 1] = s
        BY <1>1, <1>3, <1>5
      <3> QED
        BY <1>1, <1>4, <3>1
    <2> DEFINE from == b[m - 2] * ChunkLen
    <2>4. from \in Nat /\ from + ChunkLen * s = b[m - 1] * ChunkLen
      <3>1. b[m - 2] * ChunkLen + ChunkLen * s = (b[m - 2] + s) * ChunkLen
        BY <1>5, LengthsType
      <3>2. b[m - 2] + s = b[m - 1]
        BY <1>5
      <3> QED
        BY <1>5, <3>1, <3>2, LengthsType
    <2>5. ChunkLen * (2 * s) \in 0 .. MaxLen
      <3>1. 2 * s \in Nat /\ 2 * s <= counter
        BY <1>5, <1>6
      <3> QED
        BY <3>1, ChunksFit
    <2> HIDE DEF from, s
    <2>6. Tree[ChunkLen * (2 * s)][from] = Parent(<<Tree[ChunkLen * s][from], Tree[ChunkLen * s][from + ChunkLen * s]>>)
      BY <1>5, <2>4, <2>5, ParentTree, MaxLenAssumption
    <2>7. Tree[ChunkLen * (2 * s)][from] \in Nodes
      BY <2>4, <2>5, NodesAre
    <2> QED
      BY <2>1, <2>2, <2>3, <2>4, <2>6, <2>7 DEF from
  <1>8. front \in Seq(Nodes) /\ Len(front) = m - 2 /\ \A i \in 1 .. m - 2 : front[i] = cvs[i]
    <2> DEFINE k == m - 2
    <2>1. k \in 0 .. Len(cvs)
      BY <1>1, <1>3 DEF m
    <2> HIDE DEF k
    <2>2. /\ SubSeq(cvs, 1, k) \in Seq(Nodes) /\ Len(SubSeq(cvs, 1, k)) = k
          /\ \A i \in 1 .. k : SubSeq(cvs, 1, k)[i] = cvs[i]
      BY <1>1, <2>1, FrontIs
    <2> QED
      BY <2>2 DEF k
  <1> DEFINE new == Append(front, e)
  <1> HIDE DEF front, e
  <1>9. /\ new \in Seq(Nodes) /\ Len(new) = m - 1 /\ new[m - 1] = e
        /\ \A i \in 1 .. m - 2 : new[i] = cvs[i]
    <2>1. /\ new \in Seq(Nodes) /\ Len(new) = Len(front) + 1
          /\ \A i \in 1 .. Len(front) : new[i] = front[i]
          /\ new[Len(front) + 1] = e
      BY <1>7, <1>8, AppendProperties
    <2>2. (m - 2) + 1 = m - 1
      BY <1>1
    <2> HIDE DEF new
    <2>3. Len(new) = m - 1 /\ new[m - 1] = e
      BY <1>8, <2>1, <2>2
    <2>4. \A i \in 1 .. m - 2 : new[i] = cvs[i]
      BY <1>8, <2>1
    <2> QED
      BY <2>1, <2>3, <2>4
  <1>10. MergeTop(cvs) = new
    BY DEF MergeTop, m, front, e
  <1> HIDE DEF new
  <1>11. Stacked(new, c, counter)
    <2>1. c \in [0 .. m - 1 -> 0 .. counter] /\ c[0] = 0 /\ c[m - 1] = counter /\ \A i \in 0 .. m - 2 : c[i] = b[i]
      <3>1. \A i \in 0 .. m - 1 : i \in 0 .. m /\ b[i] \in 0 .. counter
        BY <1>1
      <3> QED
        BY <1>1, <1>3, <3>1
    <2> HIDE DEF c, s
    <2>2. ASSUME NEW i \in 1 .. m - 1
          PROVE  /\ c[i] - c[i - 1] \in Powers /\ Multiple(c[i - 1], c[i] - c[i - 1])
                 /\ new[i] = Tree[ChunkLen * (c[i] - c[i - 1])][c[i - 1] * ChunkLen]
                 /\ i < m - 1 => counter - c[i] <= c[i] - c[i - 1]
      <3>1. CASE i = m - 1
        <4>1. c[i] = counter /\ c[i - 1] = b[m - 2] /\ new[i] = e /\ i - 1 = m - 2
          BY <1>3, <1>9, <2>1, <3>1
        <4> QED
          BY <1>6, <1>7, <3>1, <4>1
      <3>2. CASE i < m - 1
        <4>1. i \in 1 .. m - 2 /\ i \in 1 .. m /\ i < m /\ i - 1 \in 0 .. m - 2 /\ i \in 0 .. m - 2
          BY <1>1, <3>2
        <4>2. c[i] = b[i] /\ c[i - 1] = b[i - 1] /\ new[i] = cvs[i]
          BY <1>9, <2>1, <4>1
        <4> QED
          BY <1>1, <4>1, <4>2
      <3> QED
        BY <1>1, <3>1, <3>2
    <2> QED
      BY <1>9, <2>1, <2>2 DEF Stacked
  <1> QED
    BY <1>9, <1>10, <1>11 DEF m

OnStack(cvs, counter) == \E b : Stacked(cvs, b, counter)

LEMMA MergesExist ==
    ASSUME NEW cvs, NEW bound \in Nat
    PROVE  LET merged == CHOOSE g : g = [i \in 0 .. bound |-> IF i = 0 THEN cvs ELSE MergeTop(g[i - 1])]
           IN merged = [i \in 0 .. bound |-> IF i = 0 THEN cvs ELSE MergeTop(merged[i - 1])]
  <1> DEFINE Upto(n) == \E g : \A i \in 0 .. n : g[i] = IF i = 0 THEN cvs ELSE MergeTop(g[i - 1])
             N == {n \in Nat : Upto(n)}
  <1>1. 0 \in N
    <2> DEFINE h == [i \in {0} |-> cvs]
    <2>1. \A i \in 0 .. 0 : h[i] = IF i = 0 THEN cvs ELSE MergeTop(h[i - 1])
      OBVIOUS
    <2> HIDE DEF h
    <2> QED
      BY <2>1
  <1>2. ASSUME NEW n \in Nat, n < bound, n \in N PROVE n + 1 \in N
    <2>1. PICK g : \A i \in 0 .. n : g[i] = IF i = 0 THEN cvs ELSE MergeTop(g[i - 1])
      BY <1>2
    <2> DEFINE h == [i \in 0 .. n + 1 |-> IF i = n + 1 THEN MergeTop(g[n]) ELSE g[i]]
    <2>2. \A i \in 0 .. n + 1 : h[i] = IF i = 0 THEN cvs ELSE MergeTop(h[i - 1])
      BY <2>1
    <2> HIDE DEF h
    <2> QED
      BY <2>2
  <1>3. Upto(bound)
    <2> HIDE DEF Upto
    <2>1. \A n \in Nat : n < bound /\ n \in N => n + 1 \in N
      BY <1>2
    <2> HIDE DEF N
    <2>2. bound \in N
      BY <1>1, <2>1, UpTo
    <2> QED
      BY <2>2 DEF N
  <1>4. PICK g : \A i \in 0 .. bound : g[i] = IF i = 0 THEN cvs ELSE MergeTop(g[i - 1])
    BY <1>3
  <1> DEFINE h == [i \in 0 .. bound |-> g[i]]
  <1>5. h = [i \in 0 .. bound |-> IF i = 0 THEN cvs ELSE MergeTop(h[i - 1])]
    BY <1>4
  <1> HIDE DEF h
  <1> QED
    BY <1>5

LEMMA MergeCvStackIs ==
    ASSUME NEW cvs, NEW counter \in Nat, counter * ChunkLen <= MaxLen, OnStack(cvs, counter)
    PROVE  /\ OnStack(MergeCvStack(cvs, counter), counter)
           /\ Len(MergeCvStack(cvs, counter)) = popcnt[counter]
           /\ Len(cvs) = popcnt[counter] => MergeCvStack(cvs, counter) = cvs
  <1> DEFINE total == popcnt[counter]
             n == IF Len(cvs) > total THEN Len(cvs) - total ELSE 0
             merged == CHOOSE g : g = [i \in 0 .. n |-> IF i = 0 THEN cvs ELSE MergeTop(g[i - 1])]
  <1>1. counter <= MaxLen
    BY ChunksFit, MaxLenAssumption
  <1>2. total \in Nat /\ Len(cvs) \in Nat /\ total <= Len(cvs)
    <2>1. PICK b : Stacked(cvs, b, counter)
      BY DEF OnStack
    <2>2. popcnt[counter] \in Nat /\ popcnt[counter] <= Len(cvs)
      BY <1>1, <2>1, StackedSettled
    <2>3. Len(cvs) \in Nat
      BY <2>1 DEF Stacked
    <2> QED
      BY <2>2, <2>3
  <1> HIDE DEF total
  <1>3. n \in Nat /\ n = Len(cvs) - total
    BY <1>2
  <1> HIDE DEF n
  <1>4. merged = [i \in 0 .. n |-> IF i = 0 THEN cvs ELSE MergeTop(merged[i - 1])]
    BY <1>3, MergesExist
  <1>5. MergeCvStack(cvs, counter) = merged[n]
    BY DEF MergeCvStack, n, total
  <1> HIDE DEF merged
  <1> DEFINE N == {i \in 0 .. n : OnStack(merged[i], counter) /\ Len(merged[i]) = Len(cvs) - i}
  <1>6. 0 \in N
    <2>1. merged[0] = cvs
      BY <1>3, <1>4
    <2> QED
      BY <1>2, <1>3, <2>1
  <1>7. ASSUME NEW i \in Nat, i < n, i \in N PROVE i + 1 \in N
    <2>1. merged[i + 1] = MergeTop(merged[i]) /\ i + 1 \in 0 .. n
      <3>1. i + 1 \in 0 .. n /\ (i + 1) - 1 = i /\ i + 1 # 0
        BY <1>3, <1>7
      <3> QED
        BY <1>4, <3>1
    <2>2. PICK b : Stacked(merged[i], b, counter)
      BY <1>7 DEF OnStack
    <2>3. popcnt[counter] < Len(merged[i])
      BY <1>2, <1>3, <1>7 DEF total
    <2>4. Len(MergeTop(merged[i])) = Len(merged[i]) - 1 /\ \E c : Stacked(MergeTop(merged[i]), c, counter)
      <3> DEFINE s == merged[i]
      <3> HIDE DEF s
      <3>1. Len(MergeTop(s)) = Len(s) - 1 /\ \E c : Stacked(MergeTop(s), c, counter)
        BY <2>2, <2>3, MergeTopIs DEF s
      <3> QED
        BY <3>1 DEF s
    <2>5. Len(merged[i + 1]) = Len(cvs) - (i + 1)
      BY <1>2, <1>7, <2>1, <2>4
    <2> QED
      BY <2>1, <2>4, <2>5 DEF OnStack
  <1>8. \A i \in N : OnStack(merged[i], counter) /\ Len(merged[i]) = Len(cvs) - i
    OBVIOUS
  <1> HIDE DEF N
  <1>9. n \in N
    <2>1. \A i \in Nat : i < n /\ i \in N => i + 1 \in N
      BY <1>7
    <2>2. \A i \in 0 .. n : i \in N
      BY <1>3, <1>6, <2>1, UpTo
    <2> QED
      BY <1>3, <2>2
  <1>10. OnStack(merged[n], counter) /\ Len(merged[n]) = total
    BY <1>2, <1>3, <1>8, <1>9
  <1>11. Len(cvs) = total => merged[n] = cvs
    BY <1>2, <1>3, <1>4
  <1> QED
    BY <1>5, <1>10, <1>11 DEF total

\* Above a settled stack there is room for a subtree that the chunks so far
\* are aligned to.
LEMMA StackedRoom ==
    ASSUME NEW cvs, NEW b, NEW counter \in Nat, counter * ChunkLen <= MaxLen, Stacked(cvs, b, counter),
           Len(cvs) = popcnt[counter], NEW x \in Powers, Multiple(counter, x), NEW i \in 1 .. Len(cvs)
    PROVE  (counter + x) - b[i] <= b[i] - b[i - 1]
  <1> DEFINE s == b[i] - b[i - 1]
  <1>1. counter <= MaxLen
    BY ChunksFit, MaxLenAssumption
  <1>2. counter - b[i] < s
    <2>1. \A j \in 1 .. Len(cvs) : counter - b[j] < b[j] - b[j - 1]
      BY <1>1, StackedSettled
    <2> QED
      BY <2>1
  <1>3. /\ b[i] \in Nat /\ b[i - 1] \in Nat /\ b[i] <= counter /\ s \in Nat \ {0} /\ s \in Powers
        /\ Multiple(b[i - 1], s) /\ Multiple(b[i], s) /\ b[i] = b[i - 1] + s
        /\ x \in Nat \ {0}
    BY StackedSizes, PowersType
  <1> HIDE DEF s
  <1>4. ASSUME s < x PROVE FALSE
    <2>1. Multiple(x, s) /\ Multiple(x, 2 * s)
      BY <1>3, <1>4, PowersApart
    <2>2. Multiple(counter, s) /\ Multiple(counter, 2 * s)
      <3>1. 2 * s \in Nat
        BY <1>3
      <3> QED
        BY <1>3, <2>1, <3>1, MultipleOfMultiple
    <2>3. counter = b[i]
      <3>1. b[i] < counter => b[i] + s <= counter
        BY <1>3, <2>2, MultipleGap
      <3> QED
        BY <1>2, <1>3, <3>1
    <2>4. i = Len(cvs)
      <3>1. i < Len(cvs) => b[i + 1] - b[i] > 0 /\ b[i + 1] <= counter /\ b[i + 1] \in Nat
        BY StackedSizes
      <3>2. Len(cvs) \in Nat
        BY DEF Stacked
      <3> QED
        BY <1>3, <2>3, <3>1, <3>2
    <2>5. CASE i = 1
      <3>1. b[i - 1] = 0
        BY <2>5 DEF Stacked
      <3>2. Multiple(counter, 2 * s) /\ counter = s
        BY <1>3, <2>2, <2>3, <3>1
      <3>3. 0 < s /\ Multiple(0, 2 * s) /\ 2 * s \in Nat
        BY <1>3, MultipleSelf
      <3>4. 0 + 2 * s <= counter
        BY <3>2, <3>3, MultipleGap
      <3> QED
        BY <1>3, <3>2, <3>4
    <2>6. CASE i # 1
      <3> DEFINE j == i - 1
      <3>1. j \in 1 .. Len(cvs) /\ j < Len(cvs) /\ j - 1 = i - 2 /\ j + 1 = i
        BY <2>4, <2>6
      <3> HIDE DEF j
      <3>2. counter - b[j] < b[j] - b[j - 1]
        <4>1. \A k \in 1 .. Len(cvs) : counter - b[k] < b[k] - b[k - 1]
          BY <1>1, StackedSettled
        <4> QED
          BY <3>1, <4>1
      <3>3. b[j] = b[i - 1] /\ b[j] \in Nat /\ b[j - 1] \in Nat
        <4>1. b[j] \in Nat /\ b[j - 1] \in Nat
          BY <3>1, StackedSizes
        <4> QED
          BY <4>1 DEF j
      <3>4. b[i - 1] - b[i - 2] # s
        BY <1>3, <2>3, <3>1, <3>2, <3>3
      <3>5. Multiple(b[i - 1], 2 * s)
        BY <2>6, <3>4, StackedApart DEF s
      <3>6. b[i - 1] + 2 * s <= counter
        <4>1. b[i - 1] < counter /\ 2 * s \in Nat
          BY <1>3
        <4> QED
          BY <1>3, <2>2, <3>5, <4>1, MultipleGap
      <3> QED
        BY <1>3, <2>3, <3>6
    <2> QED
      BY <2>5, <2>6
  <1>5. x <= s
    BY <1>3, <1>4
  <1>6. Multiple(s, x)
    BY <1>3, <1>5, PowersApart
  <1>7. Multiple(b[i], x) /\ Multiple(b[i] + s, x) /\ Multiple(counter, x)
    <2>1. Multiple(b[i], x)
      BY <1>3, <1>6, MultipleOfMultiple
    <2>2. Multiple(b[i] + s, x)
      BY <1>3, <1>6, <2>1, MultipleSum
    <2> QED
      BY <2>1, <2>2
  <1>8. counter + x <= b[i] + s
    <2>1. counter < b[i] + s /\ b[i] + s \in Nat
      BY <1>2, <1>3
    <2> QED
      BY <1>3, <1>7, <2>1, MultipleGap
  <1>9. (counter + x) - b[i] <= s
    BY <1>3, <1>8
  <1> QED
    BY <1>9 DEF s

\* The ends of the subtrees once there is one more.
Extend(b, n, end) == [i \in 0 .. n + 1 |-> IF i = n + 1 THEN end ELSE b[i]]

\* A CV is pushed where there is room for it.
LEMMA PushIs ==
    ASSUME NEW cvs, NEW b, NEW counter \in Nat, Stacked(cvs, b, counter),
           NEW x \in Powers, Multiple(counter, x), (counter + x) * ChunkLen <= MaxLen,
           \A i \in 1 .. Len(cvs) : (counter + x) - b[i] <= b[i] - b[i - 1],
           NEW cv, cv = Tree[ChunkLen * x][counter * ChunkLen]
    PROVE  /\ Stacked(Append(cvs, cv), Extend(b, Len(cvs), counter + x), counter + x)
           /\ Len(Append(cvs, cv)) = Len(cvs) + 1
  <1> DEFINE m == Len(cvs)
             c == Extend(b, m, counter + x)
             new == Append(cvs, cv)
             total == counter + x
  <1>1. /\ cvs \in Seq(Nodes) /\ m \in Nat /\ b \in [0 .. m -> 0 .. counter] /\ b[0] = 0 /\ b[m] = counter
        /\ \A i \in 1 .. m :
              /\ b[i] - b[i - 1] \in Powers /\ Multiple(b[i - 1], b[i] - b[i - 1])
              /\ cvs[i] = Tree[ChunkLen * (b[i] - b[i - 1])][b[i - 1] * ChunkLen]
    BY DEF Stacked
  <1>2. x \in Nat \ {0} /\ total \in Nat /\ x <= total /\ counter <= total
    BY PowersType
  <1>3. cv \in Nodes
    <2>1. ChunkLen * x \in 0 .. MaxLen
      BY <1>2, ChunksFit
    <2>2. counter * ChunkLen \in Nat
      BY LengthsType
    <2> QED
      BY <2>1, <2>2, NodesAre
  <1>4. /\ new \in Seq(Nodes) /\ Len(new) = m + 1 /\ new[m + 1] = cv
        /\ \A i \in 1 .. m : new[i] = cvs[i]
    BY <1>1, <1>3, AppendProperties
  <1> HIDE DEF new, m, c
  <1>5. c \in [0 .. m + 1 -> 0 .. total] /\ c[0] = 0 /\ c[m + 1] = total /\ \A i \in 0 .. m : c[i] = b[i]
    <2>1. \A i \in 0 .. m + 1 : i = m + 1 \/ (i \in 0 .. m /\ i # m + 1)
      BY <1>1
    <2>2. \A i \in 0 .. m : b[i] \in 0 .. total /\ i \in 0 .. m + 1 /\ i # m + 1
      BY <1>1, <1>2
    <2>3. total \in 0 .. total /\ m + 1 \in 0 .. m + 1 /\ 0 \in 0 .. m
      BY <1>1, <1>2
    <2>4. c = [i \in 0 .. m + 1 |-> IF i = m + 1 THEN total ELSE b[i]]
      BY DEF c, Extend
    <2> HIDE DEF total
    <2> QED
      BY <1>1, <2>1, <2>2, <2>3, <2>4
  <1>6. ASSUME NEW i \in 1 .. m + 1
        PROVE  /\ c[i] - c[i - 1] \in Powers /\ Multiple(c[i - 1], c[i] - c[i - 1])
               /\ new[i] = Tree[ChunkLen * (c[i] - c[i - 1])][c[i - 1] * ChunkLen]
               /\ i < m + 1 => total - c[i] <= c[i] - c[i - 1]
    <2>1. CASE i = m + 1
      <3>1. i - 1 = m /\ m \in 0 .. m
        BY <1>1, <2>1
      <3>2. c[i] = total /\ c[i - 1] = counter /\ new[i] = cv /\ total - counter = x
        BY <1>1, <1>2, <1>4, <1>5, <2>1, <3>1
      <3> QED
        BY <2>1, <3>2
    <2>2. CASE i < m + 1
      <3>1. i \in 1 .. m /\ i - 1 \in 0 .. m /\ i \in 0 .. m
        BY <1>1, <2>2
      <3>2. c[i] = b[i] /\ c[i - 1] = b[i - 1] /\ new[i] = cvs[i]
        BY <1>4, <1>5, <3>1
      <3>3. total - b[i] <= b[i] - b[i - 1]
        BY <3>1 DEF m
      <3> QED
        BY <1>1, <3>1, <3>2, <3>3
    <2> QED
      BY <1>1, <2>1, <2>2
  <1>7. Stacked(new, c, total)
    <2> HIDE DEF total
    <2> QED
      BY <1>4, <1>5, <1>6 DEF Stacked
  <1> QED
    BY <1>4, <1>7 DEF new, m, c

LEMMA PushOne ==
    ASSUME NEW cvs, NEW counter \in Nat, OnStack(cvs, counter),
           NEW x \in Powers, Multiple(counter, x), (counter + x) * ChunkLen <= MaxLen,
           NEW cv, cv = Tree[ChunkLen * x][counter * ChunkLen]
    PROVE  OnStack(PushCv(cvs, cv, counter), counter + x)
  <1> DEFINE settled == MergeCvStack(cvs, counter)
  <1>1. x \in Nat \ {0} /\ counter * ChunkLen <= MaxLen
    <2>1. x \in Nat \ {0}
      BY PowersType
    <2>2. counter * ChunkLen <= (counter + x) * ChunkLen /\ counter * ChunkLen \in Nat /\ (counter + x) * ChunkLen \in Nat
      BY <2>1, LengthsType
    <2> QED
      BY <2>1, <2>2, MaxLenAssumption
  <1>2. OnStack(settled, counter) /\ Len(settled) = popcnt[counter]
    BY <1>1, MergeCvStackIs
  <1>3. PushCv(cvs, cv, counter) = Append(settled, cv)
    BY DEF PushCv
  <1> HIDE DEF settled
  <1>4. PICK b : Stacked(settled, b, counter)
    BY <1>2 DEF OnStack
  <1>5. \A i \in 1 .. Len(settled) : (counter + x) - b[i] <= b[i] - b[i - 1]
    BY <1>1, <1>2, <1>4, StackedRoom
  <1>6. Stacked(Append(settled, cv), Extend(b, Len(settled), counter + x), counter + x)
    BY <1>4, <1>5, PushIs
  <1> QED
    BY <1>3, <1>6 DEF OnStack

LEMMA PushTwo ==
    ASSUME NEW cvs, NEW counter \in Nat, OnStack(cvs, counter),
           NEW x \in Powers, 2 * x \in Powers, Multiple(counter, 2 * x), (counter + 2 * x) * ChunkLen <= MaxLen,
           NEW l, l = Tree[ChunkLen * x][counter * ChunkLen],
           NEW r, r = Tree[ChunkLen * x][(counter + x) * ChunkLen]
    PROVE  /\ OnStack(PushCv(PushCv(cvs, l, counter), r, counter + x), counter + 2 * x)
           /\ Len(PushCv(PushCv(cvs, l, counter), r, counter + x)) >= 2
  <1> DEFINE settled == MergeCvStack(cvs, counter)
             first == Append(settled, l)
             n == Len(settled)
  <1>1. /\ x \in Nat \ {0} /\ counter + x \in Nat /\ (counter + x) + x = counter + 2 * x
        /\ counter * ChunkLen <= MaxLen /\ (counter + x) * ChunkLen <= MaxLen
    <2>1. x \in Nat \ {0}
      BY PowersType
    <2>2. /\ counter * ChunkLen <= (counter + x) * ChunkLen /\ (counter + x) * ChunkLen <= (counter + 2 * x) * ChunkLen
          /\ counter * ChunkLen \in Nat /\ (counter + x) * ChunkLen \in Nat /\ (counter + 2 * x) * ChunkLen \in Nat
      BY <2>1, LengthsType
    <2> QED
      BY <2>1, <2>2, MaxLenAssumption
  <1>2. OnStack(settled, counter) /\ n = popcnt[counter]
    BY <1>1, MergeCvStackIs
  <1>3. PushCv(cvs, l, counter) = first
    BY DEF PushCv
  <1> HIDE DEF settled
  <1>4. PICK b : Stacked(settled, b, counter)
    BY <1>2 DEF OnStack
  <1>5. \A i \in 1 .. n : (counter + 2 * x) - b[i] <= b[i] - b[i - 1]
    <2> DEFINE y == 2 * x
    <2> HIDE DEF y
    <2>1. \A i \in 1 .. n : (counter + y) - b[i] <= b[i] - b[i - 1]
      BY <1>1, <1>2, <1>4, StackedRoom DEF y
    <2> QED
      BY <2>1 DEF y
  <1>6. Multiple(counter, x)
    <2>1. Multiple(2 * x, x) /\ 2 * x \in Nat
      <3>1. Multiple(x * 2, x) /\ x * 2 = 2 * x
        BY <1>1, MultipleIs
      <3> QED
        BY <1>1, <3>1
    <2> QED
      BY <1>1, <2>1, MultipleOfMultiple
  <1>7. \A i \in 1 .. n : /\ b[i] \in Nat /\ b[i - 1] \in Nat
                          /\ (counter + x) - b[i] <= b[i] - b[i - 1]
                          /\ ((counter + x) + x) - b[i] <= b[i] - b[i - 1]
    <2>1. \A i \in 1 .. n : b[i] \in Nat /\ b[i - 1] \in Nat
      BY <1>4, StackedSizes
    <2> QED
      BY <1>1, <1>5, <2>1
  <1> DEFINE middle == counter + x
             c == Extend(b, n, middle)
  <1>8. Stacked(first, c, middle) /\ Len(first) = n + 1
    <2>1. \A i \in 1 .. Len(settled) : (counter + x) - b[i] <= b[i] - b[i - 1]
      BY <1>7
    <2> QED
      BY <1>1, <1>4, <1>6, <2>1, PushIs
  <1>9. n \in Nat /\ b[n] = counter
    BY <1>4 DEF Stacked
  <1>10. \A i \in 1 .. n + 1 : ((counter + x) + x) - c[i] <= c[i] - c[i - 1]
    <2> SUFFICES ASSUME NEW i \in 1 .. n + 1 PROVE ((counter + x) + x) - c[i] <= c[i] - c[i - 1]
      OBVIOUS
    <2>1. CASE i = n + 1
      <3>1. c[i] = counter + x /\ c[i - 1] = counter
        BY <1>9, <2>1 DEF Extend
      <3> QED
        BY <1>1, <3>1
    <2>2. CASE i # n + 1
      <3>1. i \in 1 .. n /\ c[i] = b[i] /\ c[i - 1] = b[i - 1]
        BY <1>9, <2>2 DEF Extend
      <3> QED
        BY <1>7, <3>1
    <2> QED
      BY <2>1, <2>2
  <1>11. popcnt[counter + x] = popcnt[counter] + 1
    <2>1. counter + x <= MaxLen
      BY <1>1, ChunksFit, MaxLenAssumption
    <2> QED
      BY <1>1, <1>6, <2>1, PopcntAdd
  <1>12. MergeCvStack(first, counter + x) = first
    <2>1. OnStack(first, counter + x) /\ Len(first) = popcnt[counter + x]
      BY <1>2, <1>8, <1>11 DEF OnStack
    <2> HIDE DEF first
    <2> QED
      BY <1>1, <2>1, MergeCvStackIs
  <1>13. PushCv(first, r, counter + x) = Append(first, r)
    BY <1>12 DEF PushCv
  <1>14. Multiple(counter + x, x)
    BY <1>1, <1>6, MultipleSelf, MultipleSum
  <1>15. Stacked(Append(first, r), Extend(c, Len(first), middle + x), middle + x) /\ Len(Append(first, r)) = Len(first) + 1
    <2>1. (middle + x) * ChunkLen <= MaxLen
      BY <1>1
    <2>2. \A i \in 1 .. Len(first) : (middle + x) - c[i] <= c[i] - c[i - 1]
      BY <1>8, <1>10
    <2>3. middle \in Nat /\ Multiple(middle, x) /\ r = Tree[ChunkLen * x][middle * ChunkLen]
      BY <1>1, <1>14
    <2> HIDE DEF first, c, middle
    <2> QED
      BY <1>8, <2>1, <2>2, <2>3, PushIs
  <1>16. OnStack(Append(first, r), counter + 2 * x)
    <2>1. middle + x = counter + 2 * x
      BY <1>1
    <2> HIDE DEF first, c, middle
    <2> QED
      BY <1>15, <2>1 DEF OnStack
  <1>17. Len(Append(first, r)) >= 2
    <2> HIDE DEF first, c
    <2> QED
      BY <1>8, <1>9, <1>15
  <1> QED
    BY <1>3, <1>13, <1>16, <1>17

LEMMA Pow2Grows ==
    ASSUME NEW i \in 0 .. WordBits, NEW j \in 0 .. WordBits, i <= j
    PROVE  pow2[i] <= pow2[j]
  <1> DEFINE d == j - i
  <1>1. d \in 0 .. WordBits - i /\ d \in 0 .. WordBits /\ i + d = j
    BY WordBitsType
  <1> HIDE DEF d
  <1>2. pow2[i + d] = pow2[i] * pow2[d]
    BY <1>1, Pow2Sum
  <1>3. pow2[i] \in Nat \ {0} /\ pow2[d] \in Nat \ {0}
    BY <1>1, Pow2Type
  <1>4. pow2[i] <= pow2[i] * pow2[d]
    BY <1>3
  <1> QED
    BY <1>1, <1>2, <1>4

LEMMA DigitsIs ==
    ASSUME NEW n \in 1 .. MaxLen
    PROVE  Digits(n) \in 1 .. WordBits /\ n < pow2[Digits(n)]
  <1> DEFINE p == PowerBelow(n)
             D(k) == pow2[k - 1] <= n /\ n < pow2[k]
  <1>1. p \in Powers /\ p <= n /\ 2 * p > n
    BY PowerBelowIs
  <1> HIDE DEF p
  <1>2. PICK k \in 0 .. WordBits - 1 : p = pow2[k]
    BY <1>1 DEF Powers
  <1>3. p \in Nat
    BY <1>1, PowersType
  <1>4. k + 1 \in 1 .. WordBits /\ D(k + 1)
    <2>1. k + 1 \in 1 .. WordBits /\ (k + 1) - 1 = k
      BY WordBitsType
    <2>2. pow2[k + 1] = 2 * p
      BY <1>2, Pow2Steps
    <2> QED
      BY <1>1, <1>2, <1>3, <2>1, <2>2
  <1>5. Digits(n) = CHOOSE j \in 1 .. WordBits : D(j)
    BY DEF Digits
  <1> HIDE DEF D
  <1>6. Digits(n) \in 1 .. WordBits /\ D(Digits(n))
    BY <1>4, <1>5
  <1> QED
    BY <1>6 DEF D

\* The chunks above a CV double with each one below.
LEMMA StackedDepth ==
    ASSUME NEW cvs, NEW counter \in Nat, counter * ChunkLen <= MaxLen, OnStack(cvs, counter)
    PROVE  Len(cvs) <= Digits(counter)
  <1> DEFINE m == Len(cvs)
  <1>1. PICK b : Stacked(cvs, b, counter)
    BY DEF OnStack
  <1>2. m \in Nat /\ b[m] = counter /\ b[0] = 0 /\ counter \in 0 .. MaxLen
    BY <1>1, ChunksFit DEF Stacked
  <1>3. CASE m = 0
    <2>1. counter = 0
      BY <1>2, <1>3
    <2> QED
      BY <1>3, <2>1 DEF Digits
  <1>4. CASE m # 0
    <2> DEFINE N == {d \in 0 .. m - 1 : d \in 0 .. WordBits /\ pow2[d] <= counter - b[(m - 1) - d]}
    <2>1. \A i \in 1 .. m : /\ b[i] \in Nat /\ b[i - 1] \in Nat /\ b[i] <= counter /\ b[i - 1] < b[i]
                            /\ (i < m => counter - b[i] <= b[i] - b[i - 1])
      <3>1. \A i \in 1 .. m : b[i] \in Nat /\ b[i - 1] \in Nat /\ b[i] <= counter /\ b[i - 1] < b[i]
        BY <1>1, StackedSizes
      <3>2. \A i \in 1 .. m : i < m => counter - b[i] <= b[i] - b[i - 1]
        BY <1>1 DEF Stacked
      <3> QED
        BY <3>1, <3>2
    <2> HIDE DEF m
    <2>2. 0 \in N
      <3>1. m \in 1 .. m /\ (m - 1) - 0 = m - 1 /\ 0 \in 0 .. m - 1 /\ 0 \in 0 .. WordBits
        BY <1>2, <1>4, WordBitsType
      <3>2. b[m - 1] < counter /\ b[m - 1] \in Nat
        BY <1>2, <2>1, <3>1
      <3> QED
        BY <3>1, <3>2, Pow2Steps
    <2>3. ASSUME NEW d \in Nat, d < m - 1, d \in N PROVE d + 1 \in N
      <3> DEFINE j == (m - 1) - d
      <3>1. j \in 1 .. m /\ j < m /\ (m - 1) - (d + 1) = j - 1 /\ d + 1 \in 0 .. m - 1
        BY <1>2, <2>3
      <3>2. d \in 0 .. WordBits /\ pow2[d] <= counter - b[j]
        BY <2>3
      <3> HIDE DEF j
      <3>3. b[j] \in Nat /\ b[j - 1] \in Nat /\ b[j] <= counter /\ counter - b[j] <= b[j] - b[j - 1]
        BY <2>1, <3>1
      <3>4. pow2[d] \in Nat /\ pow2[d] <= MaxLen
        BY <1>2, <3>2, <3>3, Pow2Type, MaxLenAssumption
      <3>5. d # WordBits
        BY <3>4, MaxLenAssumption, Pow2Type, WordBitsType
      <3>6. d + 1 \in 0 .. WordBits /\ d \in 0 .. WordBits - 1
        BY <3>2, <3>5, WordBitsType
      <3>7. pow2[d + 1] = 2 * pow2[d]
        BY <3>6, Pow2Steps
      <3>8. pow2[d + 1] <= counter - b[j - 1]
        BY <3>2, <3>3, <3>4, <3>7
      <3> QED
        BY <3>1, <3>6, <3>8
    <2>4. \A d \in N : d \in 0 .. WordBits /\ pow2[d] <= counter - b[(m - 1) - d]
      OBVIOUS
    <2> HIDE DEF N
    <2>5. m - 1 \in N
      <3>1. m - 1 \in Nat
        BY <1>2, <1>4
      <3>2. \A d \in Nat : d < m - 1 /\ d \in N => d + 1 \in N
        BY <2>3
      <3>3. \A d \in 0 .. m - 1 : d \in N
        BY <2>2, <3>1, <3>2, UpTo
      <3> QED
        BY <3>1, <3>3
    <2>6. m - 1 \in 0 .. WordBits /\ pow2[m - 1] <= counter
      <3>1. (m - 1) - (m - 1) = 0
        BY <1>2
      <3> QED
        BY <1>2, <2>4, <2>5, <3>1
    <2>7. counter \in 1 .. MaxLen
      BY <1>2, <2>6, Pow2Type
    <2> DEFINE k == Digits(counter)
    <2>8. k \in 1 .. WordBits /\ counter < pow2[k]
      BY <2>7, DigitsIs
    <2> HIDE DEF k
    <2>9. ~(k <= m - 1)
      <3>1. ASSUME k <= m - 1 PROVE FALSE
        <4>1. k \in 0 .. WordBits
          BY <2>8, WordBitsType
        <4> DEFINE j == m - 1
        <4> HIDE DEF j
        <4>2. pow2[k] <= pow2[j]
          BY <2>6, <3>1, <4>1, Pow2Grows DEF j
        <4>3. pow2[k] \in Nat /\ pow2[j] \in Nat
          BY <2>6, <4>1, Pow2Type DEF j
        <4> QED
          BY <1>2, <2>6, <2>8, <4>2, <4>3 DEF j
      <3> QED
        BY <3>1
    <2>10. m <= k
      BY <1>2, <2>8, <2>9, WordBitsType
    <2> QED
      BY <2>10 DEF m, k
  <1> QED
    BY <1>3, <1>4

-----------------------------------------------------------------------------
(* The inductive invariant.                                                *)

\* The subtree that update takes next is one of whole chunks, as many as the
\* chunks so far are a multiple of.
LEMMA SubtreeIs ==
    ASSUME NEW n \in Nat, n > ChunkLen, NEW c \in Nat, c * ChunkLen + n <= MaxLen
    PROVE  \E p \in Powers :
              /\ SubtreeLen(n, c * ChunkLen) = ChunkLen * p
              /\ (ChunkLen * p) \div ChunkLen = p
              /\ ChunkLen * p <= n /\ Multiple(c, p)
              /\ ChunkLen * p <= ChunkLen => p = 1
              /\ ChunkLen * p > ChunkLen => \E h \in Powers : p = 2 * h /\ p \div 2 = h
  <1> DEFINE count == c * ChunkLen
             len == SubtreeLen(n, count)
  <1>1. n \in 1 .. MaxLen /\ count \in Nat /\ count = ChunkLen * c
    BY LengthsType, MaxLenAssumption
  <1>2. Multiple(count, ChunkLen)
    BY <1>1, LengthsType DEF Multiple
  <1>3. len \in Powers /\ len <= n /\ Multiple(count, len) /\ ChunkLen <= len
    <2> HIDE DEF count
    <2>1. /\ len \in Powers /\ len <= n /\ Multiple(count, len)
          /\ \A p \in Powers : p <= n /\ Multiple(count, p) => p <= len
      BY <1>1, SubtreeLenIs
    <2> QED
      BY <1>2, <2>1, LengthsType
  <1> HIDE DEF len
  <1>4. PICK p \in Powers : len = ChunkLen * p /\ (ChunkLen < len => \E h \in Powers : p = 2 * h)
    BY <1>3, PowersNest, LengthsType
  <1>5. p \in Nat \ {0}
    BY PowersType
  <1>6. Multiple(c, p)
    <2>1. PICK k \in Nat : count = len * k
      BY <1>3 DEF Multiple
    <2>2. ChunkLen * c = ChunkLen * (p * k) /\ p * k \in Nat
      BY <1>1, <1>4, <1>5, <2>1, LengthsType
    <2>3. c = p * k
      BY <2>2, LengthsType
    <2> QED
      BY <2>3 DEF Multiple
  <1>7. (ChunkLen * p) \div ChunkLen = p
    BY <1>5, LengthsType
  <1>8. ChunkLen * p <= ChunkLen => p = 1
    BY <1>5, LengthsType
  <1>9. ASSUME ChunkLen * p > ChunkLen PROVE \E h \in Powers : p = 2 * h /\ p \div 2 = h
    <2>1. PICK h \in Powers : p = 2 * h
      BY <1>3, <1>4, <1>9, LengthsType
    <2>2. p \div 2 = h
      BY <2>1, PowersType
    <2> QED
      BY <2>1, <2>2
  <1> QED
    BY <1>3, <1>4, <1>6, <1>7, <1>8, <1>9 DEF len, count

\* The chunk state was given r bytes of chunk c, and the subtrees of all chunks
\* before are on the stack.
At(c, r) ==
    /\ c \in Nat /\ r \in Nat /\ r <= ChunkLen
    /\ chunk = Holding(c, r) /\ fed = (left + c * ChunkLen) + r
    /\ OnStack(stack, c)
    /\ at = "idle" => /\ left = 0
                      /\ r > 0 => Len(stack) = popcnt[c]
                      /\ r = 0 /\ stack # <<>> => Len(stack) >= 2
    /\ at = "loop" => r = 0 /\ (left = 0 => Len(stack) >= 2)

IInv ==
    /\ machine \in Machines
    /\ fed \in 0 .. MaxLen /\ left \in Nat /\ at \in {"idle", "loop"}
    /\ \E c, r \in Nat : At(c, r)

LEMMA StackedNone == OnStack(<<>>, 0)
  <1> DEFINE b == [i \in 0 .. 0 |-> 0]
  <1>1. b \in [0 .. 0 -> 0 .. 0] /\ b[0] = 0
    OBVIOUS
  <1> HIDE DEF b
  <1>2. <<>> \in Seq(Nodes) /\ Len(<<>>) = 0
    OBVIOUS
  <1>3. Stacked(<<>>, b, 0)
    BY <1>1, <1>2 DEF Stacked
  <1> QED
    BY <1>3 DEF OnStack

LEMMA InitIInv == Init => IInv
  <1> SUFFICES ASSUME Init PROVE IInv
    OBVIOUS
  <1>1. chunk = Holding(0, 0)
    <2> DEFINE c == 0
    <2>1. c \in Nat
      OBVIOUS
    <2> HIDE DEF c
    <2>2. ChunkState(c) = Holding(c, 0)
      BY <2>1, ChunkStateIs
    <2> QED
      BY <2>2 DEF c, Init
  <1>2. At(0, 0)
    <2>1. fed = (left + 0 * ChunkLen) + 0
      BY LengthsType DEF Init
    <2>2. OnStack(stack, 0) /\ stack = <<>> /\ at = "idle" /\ left = 0
      BY StackedNone DEF Init
    <2> QED
      BY <1>1, <2>1, <2>2, LengthsType DEF At
  <1> QED
    BY <1>2, MaxLenAssumption DEF IInv, Init

LEMMA ResetIInv == IInv /\ Reset => IInv'
  <1> SUFFICES ASSUME IInv, Reset PROVE IInv'
    OBVIOUS
  <1>1. chunk' = Holding(0, 0)
    <2> DEFINE c == 0
    <2>1. c \in Nat
      OBVIOUS
    <2> HIDE DEF c
    <2>2. ChunkState(c) = Holding(c, 0)
      BY <2>1, ChunkStateIs
    <2> QED
      BY <2>2 DEF c, Reset
  <1>2. left = 0 /\ at = "idle"
    BY DEF IInv, At, Reset
  <1>3. At(0, 0)'
    <2>1. fed' = (left' + 0 * ChunkLen) + 0
      BY <1>2, LengthsType DEF Reset
    <2>2. OnStack(stack', 0) /\ stack' = <<>> /\ at' = "idle" /\ left' = 0
      BY <1>2, StackedNone DEF Reset
    <2> QED
      BY <1>1, <2>1, <2>2, LengthsType DEF At
  <1> QED
    BY <1>3, MaxLenAssumption DEF IInv, Reset

LEMMA UpdateIInv ==
    ASSUME IInv, NEW n \in 1 .. MaxLen, Update(n)
    PROVE  IInv'
  <1> DEFINE room == ChunkLen - ChunkStateLen(chunk)
             take == IF n < room THEN n ELSE room
             filled == ChunkUpdate(chunk, Bytes(fed, take))
  <1>1. PICK c, r \in Nat : At(c, r)
    BY DEF IInv
  <1>2. /\ at = "idle" /\ n \in Nat /\ n > 0 /\ fed \in Nat /\ fed + n <= MaxLen
        /\ fed' = fed + n /\ machine' = machine
        /\ left = 0 /\ r <= ChunkLen /\ fed = c * ChunkLen + r /\ c * ChunkLen \in Nat
    BY <1>1, MaxLenAssumption, LengthsType DEF Update, At, IInv
  <1>3. ChunkStateLen(chunk) = r /\ chunk = Holding(c, r)
    <2>1. ChunkStateLen(Holding(c, r)) = r
      BY HoldingLen
    <2> QED
      BY <1>1, <2>1 DEF At
  <1>4. /\ room = ChunkLen - r /\ room \in Nat /\ take \in Nat /\ take <= n /\ r + take <= ChunkLen
        /\ take # n => take = room /\ r + take = ChunkLen /\ n - take \in Nat /\ n - take > 0
    BY <1>2, <1>3, LengthsType
  <1>5. filled = Holding(c, r + take)
    <2> HIDE DEF take
    <2>1. ChunkUpdate(Holding(c, r), Bytes(c * ChunkLen + r, take)) = Holding(c, r + take)
      BY <1>4, ChunkUpdateIs
    <2> QED
      BY <1>2, <1>3, <2>1
  <1>6. CASE r = 0
    <2>1. at' = "loop" /\ left' = n /\ chunk' = chunk /\ stack' = stack
      BY <1>3, <1>6 DEF Update
    <2>2. fed' = (left' + c * ChunkLen) + r
      BY <1>2, <1>6, <2>1
    <2>3. At(c, r)'
      BY <1>1, <1>2, <1>6, <2>1, <2>2 DEF At
    <2> QED
      BY <1>2, <2>1, <2>3 DEF IInv
  <1>7. CASE r # 0 /\ take = n
    <2>1. chunk' = filled /\ at' = at /\ left' = left /\ stack' = stack
      BY <1>3, <1>7 DEF Update
    <2>2. fed' = (left' + c * ChunkLen) + (r + take) /\ r + take > 0 /\ r + take \in Nat
      BY <1>2, <1>7, <1>4, <2>1
    <2>3. chunk' = Holding(c, r + take)
      BY <1>5, <2>1
    <2>4. OnStack(stack', c) /\ Len(stack') = popcnt[c]
      BY <1>1, <1>2, <1>7, <2>1 DEF At
    <2> HIDE DEF take, filled
    <2>5. PICK s \in Nat : s <= ChunkLen /\ s > 0 /\ chunk' = Holding(c, s) /\ fed' = (left' + c * ChunkLen) + s
      BY <1>4, <2>2, <2>3
    <2>6. at' = "idle" /\ left' = 0 /\ fed' \in 0 .. MaxLen /\ machine' \in Machines
      BY <1>2, <2>1, MaxLenAssumption DEF IInv
    <2>7. At(c, s)'
      BY <1>1, <2>4, <2>5, <2>6 DEF At
    <2> QED
      BY <2>5, <2>6, <2>7 DEF IInv
  <1>8. CASE r # 0 /\ take # n
    <2>1. /\ at' = "loop" /\ left' = n - take
          /\ stack' = PushCv(stack, ChunkOutput(filled), filled.counter)
          /\ chunk' = ChunkState(filled.counter + 1)
      BY <1>3, <1>8 DEF Update
    <2>2. take = room /\ r + take = ChunkLen /\ n - take \in Nat /\ n - take > 0
      BY <1>4, <1>8
    <2>3. filled = Holding(c, ChunkLen)
      BY <1>5, <2>2
    <2> HIDE DEF take, filled
    <2>4. filled.counter = c /\ ChunkOutput(filled) = ChunkNode(c * ChunkLen, ChunkLen)
      BY <2>3, HoldingLen, ChunkOutputIs, LengthsType
    <2>5. (c + 1) * ChunkLen = c * ChunkLen + ChunkLen
      BY LengthsType
    <2>6. (c + 1) * ChunkLen <= MaxLen /\ ChunkLen <= MaxLen
      BY <1>2, <1>4, <2>2, <2>5, LengthsType, MaxLenAssumption
    <2>7. OnStack(stack', c + 1)
      <3> DEFINE x == 1
                 cv == ChunkOutput(filled)
      <3>1. x \in Powers /\ Multiple(c, x) /\ (c + x) * ChunkLen <= MaxLen /\ ChunkLen * x = ChunkLen
        <4>1. c = 1 * c
          BY <1>1
        <4> QED
          BY <2>6, <4>1, PowersType, LengthsType DEF Multiple
      <3>2. cv = Tree[ChunkLen * x][c * ChunkLen]
        <4>1. Tree[ChunkLen][c * ChunkLen] = ChunkNode(c * ChunkLen, ChunkLen)
          BY <1>2, <2>6, ChunkTree, LengthsType, MaxLenAssumption
        <4> QED
          BY <2>4, <3>1, <4>1
      <3>3. OnStack(stack, c)
        BY <1>1 DEF At
      <3> HIDE DEF x, cv
      <3>4. OnStack(PushCv(stack, cv, c), c + x)
        BY <3>1, <3>2, <3>3, PushOne
      <3> QED
        BY <2>1, <2>4, <3>4 DEF x, cv
    <2>8. chunk' = Holding(c + 1, 0)
      <3>1. ChunkState(c + 1) = Holding(c + 1, 0)
        BY ChunkStateIs
      <3> QED
        BY <2>1, <2>4, <3>1
    <2>9. fed' = (left' + (c + 1) * ChunkLen) + 0
      BY <1>2, <1>4, <2>1, <2>2, <2>5, LengthsType
    <2>10. At(c + 1, 0)'
      BY <2>1, <2>2, <2>7, <2>8, <2>9, LengthsType DEF At
    <2> QED
      BY <1>2, <2>1, <2>2, <2>10 DEF IInv
  <1> QED
    BY <1>6, <1>7, <1>8

LEMMA HashSubtreeIInv ==
    ASSUME IInv, HashSubtree
    PROVE  IInv'
  <1>1. PICK c, r \in Nat : At(c, r)
    BY DEF IInv
  <1>2. /\ at = "loop" /\ at' = "loop" /\ r = 0 /\ left \in Nat /\ left > ChunkLen /\ fed \in Nat /\ fed <= MaxLen
        /\ fed' = fed /\ machine' = machine /\ machine \in Machines
        /\ c * ChunkLen \in Nat /\ fed - left = c * ChunkLen /\ fed = c * ChunkLen + left
    BY <1>1, MaxLenAssumption, LengthsType DEF HashSubtree, More, At, IInv
  <1>3. chunk = ChunkState(c) /\ chunk.counter = c
    <2>1. chunk = ChunkState(c)
      BY <1>1, <1>2, ChunkStateIs DEF At
    <2> QED
      BY <2>1 DEF ChunkState
  <1> DEFINE len == SubtreeLen(left, c * ChunkLen)
             pair == SubtreeToParentNode(c * ChunkLen, len, c)
  <1>4. PICK p \in Powers :
              /\ len = ChunkLen * p /\ (ChunkLen * p) \div ChunkLen = p
              /\ ChunkLen * p <= left /\ Multiple(c, p)
              /\ ChunkLen * p <= ChunkLen => p = 1
              /\ ChunkLen * p > ChunkLen => \E h \in Powers : p = 2 * h /\ p \div 2 = h
    BY <1>2, SubtreeIs
  <1>5. /\ stack' = IF ChunkLen * p <= ChunkLen
                    THEN PushCv(stack, ChunkOutput(ChunkUpdate(ChunkState(c), Bytes(c * ChunkLen, ChunkLen * p))), c)
                    ELSE PushCv(PushCv(stack, pair[1], c), pair[2], c + p \div 2)
        /\ chunk' = [cv |-> chunk.cv, counter |-> c + p, buf |-> chunk.buf, blocks |-> chunk.blocks]
        /\ left' = left - ChunkLen * p
    BY <1>2, <1>3, <1>4 DEF HashSubtree
  <1>6. p \in Nat \ {0} /\ ChunkLen * p \in Nat /\ (c + p) * ChunkLen = c * ChunkLen + ChunkLen * p
    BY PowersType, LengthsType
  <1>7. /\ left' \in Nat /\ fed' = (left' + (c + p) * ChunkLen) + 0
        /\ (c + p) * ChunkLen <= MaxLen /\ ChunkLen * p <= MaxLen /\ c + p \in Nat
    BY <1>2, <1>4, <1>5, <1>6, MaxLenAssumption
  <1>8. chunk' = Holding(c + p, 0)
    <2>1. chunk' = ChunkState(c + p)
      BY <1>3, <1>5 DEF ChunkState
    <2> QED
      BY <1>7, <2>1, ChunkStateIs
  <1>9. OnStack(stack, c)
    BY <1>1 DEF At
  <1> HIDE DEF len
  <1>10. OnStack(stack', c + p) /\ (left' = 0 => Len(stack') >= 2)
    <2>1. CASE ChunkLen * p <= ChunkLen
      <3> DEFINE x == 1
                 cv == ChunkOutput(ChunkUpdate(ChunkState(c), Bytes(c * ChunkLen, ChunkLen * p)))
      <3>1. p = x /\ x \in Powers /\ Multiple(c, x) /\ (c + x) * ChunkLen <= MaxLen /\ ChunkLen * x = ChunkLen
        BY <1>4, <1>7, <2>1, LengthsType
      <3>2. cv = ChunkOutput(Holding(c, ChunkLen))
        <4>1. ChunkState(c) = Holding(c, 0) /\ ChunkLen * p = ChunkLen /\ c * ChunkLen + 0 = c * ChunkLen /\ 0 + ChunkLen = ChunkLen
          BY <1>2, <3>1, ChunkStateIs, LengthsType
        <4> DEFINE z == 0
        <4>2. z \in Nat
          OBVIOUS
        <4> HIDE DEF z
        <4>3. ChunkUpdate(Holding(c, z), Bytes(c * ChunkLen + z, ChunkLen)) = Holding(c, z + ChunkLen)
          BY <4>2, ChunkUpdateIs, LengthsType
        <4> QED
          BY <4>1, <4>3 DEF z
      <3>3. ChunkOutput(Holding(c, ChunkLen)) = ChunkNode(c * ChunkLen, ChunkLen)
        BY ChunkOutputIs, LengthsType
      <3>4. Tree[ChunkLen][c * ChunkLen] = ChunkNode(c * ChunkLen, ChunkLen)
        BY <1>2, <1>7, <3>1, ChunkTree, LengthsType, MaxLenAssumption
      <3>5. stack' = PushCv(stack, cv, c)
        BY <1>5, <2>1
      <3> HIDE DEF x, cv
      <3>6. cv = Tree[ChunkLen * x][c * ChunkLen]
        BY <3>1, <3>2, <3>3, <3>4
      <3>7. OnStack(PushCv(stack, cv, c), c + x)
        BY <1>9, <3>1, <3>6, PushOne
      <3>8. left' # 0
        BY <1>2, <1>5, <3>1, LengthsType
      <3> QED
        BY <3>1, <3>5, <3>7, <3>8
    <2>2. CASE ~(ChunkLen * p <= ChunkLen)
      <3>1. PICK h \in Powers : p = 2 * h /\ p \div 2 = h
        BY <1>4, <1>6, <2>2, LengthsType
      <3>2. /\ 2 * h \in Powers /\ ChunkLen * (2 * h) <= MaxLen /\ Multiple(c, 2 * h)
            /\ (c + 2 * h) * ChunkLen <= MaxLen
        BY <1>4, <1>7, <3>1
      <3>3. pair = <<Tree[ChunkLen * h][c * ChunkLen], Tree[ChunkLen * h][(c + h) * ChunkLen]>>
        <4>1. SubtreeToParentNode(c * ChunkLen, ChunkLen * (2 * h), c)
                = <<Tree[ChunkLen * h][c * ChunkLen], Tree[ChunkLen * h][(c + h) * ChunkLen]>>
          BY <1>2, <3>2, SubtreeToParentNodeIs
        <4> QED
          BY <1>4, <3>1, <4>1
      <3> DEFINE l == Tree[ChunkLen * h][c * ChunkLen]
                 s == Tree[ChunkLen * h][(c + h) * ChunkLen]
      <3>4. pair[1] = l /\ pair[2] = s
        BY <3>3
      <3>5. stack' = PushCv(PushCv(stack, l, c), s, c + h)
        BY <1>5, <2>2, <3>1, <3>4
      <3> HIDE DEF pair
      <3>6. l = Tree[ChunkLen * h][c * ChunkLen] /\ s = Tree[ChunkLen * h][(c + h) * ChunkLen]
        OBVIOUS
      <3> HIDE DEF l, s
      <3>7. /\ OnStack(PushCv(PushCv(stack, l, c), s, c + h), c + 2 * h)
            /\ Len(PushCv(PushCv(stack, l, c), s, c + h)) >= 2
        BY <1>9, <3>2, <3>6, PushTwo
      <3> QED
        BY <3>1, <3>5, <3>7
    <2> QED
      BY <2>1, <2>2
  <1>11. PICK d, z \in Nat :
              /\ z = 0 /\ chunk' = Holding(d, z) /\ fed' = (left' + d * ChunkLen) + z
              /\ OnStack(stack', d) /\ (left' = 0 => Len(stack') >= 2)
    BY <1>7, <1>8, <1>10
  <1>12. at' = "loop" /\ z <= ChunkLen
    BY <1>2, <1>11, LengthsType
  <1>13. At(d, z)'
    BY <1>11, <1>12 DEF At
  <1>14. machine' \in Machines /\ fed' \in 0 .. MaxLen /\ left' \in Nat
    BY <1>2, <1>7, MaxLenAssumption
  <1> QED
    BY <1>12, <1>13, <1>14 DEF IInv

LEMMA KeepRestIInv ==
    ASSUME IInv, KeepRest
    PROVE  IInv'
  <1>1. PICK c, r \in Nat : At(c, r)
    BY DEF IInv
  <1>2. /\ at = "loop" /\ at' = "idle" /\ r = 0 /\ left \in Nat /\ left <= ChunkLen /\ left' = 0
        /\ fed \in Nat /\ fed <= MaxLen
        /\ fed' = fed /\ machine' = machine /\ machine \in Machines
        /\ c * ChunkLen \in Nat /\ fed - left = c * ChunkLen /\ fed = c * ChunkLen + left
    BY <1>1, MaxLenAssumption, LengthsType DEF KeepRest, More, At, IInv
  <1>3. chunk = Holding(c, r) /\ chunk.counter = c /\ OnStack(stack, c)
    <2>1. chunk = Holding(c, r) /\ OnStack(stack, c)
      BY <1>1 DEF At
    <2> QED
      BY <2>1, HoldingLen
  <1>4. machine' \in Machines /\ fed' \in 0 .. MaxLen /\ left' \in Nat
    BY <1>2, MaxLenAssumption
  <1>5. PICK s \in Nat :
              /\ s = left /\ s <= ChunkLen /\ chunk' = Holding(c, s) /\ OnStack(stack', c)
              /\ s > 0 => Len(stack') = popcnt[c]
              /\ s = 0 => Len(stack') >= 2
    <2>1. CASE left > 0
      <3>1. chunk' = ChunkUpdate(chunk, Bytes(fed - left, left)) /\ stack' = MergeCvStack(stack, c)
        BY <1>3, <2>1 DEF KeepRest
      <3>2. chunk' = Holding(c, left)
        <4>1. ChunkUpdate(Holding(c, r), Bytes(c * ChunkLen + r, left)) = Holding(c, r + left)
          BY <1>2, ChunkUpdateIs
        <4>2. c * ChunkLen + r = fed - left /\ r + left = left
          BY <1>2
        <4> QED
          BY <1>3, <3>1, <4>1, <4>2
      <3>3. c * ChunkLen <= MaxLen
        BY <1>2, MaxLenAssumption
      <3>4. OnStack(stack', c) /\ Len(stack') = popcnt[c]
        BY <1>3, <3>1, <3>3, MergeCvStackIs
      <3> QED
        BY <1>2, <2>1, <3>2, <3>4
    <2>2. CASE left = 0
      <3>1. chunk' = chunk /\ stack' = stack
        BY <2>2 DEF KeepRest
      <3>2. Len(stack) >= 2
        BY <1>1, <1>2, <2>2 DEF At
      <3> QED
        BY <1>2, <1>3, <2>2, <3>1, <3>2
    <2> QED
      BY <1>2, <2>1, <2>2
  <1>6. fed' = (left' + c * ChunkLen) + s
    BY <1>2, <1>5
  <1>7. At(c, s)'
    BY <1>2, <1>5, <1>6 DEF At
  <1> QED
    BY <1>2, <1>4, <1>7 DEF IInv

LEMMA InductiveIInv == IInv /\ [Next]_vars => IInv'
  <1> SUFFICES ASSUME IInv, [Next]_vars PROVE IInv'
    OBVIOUS
  <1>1. ASSUME NEW n \in 1 .. MaxLen, Update(n) PROVE IInv'
    BY <1>1, UpdateIInv
  <1>2. CASE HashSubtree
    BY <1>2, HashSubtreeIInv
  <1>3. CASE KeepRest
    BY <1>3, KeepRestIInv
  <1>4. CASE Reset
    BY <1>4, ResetIInv
  <1>5. CASE UNCHANGED vars
    BY <1>5 DEF vars, IInv, At
  <1> QED
    BY <1>1, <1>2, <1>3, <1>4, <1>5 DEF Next

\* The file is in the hasher all of the time: in full subtrees on the stack, in
\* the chunk state, and in what update has not taken yet.
THEOREM SpecIInv == Spec => []IInv
  <1> QED
    BY InitIInv, InductiveIInv, PTL DEF Spec

\* A node is never what an array holds where nothing was written.
LEMMA NodeWritten ==
    ASSUME NEW len \in 0 .. MaxLen, NEW from \in Nat
    PROVE  Tree[len][from] # Garbage
  <1>1. Garbage[1].flags = {"uninitialized"}
    BY DEF Garbage
  <1>2. CASE len <= ChunkLen
    <2>1. Tree[len][from] = ChunkNode(from, len)
      BY <1>2, ChunkTree
    <2> DEFINE n == IF len = 0 THEN 1 ELSE (len - 1) \div BlockLen + 1
    <2>2. n \in Nat \ {0}
      <3>1. (len - 1) \div BlockLen \in Nat \/ len = 0
        BY LengthsType, MaxLenAssumption
      <3> QED
        BY <3>1
    <2> DEFINE Flags(i) == (IF i = 1 THEN {"CHUNK_START"} ELSE {})
                               \cup (IF i = n THEN {"CHUNK_END"} ELSE {})
               Block(i) == Bytes(from + (i - 1) * BlockLen,
                                 IF i < n THEN BlockLen ELSE len - (n - 1) * BlockLen)
               e(i) == [block |-> OfBytes(Block(i)), counter |-> from \div ChunkLen, flags |-> Flags(i)]
    <2>3. ChunkNode(from, len) = [i \in 1 .. n |-> e(i)]
      BY DEF ChunkNode
    <2>4. "CHUNK_START" \in e(1).flags
      OBVIOUS
    <2> HIDE DEF n, e
    <2>5. 1 \in 1 .. n
      BY <2>2
    <2>6. "CHUNK_START" \in ChunkNode(from, len)[1].flags
      BY <2>3, <2>4, <2>5
    <2> QED
      BY <1>1, <2>1, <2>6
  <1>3. CASE len > ChunkLen
    <2> DEFINE pair == <<Tree[ChunkLen * Left(len)][from],
                         Tree[len - ChunkLen * Left(len)][from + ChunkLen * Left(len)]>>
               e == [block |-> OfCvs(pair), counter |-> 0, flags |-> {"PARENT"}]
    <2>1. Tree[len][from] = Parent(pair)
      <3> DEFINE Split(l, f) == Parent(<<Tree[ChunkLen * Left(l)][f],
                                    Tree[l - ChunkLen * Left(l)][f + ChunkLen * Left(l)]>>)
      <3>1. Tree = [l \in 0 .. MaxLen |-> [f \in Nat |->
                      IF l <= ChunkLen THEN ChunkNode(f, l) ELSE Split(l, f)]]
        BY TreeIs
      <3>2. Parent(pair) = Split(len, from)
        OBVIOUS
      <3> HIDE DEF Split, pair
      <3>3. ~(len <= ChunkLen)
        BY <1>3, LengthsType, MaxLenAssumption
      <3> QED
        BY <3>1, <3>2, <3>3
    <2> HIDE DEF pair
    <2>2. Parent(pair) = Append(<<>>, e)
      BY DEF Parent, Compress, Key
    <2>3. Append(<<>>, e)[1] = e
      <3> HIDE DEF e
      <3> QED
        OBVIOUS
    <2>4. Tree[len][from][1].flags = {"PARENT"}
      BY <2>1, <2>2, <2>3
    <2> QED
      BY <1>1, <2>4
  <1> QED
    BY <1>2, <1>3, LengthsType, MaxLenAssumption

LEMMA HoldingBuf ==
    ASSUME NEW c \in Nat, NEW r \in Nat, c * ChunkLen + r <= MaxLen
    PROVE  Holding(c, r).buf \in Seq(1 .. MaxLen)
  <1> DEFINE b == BlocksOf(r)
             m == r - b * BlockLen
             from == c * ChunkLen + b * BlockLen
  <1>1. b \in Nat /\ m \in Nat
    <2>1. b \in Nat /\ (r = 0 => b = 0) /\ (r > 0 => b * BlockLen < r)
      BY BlocksOfIs
    <2> HIDE DEF b
    <2>2. 0 * BlockLen = 0 /\ b * BlockLen \in Nat
      BY <2>1, LengthsType
    <2> QED
      BY <2>1, <2>2
  <1> HIDE DEF b
  <1>2. from \in Nat /\ from + m <= MaxLen
    <2>1. c * ChunkLen \in Nat /\ b * BlockLen \in Nat
      BY <1>1, LengthsType
    <2> QED
      BY <1>1, <2>1
  <1>3. Holding(c, r).buf = Bytes(from, m)
    BY DEF Holding, AtBlock, b
  <1> HIDE DEF m, from
  <1>4. Bytes(from, m) \in [1 .. m -> 1 .. MaxLen]
    BY <1>1, <1>2, MaxLenAssumption DEF Bytes
  <1> DEFINE S == 1 .. MaxLen
  <1> HIDE DEF S
  <1>5. Bytes(from, m) \in Seq(S)
    BY <1>1, <1>4, SeqDef DEF S
  <1> QED
    BY <1>3, <1>5 DEF S

LEMMA TypeOKHolds == IInv => TypeOK
  <1> SUFFICES ASSUME IInv PROVE TypeOK
    OBVIOUS
  <1>1. PICK c, r \in Nat : At(c, r)
    BY DEF IInv
  <1>2. /\ machine \in Machines /\ fed \in 0 .. MaxLen /\ left \in Nat /\ at \in {"idle", "loop"}
        /\ chunk = Holding(c, r) /\ r <= ChunkLen /\ fed = (left + c * ChunkLen) + r /\ c * ChunkLen \in Nat
    BY <1>1, LengthsType DEF At, IInv
  <1>3. /\ ChunkStateLen(chunk) = r /\ chunk.counter = c /\ chunk.blocks \in Nat /\ Len(chunk.buf) <= BlockLen
    BY <1>2, HoldingLen
  <1>4. chunk.buf \in Seq(1 .. MaxLen)
    <2>1. c * ChunkLen + r <= MaxLen
      BY <1>2, MaxLenAssumption
    <2> QED
      BY <1>2, <2>1, HoldingBuf
  <1>5. left \in 0 .. fed
    BY <1>2
  <1> QED
    BY <1>2, <1>3, <1>4, <1>5 DEF TypeOK

LEMMA StackFitsHolds == IInv => StackFits
  <1> SUFFICES ASSUME IInv PROVE StackFits
    OBVIOUS
  <1>1. PICK c, r \in Nat : At(c, r)
    BY DEF IInv
  <1>2. OnStack(stack, c) /\ chunk.counter = c
    BY <1>1, HoldingLen DEF At
  <1>3. c * ChunkLen <= MaxLen
    BY <1>1, LengthsType, MaxLenAssumption DEF At, IInv
  <1> QED
    BY <1>2, <1>3, StackedDepth DEF StackFits

LEMMA ReadyToFinalizeHolds == IInv => ReadyToFinalize
  <1> SUFFICES ASSUME IInv, at = "idle", stack # <<>>
               PROVE  IF ChunkStateLen(chunk) > 0 THEN Len(stack) = popcnt[chunk.counter] ELSE Len(stack) >= 2
    BY DEF ReadyToFinalize
  <1>1. PICK c, r \in Nat : At(c, r)
    BY DEF IInv
  <1>2. ChunkStateLen(chunk) = r /\ chunk.counter = c
    BY <1>1, HoldingLen DEF At
  <1> QED
    BY <1>1, <1>2 DEF At

LEMMA SubtreeFitsHolds == IInv => SubtreeFits
  <1> DEFINE len == SubtreeLen(left, chunk.counter * ChunkLen)
             cvs == SubtreeWide[len][fed - left][chunk.counter]
  <1> SUFFICES ASSUME IInv, at = "loop", left > ChunkLen, len > ChunkLen
               PROVE  /\ Len(cvs) >= 2 /\ Len(cvs) <= MAX_SIMD_DEGREE_OR_2
                      /\ Len(cvs) <= (IF degree = 1 THEN 2 ELSE degree)
                      /\ \A i \in DOMAIN cvs : cvs[i] # Garbage
    BY DEF SubtreeFits
  <1>1. PICK c, r \in Nat : At(c, r)
    BY DEF IInv
  <1>2. /\ machine \in Machines /\ r = 0 /\ left \in Nat /\ fed \in Nat /\ fed <= MaxLen
        /\ c * ChunkLen \in Nat /\ fed = c * ChunkLen + left /\ fed - left = c * ChunkLen
    BY <1>1, MaxLenAssumption, LengthsType DEF At, IInv
  <1>3. chunk.counter = c
    BY <1>1, HoldingLen DEF At
  <1>4. PICK p \in Powers :
              /\ SubtreeLen(left, c * ChunkLen) = ChunkLen * p /\ ChunkLen * p <= left
              /\ ChunkLen * p > ChunkLen => \E h \in Powers : p = 2 * h
    BY <1>2, SubtreeIs, MaxLenAssumption
  <1>5. len = ChunkLen * p /\ ChunkLen * p > ChunkLen
    BY <1>3, <1>4
  <1>6. p >= 2 /\ p \in Nat /\ ChunkLen * p <= MaxLen
    <2>1. PICK h \in Powers : p = 2 * h
      BY <1>4, <1>5
    <2> QED
      BY <1>2, <1>4, <2>1, PowersType, LengthsType, MaxLenAssumption
  <1>7. WideIsRow(p)
    BY <1>2, <1>6, WideRow
  <1> DEFINE w == Width(p)
  <1>8. PICK q \in Powers :
              p = w * q /\ SubtreeWide[ChunkLen * p][c * ChunkLen][c] = Row(c * ChunkLen, ChunkLen * q, w)
    BY <1>7 DEF WideIsRow
  <1>9. cvs = Row(c * ChunkLen, ChunkLen * q, w)
    BY <1>2, <1>3, <1>5, <1>8
  <1>10. w \in {2, 4, 8, 16} /\ w <= MAX_SIMD_DEGREE_OR_2 /\ w <= IF degree = 1 THEN 2 ELSE degree
    BY <1>2, <1>6, WidthIs
  <1> HIDE DEF w, len, cvs, degree, MAX_SIMD_DEGREE_OR_2
  <1>11. ChunkLen * q \in 0 .. MaxLen
    <2>1. q \in Nat \ {0} /\ w \in Nat /\ w >= 1
      BY <1>10, PowersType
    <2>2. q <= p
      BY <1>8, <1>10, <2>1
    <2>3. ChunkLen * q <= ChunkLen * p /\ ChunkLen * q \in Nat /\ ChunkLen * p \in Nat
      BY <1>6, <2>1, <2>2, LengthsType
    <2> QED
      BY <1>6, <2>3, MaxLenAssumption
  <1>12. Len(cvs) = w /\ DOMAIN cvs = 1 .. w
    BY <1>9, <1>10 DEF Row
  <1>13. ASSUME NEW i \in 1 .. w PROVE cvs[i] # Garbage
    <2> DEFINE size == ChunkLen * q
               from == c * ChunkLen + (i - 1) * size
    <2>1. size \in 0 .. MaxLen /\ i - 1 \in Nat
      BY <1>10, <1>11
    <2>2. cvs[i] = Tree[size][from]
      BY <1>9 DEF Row
    <2> HIDE DEF size
    <2>3. from \in Nat
      BY <1>2, <2>1, MaxLenAssumption
    <2> HIDE DEF from
    <2> QED
      BY <2>1, <2>2, <2>3, NodeWritten
  <1> QED
    BY <1>10, <1>12, <1>13

-----------------------------------------------------------------------------
(* The digest.                                                             *)

\* The tree of a file is cut where a full subtree ends that is its larger half.
LEMMA TreeCut ==
    ASSUME NEW n \in 0 .. MaxLen, n > ChunkLen, NEW from \in Nat,
           NEW q \in Powers, ChunkLen * q < n, 2 * (ChunkLen * q) >= n
    PROVE  Tree[n][from] = Parent(<<Tree[ChunkLen * q][from], Tree[n - ChunkLen * q][from + ChunkLen * q]>>)
  <1> DEFINE Split(l, f, p) == Parent(<<Tree[ChunkLen * p][f], Tree[l - ChunkLen * p][f + ChunkLen * p]>>)
  <1>1. Tree = [l \in 0 .. MaxLen |-> [f \in Nat |->
                  IF l <= ChunkLen THEN ChunkNode(f, l) ELSE Split(l, f, Left(l))]]
    BY TreeIs
  <1>2. Left(n) = q
    BY LeftIs
  <1>3. ~(n <= ChunkLen)
    BY LengthsType, MaxLenAssumption
  <1>4. Split(n, from, q) = Parent(<<Tree[ChunkLen * q][from], Tree[n - ChunkLen * q][from + ChunkLen * q]>>)
    OBVIOUS
  <1> HIDE DEF Split
  <1>5. Tree[n][from] = Split(n, from, Left(n))
    BY <1>1, <1>3
  <1> QED
    BY <1>2, <1>4, <1>5

\* The chunks above the k-th subtree of the stack, up to the end of the file,
\* are its right sibling.
Below(b, len, k) ==
    b[k] * ChunkLen < len /\ len - b[k] * ChunkLen <= ChunkLen * (b[k] - b[k - 1])

LEMMA StackedUp ==
    ASSUME NEW cvs, NEW b, NEW counter \in Nat, Stacked(cvs, b, counter),
           NEW len \in 0 .. MaxLen, NEW k \in 1 .. Len(cvs), Below(b, len, k)
    PROVE  Parent(<<cvs[k], Tree[len - b[k] * ChunkLen][b[k] * ChunkLen]>>)
             = Tree[len - b[k - 1] * ChunkLen][b[k - 1] * ChunkLen]
  <1> DEFINE q == b[k] - b[k - 1]
             n == len - b[k - 1] * ChunkLen
             from == b[k - 1] * ChunkLen
  <1>1. /\ b[k] \in Nat /\ b[k - 1] \in Nat /\ b[k - 1] < b[k] /\ q \in Nat \ {0} /\ q \in Powers
        /\ cvs[k] = Tree[ChunkLen * q][from]
    <2>1. cvs[k] = Tree[ChunkLen * q][from]
      BY DEF Stacked
    <2> QED
      BY <2>1, StackedSizes
  <1>2. /\ from \in Nat /\ ChunkLen * q \in Nat /\ ChunkLen * q >= ChunkLen
        /\ b[k] * ChunkLen = from + ChunkLen * q /\ b[k] * ChunkLen \in Nat
    <2>1. b[k] = b[k - 1] + q
      BY <1>1
    <2> HIDE DEF q
    <2>2. b[k] * ChunkLen = b[k - 1] * ChunkLen + ChunkLen * q
      BY <1>1, <2>1, LengthsType
    <2>3. ChunkLen * q \in Nat /\ ChunkLen * q >= ChunkLen /\ b[k] * ChunkLen \in Nat /\ b[k - 1] * ChunkLen \in Nat
      BY <1>1, LengthsType
    <2> QED
      BY <2>2, <2>3
  <1>3. b[k] * ChunkLen < len /\ len - b[k] * ChunkLen <= ChunkLen * q
    BY DEF Below
  <1>4. len \in Nat /\ len <= MaxLen
    BY MaxLenAssumption
  <1> HIDE DEF q, from
  <1>5. n = len - from
    BY DEF from
  <1> HIDE DEF n
  <1>6. /\ n \in 0 .. MaxLen /\ n > ChunkLen /\ ChunkLen * q < n /\ 2 * (ChunkLen * q) >= n
        /\ n - ChunkLen * q = len - b[k] * ChunkLen
    BY <1>2, <1>3, <1>4, <1>5, LengthsType, MaxLenAssumption
  <1>7. Tree[n][from] = Parent(<<Tree[ChunkLen * q][from], Tree[n - ChunkLen * q][from + ChunkLen * q]>>)
    BY <1>1, <1>2, <1>6, TreeCut
  <1> QED
    BY <1>1, <1>2, <1>6, <1>7 DEF n, from

\* How finalize goes up through the stack.
Up(cvs, k, cv) == Parent(<<cvs[k], cv>>)
Climbs(output, cvs, n, first) ==
    output = [i \in 0 .. n |-> IF i = 0 THEN first ELSE Up(cvs, n - i + 1, output[i - 1])]

LEMMA ClimbsExist ==
    ASSUME NEW cvs, NEW bound \in Nat, NEW first
    PROVE  \E g : Climbs(g, cvs, bound, first)
  <1> DEFINE Upto(n) == \E g : \A i \in 0 .. n : g[i] = IF i = 0 THEN first ELSE Up(cvs, bound - i + 1, g[i - 1])
             N == {n \in Nat : Upto(n)}
  <1>1. 0 \in N
    <2> DEFINE h == [i \in {0} |-> first]
    <2>1. \A i \in 0 .. 0 : h[i] = IF i = 0 THEN first ELSE Up(cvs, bound - i + 1, h[i - 1])
      OBVIOUS
    <2> HIDE DEF h
    <2> QED
      BY <2>1
  <1>2. ASSUME NEW n \in Nat, n < bound, n \in N PROVE n + 1 \in N
    <2>1. PICK g : \A i \in 0 .. n : g[i] = IF i = 0 THEN first ELSE Up(cvs, bound - i + 1, g[i - 1])
      BY <1>2
    <2> DEFINE h == [i \in 0 .. n + 1 |-> IF i = n + 1 THEN Up(cvs, bound - i + 1, g[n]) ELSE g[i]]
    <2>2. \A i \in 0 .. n + 1 : h[i] = IF i = 0 THEN first ELSE Up(cvs, bound - i + 1, h[i - 1])
      <3>1. ASSUME NEW i \in 0 .. n + 1, i = n + 1
            PROVE  h[i] = Up(cvs, bound - i + 1, h[i - 1])
        <4>1. h[i] = Up(cvs, bound - i + 1, g[n]) /\ i - 1 = n /\ i - 1 \in 0 .. n + 1 /\ i - 1 # n + 1
          BY <3>1
        <4>2. h[i - 1] = g[n]
          BY <4>1
        <4> QED
          BY <4>1, <4>2
      <3>2. ASSUME NEW i \in 0 .. n + 1, i # n + 1
            PROVE  h[i] = IF i = 0 THEN first ELSE Up(cvs, bound - i + 1, h[i - 1])
        <4>1. i \in 0 .. n /\ h[i] = g[i]
          BY <3>2
        <4>2. i # 0 => i - 1 \in 0 .. n + 1 /\ i - 1 # n + 1 /\ h[i - 1] = g[i - 1]
          BY <3>2
        <4> HIDE DEF h
        <4> QED
          BY <2>1, <4>1, <4>2
      <3> QED
        BY <3>1, <3>2
    <2> HIDE DEF h
    <2> QED
      BY <2>2
  <1>3. Upto(bound)
    <2> HIDE DEF Upto
    <2>1. \A n \in Nat : n < bound /\ n \in N => n + 1 \in N
      BY <1>2
    <2> HIDE DEF N
    <2>2. bound \in N
      BY <1>1, <2>1, UpTo
    <2> QED
      BY <2>2 DEF N
  <1>4. PICK g : \A i \in 0 .. bound : g[i] = IF i = 0 THEN first ELSE Up(cvs, bound - i + 1, g[i - 1])
    BY <1>3
  <1> DEFINE h == [i \in 0 .. bound |-> g[i]]
  <1>5. h = [i \in 0 .. bound |-> IF i = 0 THEN first ELSE Up(cvs, bound - i + 1, h[i - 1])]
    BY <1>4
  <1> HIDE DEF h
  <1> QED
    BY <1>5 DEF Climbs

\* From a node that reaches to the end of the file, up to the root.
LEMMA ClimbIs ==
    ASSUME NEW cvs, NEW b, NEW counter \in Nat, Stacked(cvs, b, counter),
           NEW len \in 0 .. MaxLen, NEW n \in 0 .. Len(cvs), \A k \in 1 .. n : Below(b, len, k),
           NEW first, first = Tree[len - b[n] * ChunkLen][b[n] * ChunkLen],
           NEW output, Climbs(output, cvs, n, first)
    PROVE  output[n] = Tree[len][0]
  <1> DEFINE Node(k) == Tree[len - b[k] * ChunkLen][b[k] * ChunkLen]
             N == {i \in 0 .. n : output[i] = Node(n - i)}
  <1>1. n \in Nat /\ Len(cvs) \in Nat /\ n - 0 = n /\ n - n = 0 /\ b[0] = 0
    BY DEF Stacked
  <1>2. output = [i \in 0 .. n |-> IF i = 0 THEN first ELSE Up(cvs, n - i + 1, output[i - 1])]
    BY DEF Climbs
  <1>3. first = Node(n)
    OBVIOUS
  <1>4. ASSUME NEW k \in 1 .. n PROVE Up(cvs, k, Node(k)) = Node(k - 1)
    <2>1. k \in 1 .. Len(cvs)
      BY <1>1
    <2> QED
      BY <2>1, StackedUp DEF Up
  <1>5. Node(0) = Tree[len][0]
    <2>1. 0 * ChunkLen = 0 /\ len - 0 = len
      BY LengthsType
    <2> QED
      BY <1>1, <2>1
  <1> HIDE DEF Node
  <1>6. 0 \in N
    BY <1>1, <1>2, <1>3
  <1>7. ASSUME NEW i \in Nat, i < n, i \in N PROVE i + 1 \in N
    <2>1. i + 1 \in 0 .. n /\ (i + 1) - 1 = i /\ n - i \in 1 .. n /\ n - (i + 1) + 1 = n - i /\ (n - i) - 1 = n - (i + 1)
      BY <1>1, <1>7
    <2>2. output[i + 1] = Up(cvs, n - (i + 1) + 1, output[(i + 1) - 1])
      BY <1>2, <2>1
    <2>3. output[i] = Node(n - i)
      BY <1>7
    <2>4. Up(cvs, n - i, Node(n - i)) = Node((n - i) - 1)
      BY <1>4, <2>1
    <2>5. output[i + 1] = Node(n - (i + 1))
      BY <2>1, <2>2, <2>3, <2>4
    <2> QED
      BY <2>1, <2>5
  <1>8. \A i \in N : output[i] = Node(n - i)
    OBVIOUS
  <1> HIDE DEF N
  <1>9. n \in N
    <2>1. \A i \in Nat : i < n /\ i \in N => i + 1 \in N
      BY <1>7
    <2>2. \A i \in 0 .. n : i \in N
      BY <1>1, <1>6, <2>1, UpTo
    <2> QED
      BY <1>1, <2>2
  <1> QED
    BY <1>1, <1>5, <1>8, <1>9

LEMMA ChunksSum ==
    ASSUME NEW a \in Nat, NEW d \in Nat
    PROVE  /\ (a + d) * ChunkLen = a * ChunkLen + ChunkLen * d
           /\ ChunkLen * d \in Nat /\ a * ChunkLen \in Nat /\ (d # 0 => ChunkLen * d # 0)
  <1>1. \A x, y, z \in Nat : (x + y) * z = x * z + z * y
    OBVIOUS
  <1>2. \A x, y \in Nat : x * y \in Nat /\ (x # 0 /\ y # 0 => x * y # 0)
    OBVIOUS
  <1> QED
    BY <1>1, <1>2, LengthsType

\* With bytes in the chunk: everything before is settled, and the chunk is the
\* right sibling of the top subtree.
LEMMA BelowChunk ==
    ASSUME NEW cvs, NEW b, NEW counter \in Nat, Stacked(cvs, b, counter),
           NEW r \in Nat, r > 0, r <= ChunkLen, counter * ChunkLen + r <= MaxLen,
           Len(cvs) = popcnt[counter], NEW k \in 1 .. Len(cvs)
    PROVE  Below(b, counter * ChunkLen + r, k)
  <1> DEFINE q == b[k] - b[k - 1]
             d == counter - b[k]
  <1>1. b[k] \in Nat /\ b[k] <= counter /\ q \in Nat \ {0}
    BY StackedSizes
  <1>2. d < q
    <2>1. counter * ChunkLen <= MaxLen
      BY LengthsType, MaxLenAssumption
    <2>2. counter <= MaxLen
      BY <2>1, ChunksFit, MaxLenAssumption
    <2>3. \A i \in 1 .. Len(cvs) : counter - b[i] < b[i] - b[i - 1]
      BY <2>2, StackedSettled
    <2> QED
      BY <2>3
  <1>3. d \in Nat /\ counter = b[k] + d
    BY <1>1
  <1> HIDE DEF q, d
  <1>4. counter * ChunkLen = b[k] * ChunkLen + ChunkLen * d /\ ChunkLen * d \in Nat /\ b[k] * ChunkLen \in Nat
    BY <1>1, <1>3, ChunksSum
  <1>5. d + 1 <= q /\ d + 1 \in Nat
    BY <1>1, <1>2, <1>3
  <1>6. ChunkLen * (d + 1) <= ChunkLen * q /\ ChunkLen * (d + 1) = ChunkLen * d + ChunkLen /\ ChunkLen * q \in Nat
    <2>1. \A i, j \in Nat : i <= j => ChunkLen * i <= ChunkLen * j
      BY LengthsType
    <2>2. q \in Nat
      BY <1>1
    <2>3. ChunkLen * (d + 1) <= ChunkLen * q
      BY <1>5, <2>1, <2>2
    <2> QED
      BY <1>3, <2>2, <2>3, LengthsType
  <1>7. /\ b[k] * ChunkLen < counter * ChunkLen + r
        /\ (counter * ChunkLen + r) - b[k] * ChunkLen <= ChunkLen * q
    BY <1>4, <1>6, LengthsType
  <1> QED
    BY <1>7 DEF Below, q

\* Without any: what is above a subtree is its right sibling, or as a whole.
LEMMA BelowStack ==
    ASSUME NEW cvs, NEW b, NEW counter \in Nat, Stacked(cvs, b, counter),
           NEW k \in 1 .. Len(cvs), k < Len(cvs)
    PROVE  Below(b, counter * ChunkLen, k)
  <1> DEFINE q == b[k] - b[k - 1]
             d == counter - b[k]
  <1>1. b[k] \in Nat /\ q \in Nat \ {0} /\ b[k] < counter /\ d <= q
    <2>1. b[k] \in Nat /\ q \in Nat \ {0} /\ b[k + 1] - b[k] > 0 /\ b[k + 1] <= counter /\ b[k + 1] \in Nat
      BY StackedSizes
    <2>2. d <= q
      BY DEF Stacked
    <2> HIDE DEF q, d
    <2> QED
      BY <2>1, <2>2
  <1>2. d \in Nat \ {0} /\ counter = b[k] + d
    BY <1>1
  <1> HIDE DEF q, d
  <1>3. counter * ChunkLen = b[k] * ChunkLen + ChunkLen * d /\ ChunkLen * d \in Nat \ {0} /\ b[k] * ChunkLen \in Nat
    BY <1>1, <1>2, ChunksSum
  <1>4. ChunkLen * d <= ChunkLen * q /\ ChunkLen * q \in Nat
    <2>1. \A i, j \in Nat : i <= j => ChunkLen * i <= ChunkLen * j
      BY LengthsType
    <2> QED
      BY <1>1, <1>2, <2>1, LengthsType
  <1>5. b[k] * ChunkLen < counter * ChunkLen /\ counter * ChunkLen - b[k] * ChunkLen <= ChunkLen * q
    BY <1>3, <1>4
  <1> QED
    BY <1>5 DEF Below, q

LEMMA FinalizeIs ==
    ASSUME IInv, at = "idle"
    PROVE  Finalize = Blake3(fed)
  <1>1. PICK c, r \in Nat : At(c, r)
    BY DEF IInv
  <1>2. /\ chunk = Holding(c, r) /\ fed = c * ChunkLen + r /\ c * ChunkLen \in Nat /\ r <= ChunkLen
        /\ fed \in 0 .. MaxLen /\ fed <= MaxLen /\ OnStack(stack, c)
        /\ r > 0 => Len(stack) = popcnt[c]
        /\ r = 0 /\ stack # <<>> => Len(stack) >= 2
    BY <1>1, LengthsType, MaxLenAssumption DEF At, IInv
  <1>3. ChunkStateLen(chunk) = r /\ ChunkOutput(chunk) = ChunkNode(c * ChunkLen, r)
    BY <1>2, HoldingLen, ChunkOutputIs
  <1>4. r \in 0 .. MaxLen /\ Tree[r][c * ChunkLen] = ChunkNode(c * ChunkLen, r)
    <2>1. r \in 0 .. MaxLen
      BY <1>2, MaxLenAssumption
    <2> QED
      BY <1>2, <2>1, ChunkTree
  <1>5. PICK b : Stacked(stack, b, c)
    BY <1>2 DEF OnStack
  <1>6. stack \in Seq(Nodes) /\ Len(stack) \in Nat /\ b[Len(stack)] = c /\ b[0] = 0
    BY <1>5 DEF Stacked
  <1>7. CASE stack = <<>>
    <2>1. c = 0
      BY <1>6, <1>7
    <2>2. c * ChunkLen = 0 /\ fed = r
      BY <1>2, <2>1, LengthsType
    <2>3. Finalize = RootBytes(ChunkOutput(chunk))
      BY <1>7 DEF Finalize
    <2>4. ChunkOutput(chunk) = Tree[fed][0]
      BY <1>3, <1>4, <2>2
    <2> QED
      BY <2>3, <2>4 DEF Blake3
  <1>8. CASE stack # <<>> /\ r > 0
    <2> DEFINE n == Len(stack)
               first == ChunkOutput(chunk)
               output == CHOOSE g : Climbs(g, stack, n, first)
    <2>1. Finalize = RootBytes(output[n])
      BY <1>3, <1>8 DEF Finalize, Climbs, Up
    <2>2. Climbs(output, stack, n, first)
      BY <1>6, ClimbsExist
    <2>3. first = Tree[fed - b[n] * ChunkLen][b[n] * ChunkLen]
      <3>1. fed - b[n] * ChunkLen = r
        BY <1>2, <1>6
      <3> QED
        BY <1>3, <1>4, <1>6, <3>1
    <2>4. \A k \in 1 .. n : Below(b, fed, k)
      BY <1>2, <1>5, <1>8, BelowChunk
    <2>5. n \in 0 .. Len(stack)
      BY <1>6
    <2> HIDE DEF n, first, output
    <2>6. output[n] = Tree[fed][0]
      BY <1>2, <1>5, <2>2, <2>3, <2>4, <2>5, ClimbIs
    <2> QED
      BY <2>1, <2>6 DEF Blake3
  <1>9. CASE stack # <<>> /\ r = 0
    <2> DEFINE n == Len(stack) - 2
               first == Parent(SubSeq(stack, n + 1, n + 2))
               output == CHOOSE g : Climbs(g, stack, n, first)
               top == n + 1
    <2>1. Finalize = RootBytes(output[n])
      BY <1>3, <1>9 DEF Finalize, Climbs, Up
    <2>2. n \in Nat /\ n \in 0 .. Len(stack) /\ top \in 1 .. Len(stack) /\ top < Len(stack) /\ top - 1 = n /\ top + 1 = Len(stack) /\ n + 2 = top + 1
          /\ top + 1 \in 1 .. Len(stack) /\ (top + 1) - 1 = top /\ top \in 1 .. Len(stack) - 1
      BY <1>2, <1>6, <1>9
    <2> HIDE DEF n
    <2>3. Climbs(output, stack, n, first)
      BY <2>2, ClimbsExist
    <2>4. fed = c * ChunkLen
      BY <1>2, <1>9
    <2>5. \A k \in 1 .. top : Below(b, fed, k)
      BY <1>5, <1>6, <2>2, <2>4, BelowStack
    <2> HIDE DEF output
    <2>6. first = Tree[fed - b[n] * ChunkLen][b[n] * ChunkLen]
      <3>1. SubSeq(stack, top, top + 1) = <<stack[top], stack[top + 1]>>
        <4> HIDE DEF top
        <4> QED
          BY <1>6, <2>2, PairIs
      <3>2. stack[top + 1] = Tree[fed - b[top] * ChunkLen][b[top] * ChunkLen]
        <4>1. b[top + 1] = c
          BY <1>6, <2>2
        <4>2. stack[top + 1] = Tree[ChunkLen * (b[top + 1] - b[top])][b[top] * ChunkLen]
          <5> DEFINE k == top + 1
          <5>1. k \in 1 .. Len(stack) /\ k - 1 = top
            BY <2>2
          <5> HIDE DEF k, top
          <5>2. stack[k] = Tree[ChunkLen * (b[k] - b[k - 1])][b[k - 1] * ChunkLen]
            BY <1>5, <5>1 DEF Stacked
          <5> QED
            BY <5>1, <5>2 DEF k
        <4>3. b[top] \in Nat /\ b[top] <= c
          <5> HIDE DEF top
          <5> QED
            BY <1>5, <2>2, StackedSizes
        <4>4. ChunkLen * (c - b[top]) = c * ChunkLen - b[top] * ChunkLen
          BY <4>3, LengthsType
        <4> QED
          BY <2>4, <4>1, <4>2, <4>4
      <3>3. Parent(<<stack[top], Tree[fed - b[top] * ChunkLen][b[top] * ChunkLen]>>)
              = Tree[fed - b[top - 1] * ChunkLen][b[top - 1] * ChunkLen]
        <4>1. Below(b, fed, top)
          BY <2>2, <2>5
        <4> HIDE DEF top
        <4> QED
          BY <1>2, <1>5, <2>2, <4>1, StackedUp
      <3>4. first = Parent(SubSeq(stack, top, top + 1))
        BY <2>2
      <3> QED
        BY <2>2, <3>1, <3>2, <3>3, <3>4
    <2>7. \A k \in 1 .. n : Below(b, fed, k)
      BY <2>2, <2>5
    <2> HIDE DEF first
    <2>8. output[n] = Tree[fed][0]
      BY <1>2, <1>5, <2>2, <2>3, <2>6, <2>7, ClimbIs
    <2> QED
      BY <2>1, <2>8 DEF Blake3
  <1> QED
    BY <1>7, <1>8, <1>9

-----------------------------------------------------------------------------
(* What holds in every state of the hasher.                                *)

\* The hasher's fields are in range, and account for every byte of the file:
\* in chunks finished, in the one begun, or still to be taken.
THEOREM TypeCorrect == Spec => []TypeOK
  <1> QED
    BY SpecIInv, TypeOKHolds, PTL

\* The stack never outgrows the binary digits of the chunks so far, so the 55
\* entries of cv_stack are enough for every 64-bit length.
THEOREM StackAlwaysFits == Spec => []StackFits
  <1> QED
    BY SpecIInv, StackFitsHolds, PTL

\* blake3_hasher_finalize finds what it relies on: no unmerged CVs under a chunk
\* that was begun, and two at least where there is none.
THEOREM AlwaysReadyToFinalize == Spec => []ReadyToFinalize
  <1> QED
    BY SpecIInv, ReadyToFinalizeHolds, PTL

\* blake3_compress_subtree_wide returns at least two CVs, as many as its callers
\* have room for, and all of them were written.
THEOREM SubtreesAlwaysFit == Spec => []SubtreeFits
  <1> QED
    BY SpecIInv, SubtreeFitsHolds, PTL

\* The digest is that of the whole file by the definition of BLAKE3: for files
\* of any length, cut into any pieces, on each of the machines.
THEOREM DigestAlwaysBlake3 == Spec => []DigestIsBlake3
  <1>1. IInv => DigestIsBlake3
    BY FinalizeIs DEF DigestIsBlake3
  <1> QED
    BY <1>1, SpecIInv, PTL

=============================================================================
