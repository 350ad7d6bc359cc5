------------------------- MODULE PathResolveProofs -------------------------
(***************************************************************************)
(* Which files verify finds, for folders and files of every depth and any  *)
(* names.                                                                  *)
(***************************************************************************)
EXTENDS PathResolve, SequenceTheorems, WellFoundedInduction, TLAPS

-----------------------------------------------------------------------------
(* What holds up to a bound, shown from each number to the next.           *)

\* A set of natural numbers that has 0 and every number after one of its
\* own has all up to a bound.
LEMMA UpTo ==
    ASSUME NEW bound \in Nat, NEW N, 0 \in N,
           \A n \in 1 .. bound : n - 1 \in N => n \in N
    PROVE  \A n \in 0 .. bound : n \in N
  <1> DEFINE Left == {n \in 0 .. bound : n \notin N}
  <1>1. SUFFICES ASSUME Left # {} PROVE FALSE
    OBVIOUS
  <1>2. PICK n \in Left : \A m \in Left : ~(m < n)
    <2>1. Left \in SUBSET Nat
      OBVIOUS
    <2> HIDE DEF Left
    <2>2. PICK n \in Left : \A m \in Left : <<m, n>> \notin OpToRel(<, Nat)
      BY <1>1, <2>1, WFMin, NatLessThanWellFounded
    <2> QED
      BY <2>1, <2>2 DEF OpToRel
  <1>3. n - 1 \in 0 .. bound /\ n - 1 \notin Left
    BY <1>2
  <1> QED
    BY <1>2, <1>3

-----------------------------------------------------------------------------
(* Joining paths.                                                          *)

\* One more part: what is joined of the parts before it is followed by a
\* name, or loses its last.
Further(p, c) == IF c # ".." THEN Append(p, c) ELSE IF p = <<>> THEN <<>> ELSE Front(p)

\* j[n] is what is joined of the first n parts.
Joins(j, base, parts, bound) ==
    j = [n \in 0 .. bound |-> IF n = 0 THEN base ELSE Further(j[n - 1], parts[n])]

LEMMA FurtherType ==
    ASSUME NEW p \in Seq(Names), NEW c \in Names
    PROVE  Further(p, c) \in Seq(Names)
  <1>1. Append(p, c) \in Seq(Names) /\ <<>> \in Seq(Names)
    OBVIOUS
  <1>2. p # <<>> => Front(p) \in Seq(Names)
    <2>1. p # <<>> => Len(p) - 1 \in 0 .. Len(p)
      OBVIOUS
    <2> QED
      BY <2>1 DEF Front
  <1> QED
    BY <1>1, <1>2 DEF Further

\* There is such a function for any parts.
LEMMA JoinsExist ==
    ASSUME NEW base, NEW parts, NEW bound \in Nat
    PROVE  \E j : Joins(j, base, parts, bound)
  <1> DEFINE N == {n \in Nat : \E j : Joins(j, base, parts, n)}
  <1>1. 0 \in N
    <2>1. Joins([n \in 0 .. 0 |-> base], base, parts, 0)
      BY DEF Joins
    <2> QED
      BY <2>1
  <1>2. ASSUME NEW n \in 1 .. bound, n - 1 \in N PROVE n \in N
    <2>1. PICK j : Joins(j, base, parts, n - 1)
      BY <1>2
    <2> DEFINE k == [m \in 0 .. n |-> IF m = n THEN Further(j[n - 1], parts[n]) ELSE j[m]]
    <2>2. \A m \in 0 .. n : k[m] = IF m = 0 THEN base ELSE Further(k[m - 1], parts[m])
      BY <2>1 DEF Joins
    <2>3. Joins(k, base, parts, n)
      BY <2>2 DEF Joins
    <2> QED
      BY <2>3
  <1>3. bound \in 0 .. bound
    OBVIOUS
  <1> HIDE DEF N
  <1>4. bound \in N
    BY <1>1, <1>2, <1>3, UpTo
  <1> QED
    BY <1>4 DEF N

LEMMA JoinJoins ==
    ASSUME NEW base, NEW parts \in Seq(Names)
    PROVE  \E j : Joins(j, base, parts, Len(parts)) /\ Join(base, parts) = j[Len(parts)]
  <1> DEFINE j == CHOOSE j : Joins(j, base, parts, Len(parts))
  <1>1. Joins(j, base, parts, Len(parts))
    BY JoinsExist
  <1>2. Join(base, parts) = j[Len(parts)]
    BY DEF Join, Joins, Further
  <1> QED
    BY <1>1, <1>2

LEMMA JoinsNext ==
    ASSUME NEW base, NEW parts, NEW bound, NEW j, Joins(j, base, parts, bound),
           NEW n \in 1 .. bound
    PROVE  j[n] = Further(j[n - 1], parts[n])
  <1>1. n \in 0 .. bound /\ n # 0
    OBVIOUS
  <1> QED
    BY <1>1 DEF Joins

LEMMA JoinsType ==
    ASSUME NEW base \in Seq(Names), NEW parts \in Seq(Names), NEW j,
           Joins(j, base, parts, Len(parts))
    PROVE  \A n \in 0 .. Len(parts) : j[n] \in Seq(Names)
  <1> DEFINE N == {n \in 0 .. Len(parts) : j[n] \in Seq(Names)}
  <1>1. 0 \in N
    BY DEF Joins
  <1>2. ASSUME NEW n \in 1 .. Len(parts), n - 1 \in N PROVE n \in N
    <2>1. j[n] = Further(j[n - 1], parts[n]) /\ parts[n] \in Names
      BY <1>2 DEF Joins
    <2>2. j[n - 1] \in Seq(Names)
      BY <1>2
    <2>3. Further(j[n - 1], parts[n]) \in Seq(Names)
      BY <2>1, <2>2, FurtherType
    <2> QED
      BY <2>1, <2>3
  <1>3. Len(parts) \in Nat
    OBVIOUS
  <1> HIDE DEF N
  <1>4. \A n \in 0 .. Len(parts) : n \in N
    BY <1>1, <1>2, <1>3, UpTo
  <1> QED
    BY <1>4 DEF N

\* What is joined is a path, and nothing is joined of no parts.
LEMMA JoinType ==
    ASSUME NEW base \in Seq(Names), NEW parts \in Seq(Names)
    PROVE  Join(base, parts) \in Seq(Names)
  BY JoinJoins, JoinsType

LEMMA JoinNothing ==
    ASSUME NEW base
    PROVE  Join(base, <<>>) = base
  <1>1. <<>> \in Seq(Names) /\ Len(<<>>) = 0
    BY EmptySeq
  <1>2. PICK j : Joins(j, base, <<>>, Len(<<>>)) /\ Join(base, <<>>) = j[Len(<<>>)]
    BY <1>1, JoinJoins
  <1>3. 0 \in 0 .. Len(<<>>)
    BY <1>1
  <1>4. j[0] = base
    BY <1>2, <1>3 DEF Joins
  <1> QED
    BY <1>1, <1>2, <1>4

LEMMA NamesAssociative ==
    ASSUME NEW p \in Seq(Names), NEW q \in Seq(Names), NEW r \in Seq(Names)
    PROVE  (p \o q) \o r = p \o (q \o r)
  BY ConcatAssociative

LEMMA AppendNext ==
    ASSUME NEW p \in Seq(Names), NEW f \in Seq(Names), NEW n \in 1 .. Len(f)
    PROVE  Append(p \o SubSeq(f, 1, n - 1), f[n]) = p \o SubSeq(f, 1, n)
  <1> DEFINE q == SubSeq(f, 1, n - 1)
  <1>1. q \in Seq(Names) /\ f[n] \in Names /\ <<f[n]>> \in Seq(Names)
    OBVIOUS
  <1>2. SubSeq(f, 1, n) = q \o <<f[n]>>
    <2>1. 1 \in 1 .. Len(f) /\ n \in 1 .. Len(f)
      OBVIOUS
    <2> QED
      BY <2>1, SubSeqRecursiveSecond
  <1> HIDE DEF q
  <1>3. p \o q \in Seq(Names)
    BY <1>1, ConcatProperties
  <1>4. Append(p \o q, f[n]) = (p \o q) \o <<f[n]>>
    BY <1>1, <1>3, AppendIsConcat
  <1>5. (p \o q) \o <<f[n]>> = p \o (q \o <<f[n]>>)
    BY <1>1, NamesAssociative
  <1> QED
    BY <1>2, <1>4, <1>5 DEF q

\* Names joined after other parts follow what is joined of those.
LEMMA JoinNames ==
    ASSUME NEW base \in Seq(Names), NEW a \in Seq(Names), NEW f \in Seq(Names \ {".."})
    PROVE  Join(base, a \o f) = Join(base, a) \o f
  <1> DEFINE c == a \o f
  <1>1. /\ f \in Seq(Names) /\ c \in Seq(Names) /\ Len(c) = Len(a) + Len(f)
        /\ \A n \in 1 .. Len(a) : c[n] = a[n]
        /\ \A n \in 1 .. Len(f) : c[Len(a) + n] = f[n] /\ f[n] # ".."
    OBVIOUS
  <1> HIDE DEF c
  <1>2. PICK i : Joins(i, base, a, Len(a)) /\ Join(base, a) = i[Len(a)]
    BY JoinJoins
  <1>3. PICK j : Joins(j, base, c, Len(c)) /\ Join(base, c) = j[Len(c)]
    BY <1>1, JoinJoins
  <1>4. i[Len(a)] \in Seq(Names)
    BY <1>2, JoinsType
  <1>5. j[Len(a)] = i[Len(a)]
    <2> DEFINE N == {n \in 0 .. Len(a) : j[n] = i[n]}
    <2>1. 0 \in N
      BY <1>1, <1>2, <1>3 DEF Joins
    <2>2. ASSUME NEW n \in 1 .. Len(a), n - 1 \in N PROVE n \in N
      <3>1. i[n] = Further(i[n - 1], a[n])
        BY <1>2, <2>2 DEF Joins
      <3>2. j[n] = Further(j[n - 1], c[n])
        BY <1>1, <1>3, <2>2 DEF Joins
      <3>3. c[n] = a[n]
        BY <1>1
      <3> QED
        BY <2>2, <3>1, <3>2, <3>3
    <2>3. Len(a) \in Nat
      OBVIOUS
    <2> HIDE DEF N
    <2>4. \A n \in 0 .. Len(a) : n \in N
      BY <2>1, <2>2, <2>3, UpTo
    <2> QED
      BY <2>3, <2>4 DEF N
  <1>6. j[Len(a) + Len(f)] = i[Len(a)] \o f
    <2> DEFINE N == {n \in 0 .. Len(f) : j[Len(a) + n] = i[Len(a)] \o SubSeq(f, 1, n)}
    <2>1. 0 \in N
      <3>1. SubSeq(f, 1, 0) = <<>>
        BY SubSeqEmpty
      <3>2. i[Len(a)] \o <<>> = i[Len(a)]
        BY <1>4, ConcatEmptySeq
      <3>3. Len(a) + 0 = Len(a) /\ 0 \in 0 .. Len(f)
        OBVIOUS
      <3> QED
        BY <1>5, <3>1, <3>2, <3>3
    <2>2. ASSUME NEW n \in 1 .. Len(f), n - 1 \in N PROVE n \in N
      <3> DEFINE x == Len(a) + n
      <3>1. x \in 1 .. Len(c) /\ x - 1 = Len(a) + (n - 1)
        BY <1>1
      <3>2. j[x] = Further(j[Len(a) + (n - 1)], c[x])
        <4> HIDE DEF x
        <4>1. j[x] = Further(j[x - 1], c[x])
          BY <1>3, <3>1, JoinsNext
        <4> QED
          BY <3>1, <4>1
      <3>3. x \in Nat /\ c[x] = f[n] /\ f[n] # ".."
        BY <1>1
      <3>4. j[Len(a) + (n - 1)] = i[Len(a)] \o SubSeq(f, 1, n - 1)
        BY <2>2
      <3>5. j[Len(a) + n] = Append(i[Len(a)] \o SubSeq(f, 1, n - 1), f[n])
        BY <3>2, <3>3, <3>4 DEF Further
      <3>6. j[Len(a) + n] = i[Len(a)] \o SubSeq(f, 1, n)
        BY <1>1, <1>4, <3>5, AppendNext
      <3> QED
        BY <3>6
    <2>3. Len(f) \in Nat
      OBVIOUS
    <2>4. SubSeq(f, 1, Len(f)) = f
      BY SubSeqFull
    <2> HIDE DEF N
    <2>5. \A n \in 0 .. Len(f) : n \in N
      BY <2>1, <2>2, <2>3, UpTo
    <2>6. Len(f) \in N
      BY <2>3, <2>5
    <2> QED
      BY <2>4, <2>6 DEF N
  <1> QED
    BY <1>1, <1>2, <1>3, <1>6 DEF c

LEMMA JoinOnlyNames ==
    ASSUME NEW base \in Seq(Names), NEW f \in Seq(Names \ {".."})
    PROVE  Join(base, f) = base \o f
  <1>1. <<>> \in Seq(Names) /\ <<>> \o f = f
    OBVIOUS
  <1>2. Join(base, <<>> \o f) = Join(base, <<>>) \o f
    BY <1>1, JoinNames
  <1> QED
    BY <1>1, <1>2, JoinNothing

-----------------------------------------------------------------------------
(* Names that fall apart.                                                  *)

Apart(parts) == [i \in DOMAIN parts |-> Split[parts[i]]]

Flattens(g, seqs, bound) == g = [i \in 1 .. bound |-> IF i = 1 THEN seqs[i] ELSE g[i - 1] \o seqs[i]]

LEMMA FlattensExist ==
    ASSUME NEW seqs, NEW bound \in Nat
    PROVE  \E g : Flattens(g, seqs, bound)
  <1> DEFINE N == {n \in Nat : \E g : Flattens(g, seqs, n)}
  <1>1. 0 \in N
    <2>1. Flattens([i \in 1 .. 0 |-> seqs[i]], seqs, 0)
      BY DEF Flattens
    <2> QED
      BY <2>1
  <1>2. ASSUME NEW n \in 1 .. bound, n - 1 \in N PROVE n \in N
    <2>1. PICK g : Flattens(g, seqs, n - 1)
      BY <1>2
    <2> DEFINE k == [i \in 1 .. n |->
                        IF i = 1 THEN seqs[i] ELSE IF i = n THEN g[n - 1] \o seqs[n] ELSE g[i]]
    <2>2. \A i \in 1 .. n - 1 : g[i] = IF i = 1 THEN seqs[i] ELSE g[i - 1] \o seqs[i]
      BY <2>1 DEF Flattens
    <2>3. \A i \in 1 .. n - 1 : k[i] = g[i]
      BY <2>2
    <2>4. \A i \in 1 .. n : k[i] = IF i = 1 THEN seqs[i] ELSE k[i - 1] \o seqs[i]
      <3>1. SUFFICES ASSUME NEW i \in 1 .. n, i # 1 PROVE k[i] = k[i - 1] \o seqs[i]
        OBVIOUS
      <3>2. i - 1 \in 1 .. n - 1 /\ (i # n => i \in 1 .. n - 1)
        BY <3>1
      <3>3. k[i - 1] = g[i - 1]
        BY <2>3, <3>2
      <3>4. CASE i = n
        BY <3>1, <3>3, <3>4
      <3>5. CASE i # n
        <4>1. g[i] = g[i - 1] \o seqs[i] /\ k[i] = g[i]
          BY <2>2, <2>3, <3>1, <3>2, <3>5
        <4> QED
          BY <3>3, <4>1
      <3> QED
        BY <3>4, <3>5
    <2>5. Flattens(k, seqs, n)
      BY <2>4 DEF Flattens
    <2> QED
      BY <2>5
  <1>3. bound \in 0 .. bound
    OBVIOUS
  <1> HIDE DEF N
  <1>4. bound \in N
    BY <1>1, <1>2, <1>3, UpTo
  <1> QED
    BY <1>4 DEF N

LEMMA ApartType ==
    ASSUME NEW parts \in Seq(Names)
    PROVE  /\ Apart(parts) \in Seq(Seq(Names)) /\ Len(Apart(parts)) = Len(parts)
           /\ \A i \in 1 .. Len(parts) : Apart(parts)[i] = Split[parts[i]] /\ Split[parts[i]] \in Seq(Names)
  <1>1. \A i \in 1 .. Len(parts) : Split[parts[i]] \in Seq(Names)
    BY PathAssumption
  <1>2. DOMAIN parts = 1 .. Len(parts) /\ Len(parts) \in Nat
    OBVIOUS
  <1> QED
    BY <1>1, <1>2 DEF Apart

\* g[n] is what the first n parts fall into.
Pieces(g, parts) ==
    /\ g \in [0 .. Len(parts) -> Seq(Names)] /\ g[0] = <<>>
    /\ \A n \in 1 .. Len(parts) : g[n] = g[n - 1] \o Split[parts[n]]
    /\ FlattenSeq(Apart(parts)) = g[Len(parts)]

LEMMA FlattenFlattens ==
    ASSUME NEW parts \in Seq(Names), Len(parts) # 0
    PROVE  \E h : /\ Flattens(h, Apart(parts), Len(parts))
                  /\ FlattenSeq(Apart(parts)) = h[Len(parts)]
  <1> DEFINE h == CHOOSE h : Flattens(h, Apart(parts), Len(parts))
  <1>1. Flattens(h, Apart(parts), Len(parts))
    BY FlattensExist
  <1>2. FlattenSeq(Apart(parts)) = h[Len(parts)]
    BY ApartType DEF FlattenSeq, Flattens
  <1> QED
    BY <1>1, <1>2

LEMMA PiecesExist ==
    ASSUME NEW parts \in Seq(Names)
    PROVE  \E g : Pieces(g, parts)
  <1>1. CASE Len(parts) = 0
    <2>1. FlattenSeq(Apart(parts)) = <<>>
      <3>1. Apart(parts) = <<>>
        BY <1>1, ApartType, EmptySeq
      <3> QED
        BY <3>1 DEF FlattenSeq
    <2>2. Pieces([n \in 0 .. Len(parts) |-> <<>>], parts)
      BY <1>1, <2>1 DEF Pieces
    <2> QED
      BY <2>2
  <1>2. CASE Len(parts) # 0
    <2>1. PICK h : /\ Flattens(h, Apart(parts), Len(parts))
                   /\ FlattenSeq(Apart(parts)) = h[Len(parts)]
      BY <1>2, FlattenFlattens
    <2>2. PICK g : g = [n \in 0 .. Len(parts) |-> IF n = 0 THEN <<>> ELSE h[n]]
      OBVIOUS
    <2>3. \A n \in 1 .. Len(parts) :
             g[n] = g[n - 1] \o Split[parts[n]] /\ Split[parts[n]] \in Seq(Names)
      <3>1. SUFFICES ASSUME NEW n \in 1 .. Len(parts)
                     PROVE  g[n] = g[n - 1] \o Split[parts[n]] /\ Split[parts[n]] \in Seq(Names)
        OBVIOUS
      <3>2. Apart(parts)[n] = Split[parts[n]] /\ Split[parts[n]] \in Seq(Names)
        BY ApartType
      <3>3. h[n] = IF n = 1 THEN Split[parts[n]] ELSE h[n - 1] \o Split[parts[n]]
        BY <2>1, <3>2 DEF Flattens
      <3>4. g[n] = h[n] /\ g[n - 1] = IF n = 1 THEN <<>> ELSE h[n - 1]
        BY <2>2
      <3>5. <<>> \o Split[parts[n]] = Split[parts[n]]
        BY <3>2, ConcatEmptySeq
      <3> QED
        BY <3>2, <3>3, <3>4, <3>5
    <2>4. \A n \in 0 .. Len(parts) : g[n] \in Seq(Names)
      <3> DEFINE N == {n \in 0 .. Len(parts) : g[n] \in Seq(Names)}
      <3>1. 0 \in N
        BY <2>2
      <3>2. ASSUME NEW n \in 1 .. Len(parts), n - 1 \in N PROVE n \in N
        <4>1. g[n] = g[n - 1] \o Split[parts[n]] /\ Split[parts[n]] \in Seq(Names)
          BY <2>3, <3>2
        <4>2. g[n - 1] \in Seq(Names)
          BY <3>2
        <4>3. g[n] \in Seq(Names)
          BY <4>1, <4>2, ConcatProperties
        <4> QED
          BY <4>3
      <3>3. Len(parts) \in Nat
        OBVIOUS
      <3> HIDE DEF N
      <3>4. \A n \in 0 .. Len(parts) : n \in N
        BY <3>1, <3>2, <3>3, UpTo
      <3> QED
        BY <3>4 DEF N
    <2>5. g \in [0 .. Len(parts) -> Seq(Names)]
      BY <2>2, <2>4
    <2>6. g[0] = <<>> /\ g[Len(parts)] = h[Len(parts)]
      BY <1>2, <2>2
    <2>7. Pieces(g, parts)
      BY <2>1, <2>3, <2>5, <2>6 DEF Pieces
    <2> QED
      BY <2>7
  <1> QED
    BY <1>1, <1>2

\* Names after a path that are not split stay as they are.
LEMMA FlattenNames ==
    ASSUME NEW a \in Seq(Names), NEW f \in Seq(Names), Unsplit(f)
    PROVE  /\ FlattenSeq(Apart(a)) \in Seq(Names)
           /\ FlattenSeq(Apart(a \o f)) = FlattenSeq(Apart(a)) \o f
  <1> DEFINE c == a \o f
  <1>1. /\ c \in Seq(Names) /\ Len(c) = Len(a) + Len(f)
        /\ \A n \in 1 .. Len(a) : c[n] = a[n]
        /\ \A n \in 1 .. Len(f) : c[Len(a) + n] = f[n]
    OBVIOUS
  <1> HIDE DEF c
  <1>2. PICK g : Pieces(g, a)
    BY PiecesExist
  <1>3. PICK h : Pieces(h, c)
    BY <1>1, PiecesExist
  <1>4. Len(a) \in Nat /\ Len(f) \in Nat
    OBVIOUS
  <1>5. g[Len(a)] \in Seq(Names)
    BY <1>2, <1>4 DEF Pieces
  <1>6. h[Len(a)] = g[Len(a)]
    <2> DEFINE N == {n \in 0 .. Len(a) : h[n] = g[n]}
    <2>1. 0 \in N
      BY <1>2, <1>3 DEF Pieces
    <2>2. ASSUME NEW n \in 1 .. Len(a), n - 1 \in N PROVE n \in N
      <3>1. g[n] = g[n - 1] \o Split[a[n]]
        BY <1>2 DEF Pieces
      <3>2. n \in 1 .. Len(c) /\ c[n] = a[n]
        BY <1>1
      <3>3. h[n] = h[n - 1] \o Split[c[n]]
        BY <1>3, <3>2 DEF Pieces
      <3>4. h[n - 1] = g[n - 1]
        BY <2>2
      <3>5. h[n] = g[n]
        BY <3>1, <3>2, <3>3, <3>4
      <3> QED
        BY <3>5
    <2> HIDE DEF N
    <2>3. \A n \in 0 .. Len(a) : n \in N
      BY <1>4, <2>1, <2>2, UpTo
    <2> QED
      BY <1>4, <2>3 DEF N
  <1>7. h[Len(a) + Len(f)] = g[Len(a)] \o f
    <2> DEFINE N == {n \in 0 .. Len(f) : h[Len(a) + n] = g[Len(a)] \o SubSeq(f, 1, n)}
    <2>1. 0 \in N
      <3>1. SubSeq(f, 1, 0) = <<>>
        BY SubSeqEmpty
      <3>2. g[Len(a)] \o <<>> = g[Len(a)]
        BY <1>5, ConcatEmptySeq
      <3>3. Len(a) + 0 = Len(a) /\ 0 \in 0 .. Len(f)
        OBVIOUS
      <3> QED
        BY <1>6, <3>1, <3>2, <3>3
    <2>2. ASSUME NEW n \in 1 .. Len(f), n - 1 \in N PROVE n \in N
      <3> DEFINE x == Len(a) + n
      <3>1. x \in 1 .. Len(c) /\ x - 1 = Len(a) + (n - 1)
        BY <1>1
      <3>2. c[x] = f[n] /\ Split[f[n]] = <<f[n]>>
        BY <1>1 DEF Unsplit
      <3>3. h[x] = h[Len(a) + (n - 1)] \o <<f[n]>>
        <4> HIDE DEF x
        <4>1. h[x] = h[x - 1] \o Split[c[x]]
          BY <1>3, <3>1 DEF Pieces
        <4> QED
          BY <3>1, <3>2, <4>1
      <3>4. h[Len(a) + (n - 1)] = g[Len(a)] \o SubSeq(f, 1, n - 1)
        BY <2>2
      <3>5. h[x] = Append(g[Len(a)] \o SubSeq(f, 1, n - 1), f[n])
        <4>1. SubSeq(f, 1, n - 1) \in Seq(Names) /\ f[n] \in Names
          OBVIOUS
        <4>2. g[Len(a)] \o SubSeq(f, 1, n - 1) \in Seq(Names)
          BY <1>5, <4>1, ConcatProperties
        <4> QED
          BY <3>3, <3>4, <4>1, <4>2, AppendIsConcat
      <3>6. h[x] = g[Len(a)] \o SubSeq(f, 1, n)
        BY <1>5, <3>5, AppendNext
      <3> QED
        BY <3>6
    <2>3. SubSeq(f, 1, Len(f)) = f
      BY SubSeqFull
    <2> HIDE DEF N
    <2>4. \A n \in 0 .. Len(f) : n \in N
      BY <1>4, <2>1, <2>2, UpTo
    <2>5. Len(f) \in N
      BY <1>4, <2>4
    <2> QED
      BY <2>3, <2>5 DEF N
  <1> QED
    BY <1>1, <1>2, <1>3, <1>5, <1>7 DEF Pieces, c

Path == [rooted : BOOLEAN, parts : Seq(Names)]
File == Seq(Names \ {".."}) \ {<<>>}

LEMMA NormalizedIs ==
    ASSUME NEW p \in Path
    PROVE  /\ Normalized(p).rooted = p.rooted
           /\ Normalized(p).parts = FlattenSeq(Apart(p.parts))
           /\ Normalized(p).parts \in Seq(Names)
  <1>1. p.parts \in Seq(Names) /\ <<>> \in Seq(Names) /\ Unsplit(<<>>)
    BY DEF Path, Unsplit
  <1>2. FlattenSeq(Apart(p.parts)) \in Seq(Names)
    BY <1>1, FlattenNames
  <1>3. Normalized(p) = [p EXCEPT !.parts = FlattenSeq(Apart(p.parts))]
    BY DEF Normalized, Apart
  <1> QED
    BY <1>2, <1>3 DEF Path

\* How the reader takes a path of the walk, part by part.
LEMMA NormalizedSpelling ==
    ASSUME NEW d \in Path, NEW f \in File, Unsplit(f)
    PROVE  /\ Spelling(d, f) \in Path /\ Spelling(d, f).rooted = d.rooted
           /\ Spelling(d, f).parts = d.parts \o f
           /\ Normalized(Spelling(d, f)).parts = Normalized(d).parts \o f
  <1>1. f \in Seq(Names) /\ d.parts \in Seq(Names) /\ d.rooted \in BOOLEAN
    BY DEF File, Path
  <1>2. d.parts \o f \in Seq(Names)
    BY <1>1, ConcatProperties
  <1>3. Spelling(d, f) \in Path
    BY <1>1, <1>2 DEF Spelling, Path
  <1>4. Spelling(d, f).parts = d.parts \o f /\ Spelling(d, f).rooted = d.rooted
    BY DEF Spelling
  <1> QED
    BY <1>1, <1>3, <1>4, NormalizedIs, FlattenNames

LEMMA TailNames ==
    ASSUME NEW a \in Seq(Names), NEW f \in Seq(Names), a # <<>>
    PROVE  Tail(a) \in Seq(Names) /\ Tail(a \o f) = Tail(a) \o f
  <1>1. PICK c \in Seq(Names) : c = a \o f
    BY ConcatProperties
  <1>2. PICK t \in Seq(Names) : t = Tail(a)
    BY HeadTailProperties
  <1>3. Len(a) \in Nat \ {0} /\ Len(f) \in Nat
    BY EmptySeq
  <1>4. Len(c) = Len(a) + Len(f) /\ c # <<>>
    BY <1>1, <1>3
  <1>5. PICK u \in Seq(Names) : u = Tail(c) /\ Len(u) = Len(c) - 1 /\ \A i \in 1 .. Len(u) : u[i] = c[i + 1]
    BY <1>4, HeadTailProperties
  <1>6. Len(t) = Len(a) - 1 /\ \A i \in 1 .. Len(t) : t[i] = a[i + 1]
    BY <1>2, HeadTailProperties
  <1>7. PICK v \in Seq(Names) : v = t \o f
    BY ConcatProperties
  <1>8. Len(v) = Len(u)
    BY <1>3, <1>4, <1>5, <1>6, <1>7
  <1>9. ASSUME NEW i \in 1 .. Len(u) PROVE u[i] = v[i]
    <2>1. u[i] = c[i + 1]
      BY <1>5
    <2>2. c[i + 1] = IF i + 1 <= Len(a) THEN a[i + 1] ELSE f[i + 1 - Len(a)]
      BY <1>1, <1>3, <1>4, <1>5
    <2>3. v[i] = IF i <= Len(t) THEN t[i] ELSE f[i - Len(t)]
      BY <1>3, <1>7, <1>8
    <2>4. i + 1 - Len(a) = i - Len(t) /\ (i <= Len(t) <=> i + 1 <= Len(a))
      BY <1>3, <1>6
    <2>5. i <= Len(t) => t[i] = a[i + 1]
      BY <1>3, <1>6
    <2> QED
      BY <2>1, <2>2, <2>3, <2>4, <2>5
  <1>10. u = v
    BY <1>8, <1>9, SeqEqual
  <1> QED
    BY <1>1, <1>2, <1>5, <1>7, <1>10

LEMMA ResolveRooted ==
    ASSUME NEW h, NEW p \in Path, p.rooted
    PROVE  Resolve(h, p) = Normalized(p).parts
  BY NormalizedIs DEF Resolve, IsDrivePath

LEMMA ResolveRelative ==
    ASSUME NEW h, NEW p \in Path, ~p.rooted
    PROVE  Resolve(h, p) = Join(h, TrimBase(h, Bare(p)))
  BY NormalizedIs DEF Resolve, Bare

LEMMA BareType ==
    ASSUME NEW d \in Path
    PROVE  Bare(d) \in Seq(Names)
  <1>1. PICK q : q = Normalized(d)
    OBVIOUS
  <1>2. q.parts \in Seq(Names)
    BY <1>1, NormalizedIs
  <1>3. CASE IsDrivePath(q)
    <2>1. Undrive[q.parts[1]] \in Seq(Names)
      BY <1>3, PathAssumption DEF IsDrivePath
    <2>2. Tail(q.parts) \in Seq(Names)
      BY <1>2, <1>3 DEF IsDrivePath
    <2> QED
      BY <1>1, <1>3, <2>1, <2>2, ConcatProperties DEF Bare, WithoutDrive
  <1> QED
    BY <1>1, <1>2, <1>3 DEF Bare

\* A file of plain names follows what the reader leaves of the folder's path.
LEMMA BareSpelling ==
    ASSUME NEW d \in Path, NEW f \in File, Plain(f)
    PROVE  Bare(Spelling(d, f)) = Bare(d) \o f
  <1>1. PICK q : q = Normalized(d)
    OBVIOUS
  <1>2. PICK r : r = Normalized(Spelling(d, f))
    OBVIOUS
  <1>3. q.parts \in Seq(Names) /\ f \in Seq(Names) /\ f # <<>>
    BY <1>1, NormalizedIs DEF File
  <1>4. r.parts = q.parts \o f /\ r.rooted = q.rooted
    BY <1>1, <1>2, NormalizedIs, NormalizedSpelling DEF Plain
  <1>5. CASE q.parts = <<>>
    <2>1. r.parts = f
      BY <1>3, <1>4, <1>5, ConcatEmptySeq
    <2>2. f[1] \notin DOMAIN Undrive
      BY <1>3 DEF Plain
    <2>3. ~IsDrivePath(q) /\ ~IsDrivePath(r)
      BY <1>5, <2>1, <2>2 DEF IsDrivePath
    <2> QED
      BY <1>1, <1>2, <1>4, <2>3 DEF Bare
  <1>6. CASE q.parts # <<>>
    <2>1. r.parts # <<>> /\ r.parts[1] = q.parts[1]
      BY <1>3, <1>4, <1>6
    <2>2. IsDrivePath(r) <=> IsDrivePath(q)
      BY <1>4, <1>6, <2>1 DEF IsDrivePath
    <2>3. CASE IsDrivePath(q)
      <3>1. PICK u \in Seq(Names) : u = Undrive[q.parts[1]]
        BY <2>3, PathAssumption DEF IsDrivePath
      <3>2. PICK t \in Seq(Names) : t = Tail(q.parts)
        BY <1>3, <1>6, TailNames
      <3>3. Tail(r.parts) = t \o f
        <4>1. Tail(q.parts \o f) = Tail(q.parts) \o f
          BY <1>3, <1>6, TailNames
        <4> QED
          BY <1>4, <3>2, <4>1
      <3>4. u \o (t \o f) = (u \o t) \o f
        BY <1>3, ConcatAssociative
      <3>5. Bare(d) = u \o t
        BY <1>1, <2>3, <3>1, <3>2 DEF Bare, WithoutDrive
      <3>6. Bare(Spelling(d, f)) = u \o (t \o f)
        BY <1>2, <2>1, <2>2, <2>3, <3>1, <3>3 DEF Bare, WithoutDrive
      <3> QED
        BY <3>4, <3>5, <3>6
    <2>4. CASE ~IsDrivePath(q)
      BY <1>1, <1>2, <1>4, <2>2, <2>4 DEF Bare
    <2> QED
      BY <2>3, <2>4
  <1> QED
    BY <1>5, <1>6

-----------------------------------------------------------------------------
(* Where verify looks, for each way the folder was listed.                 *)

\* After at least one part nothing of the file is trimmed.
LEMMA TrimNames ==
    ASSUME NEW h \in Seq(Names), NEW a \in Seq(Names), a # <<>>
    PROVE  \E t \in Seq(Names) :
              /\ \A f \in File : TrimBase(h, a \o f) = t \o f
              /\ t = IF h # <<>> /\ a[1] = Last(h) THEN Tail(a) ELSE a
  <1>1. PICK t : t = IF h # <<>> /\ a[1] = Last(h) THEN Tail(a) ELSE a
    OBVIOUS
  <1>2. t \in Seq(Names)
    BY <1>1, HeadTailProperties
  <1>3. ASSUME NEW f \in File PROVE TrimBase(h, a \o f) = t \o f
    <2>1. f \in Seq(Names) /\ Len(f) \in Nat \ {0} /\ Len(a) \in Nat \ {0}
      BY EmptySeq DEF File
    <2>2. PICK c \in Seq(Names) : c = a \o f
      BY <2>1, ConcatProperties
    <2>3. Len(c) > 1 /\ c[1] = a[1]
      BY <2>1, <2>2
    <2>4. Tail(c) = Tail(a) \o f
      BY <2>1, <2>2, TailNames
    <2>5. TrimBase(h, c) = IF h # <<>> /\ a[1] = Last(h) THEN Tail(c) ELSE c
      BY <2>3 DEF TrimBase
    <2> QED
      BY <1>1, <2>2, <2>4, <2>5
  <1> QED
    BY <1>1, <1>2, <1>3

LEMMA FileNames ==
    ASSUME NEW f \in File
    PROVE  /\ f \in Seq(Names \ {".."}) /\ f \in Seq(Names) /\ f # <<>> /\ Len(f) \in Nat \ {0}
           /\ f[1] # ".." /\ Tail(f) \in Seq(Names \ {".."}) /\ Tail(f) \in Seq(Names)
           /\ Len(Tail(f)) = Len(f) - 1
  <1>1. f \in Seq(Names \ {".."}) /\ f # <<>>
    BY DEF File
  <1> QED
    BY <1>1, EmptySeq, HeadTailProperties

\* Something shorter or longer is something else.
LEMMA OtherLength ==
    ASSUME NEW h \in Seq(Names), NEW f \in Seq(Names), NEW g \in Seq(Names), Len(f) # Len(g)
    PROVE  h \o f # h \o g
  <1>1. Len(h \o f) = Len(h) + Len(f) /\ Len(h \o g) = Len(h) + Len(g)
    OBVIOUS
  <1>2. Len(h) \in Nat /\ Len(f) \in Nat /\ Len(g) \in Nat
    OBVIOUS
  <1> QED
    BY <1>1, <1>2

\* Listed by an absolute path.
LEMMA AbsoluteResolved ==
    ASSUME NEW h, NEW d \in Path, NEW f \in File, d.rooted, Unsplit(d.parts \o f)
    PROVE  Resolve(h, Spelling(d, f)) = d.parts \o f
  <1>1. f \in Seq(Names) /\ d.parts \in Seq(Names) /\ <<>> \in Seq(Names)
    BY FileNames DEF Path
  <1>2. PICK c \in Seq(Names) : c = d.parts \o f
    BY <1>1, ConcatProperties
  <1>3. Spelling(d, f) \in Path /\ Spelling(d, f).rooted /\ Spelling(d, f).parts = c
    BY <1>1, <1>2 DEF Spelling, Path
  <1>4. FlattenSeq(Apart(c)) = c
    <2>1. FlattenSeq(Apart(<<>> \o c)) = FlattenSeq(Apart(<<>>)) \o c
      BY <1>1, <1>2, FlattenNames
    <2>2. <<>> \o c = c
      BY ConcatEmptySeq
    <2>3. FlattenSeq(Apart(<<>>)) = <<>>
      <3>1. Apart(<<>>) = <<>>
        BY <1>1, ApartType, EmptySeq
      <3>2. Len(<<>>) = 0
        OBVIOUS
      <3> QED
        BY <3>1, <3>2 DEF FlattenSeq
    <2> QED
      BY <2>1, <2>2, <2>3
  <1> QED
    BY <1>2, <1>3, <1>4, ResolveRooted, NormalizedIs

\* Listed by nothing but the path in the folder.
LEMMA DotResolved ==
    ASSUME NEW h \in Seq(Names), NEW d \in Path, NEW f \in File, ~d.rooted, Plain(f), Bare(d) = <<>>
    PROVE  Resolve(h, Spelling(d, f)) =
              IF h # <<>> /\ Len(f) > 1 /\ f[1] = Last(h) THEN h \o Tail(f) ELSE h \o f
  <1>1. Spelling(d, f) \in Path /\ ~Spelling(d, f).rooted
    BY NormalizedSpelling DEF Plain
  <1>2. Bare(Spelling(d, f)) = f
    BY BareSpelling, FileNames, ConcatEmptySeq
  <1>3. Resolve(h, Spelling(d, f)) = Join(h, TrimBase(h, f))
    BY <1>1, <1>2, ResolveRelative
  <1>4. TrimBase(h, f) = IF h # <<>> /\ Len(f) > 1 /\ f[1] = Last(h) THEN Tail(f) ELSE f
    BY DEF TrimBase
  <1>5. Join(h, Tail(f)) = h \o Tail(f) /\ Join(h, f) = h \o f
    BY FileNames, JoinOnlyNames
  <1> QED
    BY <1>3, <1>4, <1>5

\* Listed by more than that.
LEMMA MoreResolved ==
    ASSUME NEW h \in Seq(Names), NEW d \in Path, ~d.rooted, Bare(d) # <<>>
    PROVE  \E t \in Seq(Names) :
              /\ \A f \in File : Plain(f) => Resolve(h, Spelling(d, f)) = Join(h, t) \o f
              /\ t = IF h # <<>> /\ Bare(d)[1] = Last(h) THEN Tail(Bare(d)) ELSE Bare(d)
  <1>1. Bare(d) \in Seq(Names)
    BY BareType
  <1>2. PICK t \in Seq(Names) :
           /\ \A f \in File : TrimBase(h, Bare(d) \o f) = t \o f
           /\ t = IF h # <<>> /\ Bare(d)[1] = Last(h) THEN Tail(Bare(d)) ELSE Bare(d)
    BY <1>1, TrimNames
  <1>3. ASSUME NEW f \in File, Plain(f) PROVE Resolve(h, Spelling(d, f)) = Join(h, t) \o f
    <2>1. Spelling(d, f) \in Path /\ ~Spelling(d, f).rooted
      BY <1>3, NormalizedSpelling DEF Plain
    <2>2. Resolve(h, Spelling(d, f)) = Join(h, TrimBase(h, Bare(Spelling(d, f))))
      BY <2>1, ResolveRelative
    <2>3. Bare(Spelling(d, f)) = Bare(d) \o f
      BY <1>3, BareSpelling
    <2>4. Join(h, t \o f) = Join(h, t) \o f
      BY FileNames, JoinNames
    <2> QED
      BY <1>2, <2>2, <2>3, <2>4
  <1> QED
    BY <1>2, <1>3

\* Listed by one name: the file is found exactly if the folder has it now.
LEMMA NameResolved ==
    ASSUME NEW h \in Seq(Names), NEW d \in Path, NEW f \in File, NEW n \in Names \ {".."},
           ~d.rooted, Plain(f), Bare(d) = <<n>>
    PROVE  Resolve(h, Spelling(d, f)) = h \o f <=> h # <<>> /\ n = Last(h)
  <1>1. PICK t \in Seq(Names) :
           /\ \A g \in File : Plain(g) => Resolve(h, Spelling(d, g)) = Join(h, t) \o g
           /\ t = IF h # <<>> /\ Bare(d)[1] = Last(h) THEN Tail(Bare(d)) ELSE Bare(d)
    <2>1. Bare(d) # <<>>
      OBVIOUS
    <2> QED
      BY <2>1, MoreResolved
  <1>2. Resolve(h, Spelling(d, f)) = Join(h, t) \o f
    BY <1>1
  <1>3. <<n>>[1] = n /\ Tail(<<n>>) = <<>> /\ <<n>> \in Seq(Names \ {".."}) /\ <<n>> \in Seq(Names)
    OBVIOUS
  <1>4. CASE h # <<>> /\ n = Last(h)
    <2>1. t = <<>>
      BY <1>1, <1>3, <1>4
    <2> QED
      BY <1>2, <1>4, <2>1, JoinNothing
  <1>5. CASE ~(h # <<>> /\ n = Last(h))
    <2>1. t = <<n>>
      BY <1>1, <1>3, <1>5
    <2>2. Join(h, t) = h \o <<n>>
      BY <1>3, <2>1, JoinOnlyNames
    <2>3. (h \o <<n>>) \o f = h \o (<<n>> \o f)
      BY <1>3, FileNames, ConcatAssociative
    <2>4. <<n>> \o f \in Seq(Names) /\ Len(<<n>> \o f) # Len(f)
      <3>1. Len(<<n>> \o f) = Len(<<n>>) + Len(f) /\ Len(<<n>>) = 1 /\ Len(f) \in Nat
        BY <1>3, FileNames, ConcatProperties
      <3> QED
        BY <1>3, <3>1, FileNames, ConcatProperties
    <2>5. h \o (<<n>> \o f) # h \o f
      BY <2>4, FileNames, OtherLength
    <2> QED
      BY <1>2, <1>5, <2>2, <2>3, <2>5
  <1> QED
    BY <1>4, <1>5

-----------------------------------------------------------------------------
(* The specification.                                                      *)

\* The list spells the files by the argument of the scan, which said where
\* the folder was, and verify resolves these spellings.
PathInv ==
    /\ cwd \in Cwds /\ dir \in DirArgs /\ tree \in Trees
    /\ stage = "scanned" => home = ScannedDir(cwd, dir)
    /\ stage # "scanned" =>
          \E wd \in Cwds, d \in DirArgs :
             home = ScannedDir(wd, d) /\ listed = [f \in tree |-> Spelling(d, f)]
    /\ stage = "resolved" => actual = [f \in tree |-> Resolve(Here, listed[f])]

LEMMA PathInvInductive == Spec => []PathInv
  <1>1. Init => PathInv
    BY DEF Init, PathInv
  <1>2. ASSUME PathInv, [Next]_vars PROVE PathInv'
    <2>1. CASE Generate
      <3>1. listed' = [f \in tree' |-> Spelling(dir, f)] /\ home' = ScannedDir(cwd, dir)
        BY <1>2, <2>1 DEF Generate, PathInv
      <3>2. cwd \in Cwds /\ dir \in DirArgs
        BY <1>2 DEF PathInv
      <3>3. stage' = "listed" /\ cwd' = cwd /\ dir' = dir /\ tree' = tree
        BY <2>1 DEF Generate
      <3> QED
        BY <1>2, <3>1, <3>2, <3>3 DEF PathInv
    <2>2. CASE Move
      BY <1>2, <2>2 DEF Move, PathInv
    <2>3. CASE Verify
      BY <1>2, <2>3 DEF Verify, PathInv, Here
    <2>4. CASE Done \/ UNCHANGED vars
      BY <1>2, <2>4 DEF Done, vars, PathInv, Here
    <2> QED
      BY <1>2, <2>1, <2>2, <2>3, <2>4 DEF Next
  <1> QED
    BY <1>1, <1>2, PTL DEF Spec

LEMMA HereType ==
    ASSUME PathInv
    PROVE  Here \in Seq(Names)
  <1>1. cwd \in Seq(Names) /\ dir \in Path
    BY PathAssumption DEF PathInv, Path
  <1>2. dir.parts \in Seq(Names)
    BY <1>1 DEF Path
  <1> QED
    BY <1>1, <1>2, JoinType DEF Here, AbsDir

\* The list was scanned with the argument d, and has been resolved.
ScannedAs(d) ==
    /\ d.rooted => home = d.parts
    /\ \A f \in tree :
          /\ f \in File /\ listed[f] = Spelling(d, f) /\ Given(f) = d.parts
          /\ actual[f] = Resolve(Here, Spelling(d, f))

LEMMA Resolved ==
    ASSUME PathInv, stage = "resolved"
    PROVE  \E d \in Path : ScannedAs(d)
  <1>1. PICK wd \in Cwds, d \in DirArgs :
           home = ScannedDir(wd, d) /\ listed = [f \in tree |-> Spelling(d, f)]
    BY DEF PathInv
  <1>2. d \in Path
    BY <1>1, PathAssumption DEF Path
  <1>3. d.rooted => home = d.parts
    BY <1>1 DEF ScannedDir, IsDrivePath, AbsDir
  <1>4. ASSUME NEW f \in tree
        PROVE  /\ f \in File /\ listed[f] = Spelling(d, f) /\ Given(f) = d.parts
               /\ actual[f] = Resolve(Here, Spelling(d, f))
    <2>1. f \in File
      BY PathAssumption DEF PathInv, File
    <2>2. listed[f] = Spelling(d, f)
      BY <1>1
    <2>3. actual[f] = Resolve(Here, listed[f])
      BY DEF PathInv
    <2>4. Given(f) = d.parts
      <3>1. PICK a \in Seq(Names) : a = d.parts
        BY <1>2 DEF Path
      <3>2. PICK c \in Seq(Names) : c = a \o f
        BY <2>1, FileNames, ConcatProperties
      <3>3. Len(c) - Len(f) = Len(a) /\ SubSeq(c, 1, Len(a)) = a
        <4>1. Len(c) - Len(f) = Len(a) /\ Len(a) \in Nat
          BY <2>1, <3>2, FileNames
        <4>2. CASE a = <<>>
          <5>1. Len(a) = 0
            BY <4>2
          <5> QED
            BY <4>1, <4>2, <5>1, SubSeqEmpty
        <4>3. CASE a # <<>>
          <5>1. 1 \in 1 .. Len(a) /\ Len(a) \in 1 .. Len(a)
            BY <4>3, EmptySeq
          <5>2. SubSeq(a \o f, 1, Len(a)) = SubSeq(a, 1, Len(a))
            BY <2>1, <5>1, FileNames, SubSeqOfConcat1
          <5> QED
            BY <3>2, <4>1, <5>2, SubSeqFull
        <4> QED
          BY <4>1, <4>2, <4>3
      <3>4. listed[f].parts = c
        BY <2>2, <3>1, <3>2 DEF Spelling
      <3> QED
        BY <3>1, <3>3, <3>4 DEF Given
    <2> QED
      BY <2>1, <2>2, <2>3, <2>4
  <1> QED
    BY <1>2, <1>3, <1>4 DEF ScannedAs

\* A folder listed by an absolute path is found exactly where it was, however
\* deep it lies and whatever its files are called.
THEOREM AbsoluteAlwaysFound == Spec => []AbsoluteFound
  <1>1. PathInv => AbsoluteFound
    <2>1. SUFFICES ASSUME PathInv, stage = "resolved",
                          NEW f \in tree, listed[f].rooted, Unsplit(listed[f].parts)
                   PROVE  Found(f) <=> Here = home
      BY DEF AbsoluteFound
    <2>2. PICK d \in Path : ScannedAs(d)
      BY <2>1, Resolved
    <2>3. d.rooted /\ Unsplit(d.parts \o f) /\ f \in File /\ home = d.parts
      <3>1. listed[f] = Spelling(d, f) /\ f \in File
        BY <2>2 DEF ScannedAs
      <3>2. listed[f].rooted = d.rooted /\ listed[f].parts = d.parts \o f
        BY <3>1 DEF Spelling
      <3> QED
        BY <2>1, <2>2, <3>1, <3>2 DEF ScannedAs
    <2>4. actual[f] = home \o f
      BY <2>2, <2>3, AbsoluteResolved DEF ScannedAs
    <2>5. Here \in Seq(Names) /\ home \in Seq(Names) /\ f \in Seq(Names)
      BY <2>1, <2>3, HereType, FileNames DEF Path
    <2>6. home \o f = Here \o f => home = Here
      BY <2>5, ConcatSimplifications
    <2> QED
      BY <2>4, <2>6 DEF Found
  <1> QED
    BY <1>1, PathInvInductive, PTL

\* A folder listed with -dir . is found wherever it is moved, but for a
\* subfolder that has the name the folder has now.
THEOREM DotAlwaysFound == Spec => []DotFound
  <1>1. PathInv => DotFound
    <2>1. SUFFICES ASSUME PathInv, stage = "resolved",
                          NEW f \in tree, Plain(f), ~listed[f].rooted, Given(f) = <<>>
                   PROVE  Found(f) <=> ~(Len(f) > 1 /\ Here # <<>> /\ f[1] = Last(Here))
      BY DEF DotFound
    <2>2. PICK d \in Path : ScannedAs(d)
      BY <2>1, Resolved
    <2>3. ~d.rooted /\ d.parts = <<>> /\ f \in File
      <3>1. listed[f] = Spelling(d, f) /\ f \in File /\ Given(f) = d.parts
        BY <2>2 DEF ScannedAs
      <3>2. listed[f].rooted = d.rooted
        BY <3>1 DEF Spelling
      <3> QED
        BY <2>1, <3>1, <3>2
    <2>4. Bare(d) = <<>>
      <3>1. Apart(<<>>) = <<>> /\ Len(<<>>) = 0
        BY ApartType, EmptySeq
      <3>2. Normalized(d).parts = <<>>
        BY <2>3, <3>1, NormalizedIs DEF FlattenSeq
      <3> QED
        BY <3>2 DEF Bare, IsDrivePath
    <2>5. Here \in Seq(Names)
      BY <2>1, HereType
    <2>6. actual[f] = IF Here # <<>> /\ Len(f) > 1 /\ f[1] = Last(Here)
                      THEN Here \o Tail(f) ELSE Here \o f
      BY <2>1, <2>2, <2>3, <2>4, <2>5, DotResolved DEF ScannedAs
    <2>7. Here \o Tail(f) # Here \o f
      <3>1. Tail(f) \in Seq(Names) /\ f \in Seq(Names) /\ Len(Tail(f)) # Len(f)
        BY <2>3, FileNames
      <3> QED
        BY <2>5, <3>1, OtherLength
    <2> QED
      BY <2>6, <2>7 DEF Found
  <1> QED
    BY <1>1, PathInvInductive, PTL

\* A folder listed by its name, or by drive and name, is found wherever it is
\* moved, exactly if it keeps the name.
THEOREM NameAlwaysFound == Spec => []NameFound
  <1>1. PathInv => NameFound
    <2>1. SUFFICES ASSUME PathInv, stage = "resolved",
                          NEW f \in tree, Plain(f), Unsplit(Given(f)), ~listed[f].rooted,
                          \/ Len(Given(f)) = 1 /\ Given(f)[1] \notin DOMAIN Undrive
                          \/ /\ Len(Given(f)) = 2 /\ Given(f)[1] \in DOMAIN Undrive
                             /\ Undrive[Given(f)[1]] = <<>>,
                          Last(Given(f)) # ".."
                   PROVE  Found(f) <=> Here # <<>> /\ Last(Given(f)) = Last(Here)
      BY DEF NameFound
    <2>2. PICK d \in Path : ScannedAs(d)
      BY <2>1, Resolved
    <2>3. ~d.rooted /\ f \in File
      <3>1. listed[f] = Spelling(d, f) /\ f \in File
        BY <2>2 DEF ScannedAs
      <3>2. listed[f].rooted = d.rooted
        BY <3>1 DEF Spelling
      <3> QED
        BY <2>1, <3>1, <3>2
    <2>4. PICK a \in Seq(Names) : a = d.parts /\ a = Given(f)
      BY <2>2 DEF Path, ScannedAs
    <2>5. Normalized(d).parts = a /\ Normalized(d).rooted = d.rooted
      <3>1. <<>> \in Seq(Names) /\ <<>> \o a = a
        BY EmptySeq, ConcatEmptySeq
      <3>2. FlattenSeq(Apart(<<>> \o a)) = FlattenSeq(Apart(<<>>)) \o a
        BY <2>1, <2>4, <3>1, FlattenNames
      <3>3. FlattenSeq(Apart(<<>>)) = <<>>
        <4>1. Apart(<<>>) = <<>> /\ Len(<<>>) = 0
          BY ApartType, EmptySeq
        <4> QED
          BY <4>1 DEF FlattenSeq
      <3> QED
        BY <2>4, <3>1, <3>2, <3>3, NormalizedIs
    <2>6. PICK n \in Names \ {".."} : n = Last(a)
      <3>1. Len(a) \in 1 .. Len(a)
        BY <2>1, <2>4
      <3>2. Last(a) \in Names
        BY <3>1, ElementOfSeq DEF Last
      <3> QED
        BY <2>1, <2>4, <3>2
    <2>7. Bare(d) = <<n>>
      <3>1. CASE Len(a) = 1 /\ a[1] \notin DOMAIN Undrive
        <4>1. a = <<n>>
          BY <2>6, <3>1 DEF Last
        <4> QED
          BY <2>5, <3>1, <4>1 DEF Bare, IsDrivePath
      <3>2. CASE Len(a) = 2 /\ a[1] \in DOMAIN Undrive /\ Undrive[a[1]] = <<>>
        <4>1. a # <<>> /\ a[2] = n
          <5>1. Len(<<>>) = 0 /\ Len(a) = 2
            BY <3>2, EmptySeq
          <5> QED
            BY <2>6, <5>1 DEF Last
        <4>2. PICK t \in Seq(Names) : /\ t = Tail(a) /\ Len(t) = Len(a) - 1
                                     /\ \A i \in 1 .. Len(t) : t[i] = a[i + 1]
          BY <4>1, HeadTailProperties
        <4>3. t = <<n>>
          <5>1. Len(t) = 1 /\ t[1] = n
            <6>1. Len(t) = 1
              BY <3>2, <4>2
            <6>2. 1 \in 1 .. Len(t) /\ 1 + 1 = 2
              BY <6>1
            <6> QED
              BY <4>1, <4>2, <6>1, <6>2
          <5>2. <<n>> \in Seq(Names) /\ Len(<<n>>) = 1 /\ <<n>>[1] = n
            OBVIOUS
          <5>3. \A i \in 1 .. Len(t) : t[i] = <<n>>[i]
            BY <5>1, <5>2
          <5> QED
            BY <5>1, <5>2, <5>3, SeqEqual
        <4>4. <<>> \o Tail(a) = Tail(a)
          BY <4>2, ConcatEmptySeq
        <4> QED
          BY <2>3, <2>5, <3>2, <4>1, <4>2, <4>3, <4>4 DEF Bare, IsDrivePath, WithoutDrive
      <3> QED
        BY <2>1, <2>4, <3>1, <3>2
    <2>8. Here \in Seq(Names)
      BY <2>1, HereType
    <2>9. Resolve(Here, Spelling(d, f)) = Here \o f <=> Here # <<>> /\ n = Last(Here)
      BY <2>1, <2>3, <2>7, <2>8, NameResolved
    <2> QED
      BY <2>2, <2>4, <2>6, <2>9 DEF Found, ScannedAs
  <1> QED
    BY <1>1, PathInvInductive, PTL

\* Two files of plain names are never looked for at one place, unless the list
\* names them by their path in the folder alone and one is in a subfolder with
\* the name the folder has now.
THEOREM FilesAlwaysApart == Spec => []FilesApart
  <1>1. PathInv => FilesApart
    <2>1. SUFFICES ASSUME PathInv, stage = "resolved",
                          NEW f \in tree, NEW g \in tree,
                          Plain(f), Plain(g), actual[f] = actual[g],
                          ~(/\ ~listed[f].rooted
                            /\ Bare([listed[f] EXCEPT !.parts = Given(f)]) = <<>>
                            /\ Here # <<>> /\ Last(Here) \in {f[1], g[1]})
                   PROVE  f = g
      BY DEF FilesApart
    <2>2. PICK d \in Path : ScannedAs(d)
      BY <2>1, Resolved
    <2>3. listed[f].rooted = d.rooted /\ [listed[f] EXCEPT !.parts = Given(f)] = d
      <3>1. listed[f] = [rooted |-> d.rooted, parts |-> d.parts \o f] /\ Given(f) = d.parts
        BY <2>2 DEF Spelling, ScannedAs
      <3> QED
        BY <3>1 DEF Path
    <2>4. f \in File /\ g \in File /\ f \in Seq(Names) /\ g \in Seq(Names)
      BY <2>2, FileNames DEF ScannedAs
    <2>5. Here \in Seq(Names)
      BY <2>1, HereType
    <2>6. ASSUME NEW p \in Seq(Names), actual[f] = p \o f, actual[g] = p \o g
          PROVE  f = g
      <3>1. p \o f = p \o g
        BY <2>1, <2>6
      <3> QED
        BY <2>4, <3>1, ConcatSimplifications
    <2>7. CASE d.rooted
      <3>1. PICK p \in Seq(Names) : p = Normalized(d).parts
        BY NormalizedIs
      <3>2. ASSUME NEW x \in tree, Plain(x) PROVE actual[x] = p \o x
        <4>1. x \in File /\ Unsplit(x) /\ actual[x] = Resolve(Here, Spelling(d, x))
          BY <2>2, <3>2 DEF Plain, ScannedAs
        <4>2. /\ Spelling(d, x) \in Path /\ Spelling(d, x).rooted
              /\ Normalized(Spelling(d, x)).parts = p \o x
          BY <2>7, <3>1, <4>1, NormalizedSpelling
        <4> QED
          BY <4>1, <4>2, ResolveRooted
      <3> QED
        BY <2>1, <2>6, <3>2
    <2>8. CASE ~d.rooted /\ Bare(d) # <<>>
      <3>1. PICK t \in Seq(Names) :
               \A x \in File : Plain(x) => Resolve(Here, Spelling(d, x)) = Join(Here, t) \o x
        BY <2>5, <2>8, MoreResolved
      <3>2. Join(Here, t) \in Seq(Names)
        BY <2>5, JoinType
      <3>3. actual[f] = Join(Here, t) \o f /\ actual[g] = Join(Here, t) \o g
        BY <2>1, <2>2, <2>4, <3>1 DEF ScannedAs
      <3> QED
        BY <2>6, <3>2, <3>3
    <2>9. CASE ~d.rooted /\ Bare(d) = <<>>
      <3>1. Here # <<>> => f[1] # Last(Here) /\ g[1] # Last(Here)
        BY <2>1, <2>3, <2>9
      <3>2. Resolve(Here, Spelling(d, f)) = Here \o f /\ Resolve(Here, Spelling(d, g)) = Here \o g
        BY <2>1, <2>4, <2>5, <2>9, <3>1, DotResolved
      <3>3. actual[f] = Here \o f /\ actual[g] = Here \o g
        BY <2>2, <3>2 DEF ScannedAs
      <3> QED
        BY <2>5, <2>6, <3>3
    <2> QED
      BY <2>7, <2>8, <2>9
  <1> QED
    BY <1>1, PathInvInductive, PTL
=============================================================================
