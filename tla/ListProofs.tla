----------------------------- MODULE ListProofs -----------------------------
(***************************************************************************)
(* What the readers of a list make of a list that grows by a line or loses *)
(* its end, for lists of any length, torn ones included.                   *)
(***************************************************************************)
EXTENDS Generate, SequenceTheorems, WellFoundedInduction, TLAPS

\* t is what is left of s when its end is cut off anywhere, or s grew from it.
Begins(t, s) == Len(t) <= Len(s) /\ \A i \in 1 .. Len(t) : t[i] = s[i]

-----------------------------------------------------------------------------
(* Where lines end.                                                        *)

\* A set of natural numbers has a least element.
LEMMA Least ==
    ASSUME NEW N \in SUBSET Nat, N # {}
    PROVE  \E n \in N : \A m \in N : n <= m
  <1>1. PICK n \in N : \A m \in N : <<m, n>> \notin OpToRel(<, Nat)
    BY WFMin, NatLessThanWellFounded
  <1>2. \A m \in N : ~(m < n)
    BY <1>1 DEF OpToRel
  <1> QED
    BY <1>2

\* Every line has one end.
LEMMA LineEndIs ==
    ASSUME NEW s \in Seq(Unit), NEW i \in 1 .. Len(s), NEW j \in i .. Len(s),
           \A k \in i .. j : s[k].part # "nl",
           j = Len(s) \/ s[j + 1].part = "nl"
    PROVE  LineEnd(s, i) = j
  <1>1. Len(s) \in Nat
    BY LenProperties
  <1> DEFINE P(n) == /\ \A k \in i .. n : s[k].part # "nl"
                     /\ n = Len(s) \/ s[n + 1].part = "nl"
  <1>2. ASSUME NEW n \in i .. Len(s), P(n) PROVE n = j
    BY <1>1, <1>2
  <1>3. P(j)
    OBVIOUS
  <1>4. LineEnd(s, i) = CHOOSE n \in i .. Len(s) : P(n)
    BY DEF LineEnd
  <1> HIDE DEF P
  <1> QED
    BY <1>2, <1>3, <1>4

LEMMA LineEndExists ==
    ASSUME NEW s \in Seq(Unit), NEW i \in LineStarts(s)
    PROVE  /\ LineEnd(s, i) \in i .. Len(s)
           /\ \A k \in i .. LineEnd(s, i) : s[k].part # "nl"
           /\ LineEnd(s, i) = Len(s) \/ s[LineEnd(s, i) + 1].part = "nl"
  <1>1. Len(s) \in Nat /\ i \in 1 .. Len(s) /\ s[i].part # "nl"
    BY LenProperties DEF LineStarts
  <1>2. \E j \in i .. Len(s) : /\ \A k \in i .. j : s[k].part # "nl"
                               /\ j = Len(s) \/ s[j + 1].part = "nl"
    <2> DEFINE N == {n \in i .. Len(s) : s[n].part = "nl"}
    <2>1. CASE N = {}
      <3>1. \A k \in i .. Len(s) : s[k].part # "nl"
        BY <2>1
      <3> QED
        BY <1>1, <3>1
    <2>2. CASE N # {}
      <3>1. N \in SUBSET Nat
        BY <1>1
      <3>2. PICK n \in N : \A m \in N : n <= m
        BY <2>2, <3>1, Least
      <3>3. n - 1 \in i .. Len(s) /\ n - 1 + 1 = n
        BY <1>1
      <3>4. \A k \in i .. n - 1 : s[k].part # "nl"
        BY <1>1, <3>2
      <3> QED
        BY <3>3, <3>4
    <2> QED
      BY <2>1, <2>2
  <1> QED
    BY <1>1, <1>2, LineEndIs

\* The whole lines of a list end with its last newline.
LEMMA TerminatedIs ==
    ASSUME NEW s \in Seq(Unit), NEW n \in 0 .. Len(s),
           n = 0 \/ s[n].part = "nl",
           \A m \in n + 1 .. Len(s) : s[m].part # "nl"
    PROVE  /\ Terminated(s) = SubSeq(s, 1, n)
           /\ Terminated(s) \in Seq(Unit) /\ Len(Terminated(s)) = n
           /\ \A i \in 1 .. n : Terminated(s)[i] = s[i]
  <1>1. Len(s) \in Nat
    BY LenProperties
  <1> DEFINE P(k) == /\ k = 0 \/ s[k].part = "nl"
                     /\ \A m \in k + 1 .. Len(s) : s[m].part # "nl"
  <1>2. ASSUME NEW k \in 0 .. Len(s), P(k) PROVE k = n
    BY <1>1, <1>2
  <1>3. P(n)
    OBVIOUS
  <1>4. Terminated(s) = Upto(s, CHOOSE k \in 0 .. Len(s) : P(k))
    BY DEF Terminated
  <1> HIDE DEF P
  <1>5. Terminated(s) = Upto(s, n)
    BY <1>2, <1>3, <1>4
  <1>6. Terminated(s) = SubSeq(s, 1, n)
    BY <1>1, <1>5 DEF Upto
  <1>7. \A i \in 1 .. n : s[i] \in Unit
    BY <1>1, ElementOfSeq
  <1> QED
    BY <1>1, <1>6, <1>7, SubSeqProperties

LEMMA TerminatedExists ==
    ASSUME NEW s \in Seq(Unit)
    PROVE  \E n \in 0 .. Len(s) : /\ n = 0 \/ s[n].part = "nl"
                                  /\ \A m \in n + 1 .. Len(s) : s[m].part # "nl"
  <1>1. Len(s) \in Nat
    BY LenProperties
  <1> DEFINE N == {d \in 0 .. Len(s) : Len(s) - d = 0 \/ s[Len(s) - d].part = "nl"}
  <1>2. N \in SUBSET Nat /\ Len(s) \in N
    BY <1>1
  <1>3. PICK d \in N : \A e \in N : d <= e
    BY <1>2, Least
  <1>4. Len(s) - d \in 0 .. Len(s)
    BY <1>1
  <1>5. ASSUME NEW m \in Len(s) - d + 1 .. Len(s) PROVE s[m].part # "nl"
    <2>1. Len(s) - m \in 0 .. Len(s) /\ Len(s) - m < d /\ Len(s) - (Len(s) - m) = m
      BY <1>1, <1>4
    <2>2. Len(s) - m \notin N
      BY <1>1, <1>3, <2>1
    <2> QED
      BY <2>1, <2>2
  <1> QED
    BY <1>4, <1>5

\* The whole lines of a list are a beginning of it that ends in a newline,
\* and the longest such beginning.
LEMMA TerminatedBegins ==
    ASSUME NEW s \in Seq(Unit)
    PROVE  /\ Terminated(s) \in Seq(Unit) /\ Begins(Terminated(s), s)
           /\ EndsInNewline(Terminated(s))
           /\ \A t \in Seq(Unit) : Begins(t, s) /\ EndsInNewline(t) => Begins(t, Terminated(s))
           /\ \A m \in Len(Terminated(s)) + 1 .. Len(s) : s[m].part # "nl"
           /\ EndsInNewline(s) => Terminated(s) = s
  <1>1. PICK n \in 0 .. Len(s) : /\ n = 0 \/ s[n].part = "nl"
                                 /\ \A m \in n + 1 .. Len(s) : s[m].part # "nl"
    BY TerminatedExists
  <1>2. /\ Terminated(s) = SubSeq(s, 1, n)
        /\ Terminated(s) \in Seq(Unit) /\ Len(Terminated(s)) = n
        /\ \A i \in 1 .. n : Terminated(s)[i] = s[i]
    BY <1>1, TerminatedIs
  <1>3. Len(s) \in Nat
    BY LenProperties
  <1>4. Begins(Terminated(s), s)
    BY <1>2, <1>3 DEF Begins
  <1>5. EndsInNewline(Terminated(s))
    <2>1. CASE n = 0
      BY <1>2, <2>1, EmptySeq DEF EndsInNewline
    <2>2. CASE n # 0
      BY <1>1, <1>2, <2>2 DEF EndsInNewline
    <2> QED
      BY <2>1, <2>2
  <1>6. ASSUME NEW t \in Seq(Unit), Begins(t, s), EndsInNewline(t)
        PROVE  Begins(t, Terminated(s))
    <2>1. Len(t) \in Nat /\ (t # <<>> => Len(t) # 0)
      BY LenProperties, EmptySeq
    <2>2. Len(t) <= n
      <3>1. CASE t = <<>>
        BY <1>3, <2>1, <3>1, EmptySeq
      <3>2. CASE t # <<>>
        <4>1. s[Len(t)].part = "nl" /\ Len(t) \in 1 .. Len(s)
          BY <1>3, <1>6, <2>1, <3>2 DEF Begins, EndsInNewline
        <4> QED
          BY <1>1, <1>3, <4>1
      <3> QED
        BY <3>1, <3>2
    <2> QED
      BY <1>2, <1>3, <1>6, <2>1, <2>2 DEF Begins
  <1>7. ASSUME EndsInNewline(s) PROVE Terminated(s) = s
    <2>1. n = Len(s)
      <3>1. CASE s = <<>>
        BY <3>1, EmptySeq
      <3>2. CASE s # <<>>
        <4>1. Len(s) # 0 /\ s[Len(s)].part = "nl"
          BY <1>7, <3>2, EmptySeq DEF EndsInNewline
        <4> QED
          BY <1>1, <1>3, <4>1
      <3> QED
        BY <3>1, <3>2
    <2> QED
      BY <1>2, <2>1, <1>3, SeqEqual
  <1> QED
    BY <1>1, <1>2, <1>4, <1>5, <1>6, <1>7

-----------------------------------------------------------------------------
(* The entries of the whole lines of a list.                               *)

\* The raw line that starts at i.
Raw(s, i) == SubSeq(s, i, LineEnd(s, i))

\* An entry of a list is the entry of one of its lines.
LEMMA EntryLines ==
    ASSUME NEW s
    PROVE  \A e : e \in Entries(s) <=>
               \E i \in LineStarts(s) : \E f \in LineEntry(Raw(s, i)) :
                   e = [at |-> i, path |-> f.path, hash |-> f.hash]
  <1> DEFINE R == {<<i, LineEnd(s, i), s>> : i \in LineStarts(s)}
  <1> DEFINE E(r) == {[at |-> r[1], path |-> f.path, hash |-> f.hash] :
                         f \in LineEntry(SubSeq(r[3], r[1], r[2]))}
  <1>1. Entries(s) = UNION {E(r) : r \in UNION {{<<i, LineEnd(u, i), u>> : i \in LineStarts(u)} : u \in {s}}}
    BY DEF Entries
  <1>2. UNION {{<<i, LineEnd(u, i), u>> : i \in LineStarts(u)} : u \in {s}} = R
    OBVIOUS
  <1>3. Entries(s) = UNION {E(r) : r \in R}
    BY <1>1, <1>2
  <1>4. ASSUME NEW e, NEW i \in LineStarts(s)
        PROVE  e \in E(<<i, LineEnd(s, i), s>>) <=>
                   \E f \in LineEntry(Raw(s, i)) :
                       e = [at |-> i, path |-> f.path, hash |-> f.hash]
    BY DEF Raw
  <1>5. ASSUME NEW e
        PROVE  e \in Entries(s) <=> \E i \in LineStarts(s) : e \in E(<<i, LineEnd(s, i), s>>)
    <2> HIDE DEF E
    <2> QED
      BY <1>3
  <1> HIDE DEF E, R
  <1> TAKE e
  <1> QED
    BY <1>4, <1>5

LEMMA SameRaw ==
    ASSUME NEW t \in Seq(Unit), NEW s \in Seq(Unit), Begins(t, s), EndsInNewline(t),
           NEW i \in 1 .. Len(t)
    PROVE  /\ i \in LineStarts(t) <=> i \in LineStarts(s)
           /\ i \in LineStarts(t) => Raw(t, i) = Raw(s, i)
  <1>1. Len(t) \in Nat /\ Len(s) \in Nat /\ Len(t) <= Len(s) /\ \A k \in 1 .. Len(t) : t[k] = s[k]
    BY LenProperties DEF Begins
  <1>2. i \in LineStarts(t) <=> i \in LineStarts(s)
    <2>1. i # 1 => i - 1 \in 1 .. Len(t)
      BY <1>1
    <2> QED
      BY <1>1, <2>1 DEF LineStarts
  <1>3. ASSUME i \in LineStarts(t) PROVE Raw(t, i) = Raw(s, i)
    <2> DEFINE j == LineEnd(t, i)
    <2>1. /\ j \in i .. Len(t)
          /\ \A k \in i .. j : t[k].part # "nl"
          /\ j = Len(t) \/ t[j + 1].part = "nl"
      BY <1>3, LineEndExists
    <2> HIDE DEF j
    <2>2. t[Len(t)].part = "nl"
      BY <1>1, EmptySeq DEF EndsInNewline
    <2>3. j < Len(t) /\ j + 1 \in 1 .. Len(t)
      BY <1>1, <2>1, <2>2
    <2>4. s[j + 1].part = "nl" /\ j \in i .. Len(s) /\ \A k \in i .. j : s[k].part # "nl"
      <3>1. s[j + 1] = t[j + 1] /\ t[j + 1].part = "nl"
        BY <1>1, <2>1, <2>3
      <3>2. j \in i .. Len(s) /\ i .. j \subseteq 1 .. Len(t)
        BY <1>1, <2>1
      <3>3. ASSUME NEW k \in i .. j PROVE s[k].part # "nl"
        <4>1. s[k] = t[k]
          BY <1>1, <3>2
        <4> QED
          BY <2>1, <4>1
      <3> QED
        BY <3>1, <3>2, <3>3
    <2>5. LineEnd(s, i) = j
      BY <1>1, <2>4, LineEndIs
    <2>6. Raw(t, i) = SubSeq(t, i, j) /\ Raw(s, i) = SubSeq(s, i, j)
      BY <2>5 DEF Raw, j
    <2>7. \A k \in i .. j : t[k] = s[k] /\ t[k] \in Unit
      BY <1>1, <2>1, ElementOfSeq
    <2>8. /\ SubSeq(t, i, j) \in Seq(Unit) /\ SubSeq(s, i, j) \in Seq(Unit)
          /\ Len(SubSeq(t, i, j)) = j - i + 1 /\ Len(SubSeq(s, i, j)) = j - i + 1
          /\ \A k \in 1 .. j - i + 1 : SubSeq(t, i, j)[k] = t[i + k - 1]
          /\ \A k \in 1 .. j - i + 1 : SubSeq(s, i, j)[k] = s[i + k - 1]
      <3>1. i \in Int /\ j \in Int /\ i <= j
        BY <1>1, <2>1
      <3>2. (\A k \in i .. j : t[k] \in Unit) /\ \A k \in i .. j : s[k] \in Unit
        BY <2>7
      <3> QED
        BY <3>1, <3>2, SubSeqProperties
    <2>9. \A k \in 1 .. j - i + 1 : i + k - 1 \in i .. j
      BY <1>1, <2>1
    <2>10. SubSeq(t, i, j) = SubSeq(s, i, j)
      BY <2>7, <2>8, <2>9, SeqEqual
    <2> QED
      BY <2>6, <2>10
  <1> QED
    BY <1>2, <1>3

\* The entries of the whole lines of a list stay what they are, whatever
\* follows.
LEMMA WholeLinesKept ==
    ASSUME NEW t \in Seq(Unit), NEW s \in Seq(Unit), Begins(t, s), EndsInNewline(t)
    PROVE  /\ Entries(t) \subseteq Entries(s)
           /\ \A e \in Entries(s) : e.at \in 1 .. Len(t) => e \in Entries(t)
           /\ \A e \in Entries(t) : e.at \in 1 .. Len(t)
  <1>1. LineStarts(t) \subseteq 1 .. Len(t)
    BY DEF LineStarts
  <1>2. Entries(t) \subseteq Entries(s)
    <2> SUFFICES ASSUME NEW e \in Entries(t) PROVE e \in Entries(s)
      OBVIOUS
    <2>1. PICK i \in LineStarts(t) : \E f \in LineEntry(Raw(t, i)) :
              e = [at |-> i, path |-> f.path, hash |-> f.hash]
      BY EntryLines
    <2>2. i \in LineStarts(s) /\ Raw(t, i) = Raw(s, i)
      BY <1>1, SameRaw
    <2> QED
      BY <2>1, <2>2, EntryLines
  <1>3. ASSUME NEW e \in Entries(s), e.at \in 1 .. Len(t) PROVE e \in Entries(t)
    <2>1. PICK i \in LineStarts(s) : \E f \in LineEntry(Raw(s, i)) :
              e = [at |-> i, path |-> f.path, hash |-> f.hash]
      BY EntryLines
    <2>2. i \in 1 .. Len(t)
      BY <1>3, <2>1
    <2>3. i \in LineStarts(t) /\ Raw(t, i) = Raw(s, i)
      BY <2>2, SameRaw
    <2> QED
      BY <2>1, <2>3, EntryLines
  <1>4. ASSUME NEW e \in Entries(t) PROVE e.at \in 1 .. Len(t)
    <2>1. PICK i \in LineStarts(t) : \E f \in LineEntry(Raw(t, i)) :
              e = [at |-> i, path |-> f.path, hash |-> f.hash]
      BY EntryLines
    <2> QED
      BY <1>1, <2>1
  <1> QED
    BY <1>2, <1>3, <1>4

LEMMA RecordedKept ==
    ASSUME NEW t \in Seq(Unit), NEW s \in Seq(Unit), Begins(t, s), EndsInNewline(t)
    PROVE  Recorded(t) \subseteq Recorded(s) /\ Listed(t) \subseteq Listed(s)
  BY WholeLinesKept DEF Recorded, Listed

\* A list that grows keeps the entries of its whole lines.
LEMMA TerminatedKept ==
    ASSUME NEW t \in Seq(Unit), NEW s \in Seq(Unit), Begins(t, s)
    PROVE  /\ Begins(Terminated(t), Terminated(s))
           /\ Entries(Terminated(t)) \subseteq Entries(Terminated(s))
           /\ Recorded(Terminated(t)) \subseteq Recorded(Terminated(s))
           /\ Recorded(Terminated(t)) \subseteq Recorded(t)
           /\ Listed(Terminated(t)) \subseteq Listed(t)
  <1>1. /\ Terminated(t) \in Seq(Unit) /\ Begins(Terminated(t), t)
        /\ EndsInNewline(Terminated(t))
    BY TerminatedBegins
  <1>2. Begins(Terminated(t), s)
    <2>1. Len(Terminated(t)) \in Nat /\ Len(t) \in Nat /\ Len(s) \in Nat
      BY <1>1, LenProperties
    <2> QED
      BY <1>1, <2>1 DEF Begins
  <1>3. Terminated(s) \in Seq(Unit) /\ Begins(Terminated(t), Terminated(s))
    BY <1>1, <1>2, TerminatedBegins
  <1> QED
    BY <1>1, <1>3, WholeLinesKept, RecordedKept

-----------------------------------------------------------------------------
(* The entry of a line appended to a list, whole or torn.                  *)

LEMMA LineUnits ==
    ASSUME NEW p \in Paths
    PROVE  /\ Line(p) \in Seq(Unit) /\ Len(Line(p)) = 4
           /\ Line(p)[1] = U(p, "hash") /\ Line(p)[2] = U(p, "name")
           /\ Line(p)[3] = U(p, "rest") /\ Line(p)[4] = U(p, "nl")
  <1>1. \A x \in {"hash", "name", "rest", "nl"} : U(p, x) \in Unit
    BY DEF U, Unit, Part
  <1> QED
    BY <1>1 DEF Line

\* A short sequence is known by its elements.
LEMMA SeqOfOne ==
    ASSUME NEW S, NEW s \in Seq(S), Len(s) = 1
    PROVE  s = <<s[1]>>
  <1>1. s[1] \in S
    BY ElementOfSeq
  <1>2. <<s[1]>> \in Seq(S) /\ Len(<<s[1]>>) = 1 /\ <<s[1]>>[1] = s[1]
    BY <1>1
  <1> HIDE <1>1
  <1>3. \A i \in 1 .. Len(s) : s[i] = <<s[1]>>[i]
    BY <1>2
  <1> QED
    BY <1>2, <1>3, SeqEqual

LEMMA SeqOfTwo ==
    ASSUME NEW S, NEW s \in Seq(S), Len(s) = 2
    PROVE  s = <<s[1], s[2]>>
  <1>1. s[1] \in S /\ s[2] \in S
    BY ElementOfSeq
  <1> DEFINE t == <<s[1], s[2]>>
  <1>2. t \in Seq(S) /\ Len(t) = 2 /\ t[1] = s[1] /\ t[2] = s[2]
    BY <1>1
  <1> HIDE DEF t
  <1>3. \A i \in 1 .. Len(s) : s[i] = t[i]
    BY <1>2
  <1>4. s = t
    BY <1>2, <1>3, SeqEqual
  <1> QED
    BY <1>4 DEF t

LEMMA SeqOfThree ==
    ASSUME NEW S, NEW s \in Seq(S), Len(s) = 3
    PROVE  s = <<s[1], s[2], s[3]>>
  <1>1. s[1] \in S /\ s[2] \in S /\ s[3] \in S
    <2>1. 1 \in 1 .. Len(s) /\ 2 \in 1 .. Len(s) /\ 3 \in 1 .. Len(s)
      OBVIOUS
    <2> QED
      BY <2>1, ElementOfSeq
  <1> DEFINE t == <<s[1], s[2], s[3]>>
  <1>2. t \in Seq(S) /\ Len(t) = 3 /\ t[1] = s[1] /\ t[2] = s[2] /\ t[3] = s[3]
    BY <1>1
  <1> HIDE DEF t
  <1>3. \A i \in 1 .. Len(s) : s[i] = t[i]
    BY <1>2
  <1>4. s = t
    BY <1>2, <1>3, SeqEqual
  <1> QED
    BY <1>4 DEF t

\* A piece of a sequence of units.
LEMMA Piece ==
    ASSUME NEW s \in Seq(Unit), NEW m \in Nat \ {0}, NEW n \in 0 .. Len(s)
    PROVE  /\ SubSeq(s, m, n) \in Seq(Unit)
           /\ Len(SubSeq(s, m, n)) = IF m <= n THEN n - m + 1 ELSE 0
           /\ \A i \in 1 .. n - m + 1 : SubSeq(s, m, n)[i] = s[m + i - 1]
  <1>1. Len(s) \in Nat
    BY LenProperties
  <1>2. \A i \in m .. n : s[i] \in Unit
    BY <1>1, ElementOfSeq
  <1> QED
    BY <1>1, <1>2, SubSeqProperties

\* Where the line lies that was appended last.
LEMMA AppendedLine ==
    ASSUME NEW s \in Seq(Unit), NEW p \in Paths
    PROVE  LET t == s \o Line(p)
               n == Len(Terminated(s))
               r == Raw(t, n + 1) IN
           /\ t \in Seq(Unit) /\ Len(t) = Len(s) + 4 /\ Begins(s, t) /\ EndsInNewline(t)
           /\ n + 1 \in LineStarts(t) /\ LineStarts(t) \subseteq 1 .. n + 1
           /\ r \in Seq(Unit) /\ Len(r) = Len(s) - n + 3 /\ n <= Len(s)
           /\ r[Len(r) - 2] = U(p, "hash") /\ r[Len(r) - 1] = U(p, "name")
           /\ r[Len(r)] = U(p, "rest")
  <1> DEFINE t == s \o Line(p)
             n == Len(Terminated(s))
             r == Raw(t, n + 1)
             l == Len(s)
  <1>1. l \in Nat
    BY LenProperties
  <1>2. /\ t \in Seq(Unit) /\ Len(t) = l + 4
        /\ \A i \in 1 .. l : t[i] = s[i]
        /\ t[l + 1] = U(p, "hash") /\ t[l + 2] = U(p, "name")
        /\ t[l + 3] = U(p, "rest") /\ t[l + 4] = U(p, "nl")
    BY <1>1, LineUnits, ConcatProperties
  <1>3. /\ n \in 0 .. l
        /\ n # 0 => s[n].part = "nl"
        /\ \A m \in n + 1 .. l : s[m].part # "nl"
    <2>1. /\ Terminated(s) \in Seq(Unit) /\ Begins(Terminated(s), s)
          /\ EndsInNewline(Terminated(s))
          /\ \A m \in n + 1 .. l : s[m].part # "nl"
      BY TerminatedBegins
    <2>2. n \in Nat /\ (n # 0 => Terminated(s) # <<>>)
      BY <2>1, LenProperties, EmptySeq
    <2> QED
      BY <1>1, <2>1, <2>2 DEF Begins, EndsInNewline
  <1> HIDE DEF t, n, l
  <1>4. Begins(s, t)
    BY <1>1, <1>2 DEF Begins, l
  <1>5. EndsInNewline(t)
    BY <1>1, <1>2 DEF EndsInNewline, U
  <1>6. \A m \in n + 1 .. l + 3 : t[m].part # "nl"
    <2>1. ASSUME NEW m \in n + 1 .. l PROVE t[m].part # "nl"
      <3>1. m \in 1 .. l
        BY <1>1, <1>3
      <3> QED
        BY <1>2, <1>3, <3>1
    <2>2. t[l + 1].part # "nl" /\ t[l + 2].part # "nl" /\ t[l + 3].part # "nl"
      BY <1>2 DEF U
    <2>3. \A m \in n + 1 .. l + 3 : m \in n + 1 .. l \/ m = l + 1 \/ m = l + 2 \/ m = l + 3
      BY <1>1, <1>3
    <2> QED
      BY <2>1, <2>2, <2>3
  <1>7. n + 1 \in LineStarts(t)
    <2> SUFFICES ASSUME NEW a \in Nat, a = n + 1 PROVE a \in LineStarts(t)
      BY <1>1, <1>3
    <2>1. a \in 1 .. Len(t) /\ t[a].part # "nl"
      BY <1>1, <1>2, <1>3, <1>6
    <2>2. a = 1 \/ t[a - 1].part = "nl"
      BY <1>1, <1>2, <1>3
    <2> QED
      BY <2>1, <2>2 DEF LineStarts
  <1>8. LineStarts(t) \subseteq 1 .. n + 1
    <2> SUFFICES ASSUME NEW i \in LineStarts(t), i > n + 1 PROVE FALSE
      BY <1>1, <1>2, <1>3 DEF LineStarts
    <2>1. i \in 1 .. l + 4 /\ t[i].part # "nl" /\ t[i - 1].part = "nl"
      BY <1>1, <1>2, <1>3 DEF LineStarts
    <2>2. i - 1 \in n + 1 .. l + 3
      BY <1>1, <1>3, <2>1
    <2> QED
      BY <1>6, <2>1, <2>2
  <1>9. r = SubSeq(t, n + 1, l + 3)
    <2>1. n + 1 \in 1 .. Len(t) /\ l + 3 \in n + 1 .. Len(t) /\ l + 3 + 1 = l + 4
      BY <1>1, <1>2, <1>3
    <2>2. t[l + 3 + 1].part = "nl"
      BY <1>2, <2>1 DEF U
    <2>3. LineEnd(t, n + 1) = l + 3
      BY <1>2, <1>6, <2>1, <2>2, LineEndIs
    <2> QED
      BY <2>3 DEF Raw, r
  <1>10. /\ r \in Seq(Unit) /\ Len(r) = l - n + 3
         /\ \A i \in 1 .. l - n + 3 : r[i] = t[n + 1 + i - 1]
    <2> SUFFICES ASSUME NEW a \in Nat, a = n + 1, NEW b \in Nat, b = l + 3
                 PROVE  /\ r \in Seq(Unit) /\ Len(r) = l - n + 3
                        /\ \A i \in 1 .. l - n + 3 : r[i] = t[a + i - 1]
      BY <1>1, <1>3
    <2>1. a \in Nat \ {0} /\ b \in 0 .. Len(t) /\ b - a + 1 = l - n + 3 /\ a <= b
      BY <1>1, <1>2, <1>3
    <2>2. /\ SubSeq(t, a, b) \in Seq(Unit)
          /\ Len(SubSeq(t, a, b)) = b - a + 1
          /\ \A i \in 1 .. b - a + 1 : SubSeq(t, a, b)[i] = t[a + i - 1]
      BY <1>2, <2>1, Piece
    <2>3. r = SubSeq(t, a, b)
      BY <1>9
    <2> QED
      BY <2>1, <2>2, <2>3
  <1>11. /\ r[Len(r) - 2] = U(p, "hash") /\ r[Len(r) - 1] = U(p, "name")
         /\ r[Len(r)] = U(p, "rest")
    <2>1. /\ l - n + 1 \in 1 .. l - n + 3 /\ l - n + 2 \in 1 .. l - n + 3
          /\ l - n + 3 \in 1 .. l - n + 3
          /\ n + 1 + (l - n + 1) - 1 = l + 1 /\ n + 1 + (l - n + 2) - 1 = l + 2
          /\ n + 1 + (l - n + 3) - 1 = l + 3
          /\ (l - n + 3) - 2 = l - n + 1 /\ (l - n + 3) - 1 = l - n + 2
      BY <1>1, <1>3
    <2> QED
      BY <1>2, <1>10, <2>1
  <1> QED
    BY <1>2, <1>3, <1>4, <1>5, <1>7, <1>8, <1>10, <1>11 DEF t, n, r, l

\* The first name of a raw line, which the reader takes for its path column.
FirstName(raw, k) ==
    /\ k \in 1 .. Len(raw) /\ raw[k].part = "name"
    /\ \A m \in 1 .. k - 1 : raw[m].part # "name"

LEMMA TextEntries ==
    ASSUME NEW raw
    PROVE  \A f : f \in TextEntry(raw) <=>
               \E k : /\ FirstName(raw, k)
                      /\ f = [path |-> Spelled(SubSeq(raw, k, Len(raw))),
                              hash |-> HashColumn(SubSeq(raw, 1, k - 1))]
  BY DEF TextEntry, FirstName

\* A line has one entry at most.
LEMMA OneEntry ==
    ASSUME NEW raw \in Seq(Unit), NEW f \in LineEntry(raw), NEW g \in LineEntry(raw)
    PROVE  f = g
  <1>1. CASE JsonOut
    <2>1. f \in JsonEntry(raw) /\ g \in JsonEntry(raw)
      BY <1>1 DEF LineEntry
    <2>2. PICK p \in Paths : /\ raw = <<U(p, "hash"), U(p, "name"), U(p, "rest")>>
                             /\ f = [path |-> p, hash |-> p]
      BY <2>1 DEF JsonEntry
    <2>3. PICK q \in Paths : /\ raw = <<U(q, "hash"), U(q, "name"), U(q, "rest")>>
                             /\ g = [path |-> q, hash |-> q]
      BY <2>1 DEF JsonEntry
    <2>4. U(p, "hash") = U(q, "hash")
      BY <2>2, <2>3
    <2>5. p = q
      BY <2>4 DEF U
    <2> QED
      BY <2>2, <2>3, <2>5
  <1>2. CASE ~JsonOut
    <2>1. f \in TextEntry(raw) /\ g \in TextEntry(raw)
      BY <1>2 DEF LineEntry
    <2>2. PICK k : /\ FirstName(raw, k)
                   /\ f = [path |-> Spelled(SubSeq(raw, k, Len(raw))),
                           hash |-> HashColumn(SubSeq(raw, 1, k - 1))]
      BY <2>1, TextEntries
    <2>3. PICK n : /\ FirstName(raw, n)
                   /\ g = [path |-> Spelled(SubSeq(raw, n, Len(raw))),
                           hash |-> HashColumn(SubSeq(raw, 1, n - 1))]
      BY <2>1, TextEntries
    <2>4. k = n
      <3>1. Len(raw) \in Nat
        BY LenProperties
      <3> QED
        BY <2>2, <2>3, <3>1 DEF FirstName
    <2> QED
      BY <2>2, <2>3, <2>4
  <1> QED
    BY <1>1, <1>2

\* What an entry spells comes from a text of two units at most.
LEMMA SpelledShort ==
    ASSUME NEW t \in Seq(Unit), Len(t) \in Nat, Len(t) >= 3
    PROVE  Spelled(t) = NoPath
  <1>1. ASSUME NEW p \in Paths
        PROVE  t # <<U(p, "name"), U(p, "rest")>> /\ t # <<U(p, "name")>>
    <2>1. Len(<<U(p, "name"), U(p, "rest")>>) = 2
      OBVIOUS
    <2>2. Len(<<U(p, "name")>>) = 1
      OBVIOUS
    <2>3. \A n \in Nat : n >= 3 => n # 1 /\ n # 2
      OBVIOUS
    <2>4. Len(t) # 1 /\ Len(t) # 2
      BY <2>3, Zenon
    <2> QED
      BY <2>1, <2>2, <2>4, Zenon
  <1>2. /\ ~\E p \in Paths : t = <<U(p, "name"), U(p, "rest")>>
        /\ ~\E p \in Paths : t = <<U(p, "name")>>
    BY <1>1
  <1> QED
    BY <1>2 DEF Spelled

LEMMA SpelledName ==
    ASSUME NEW p \in Paths
    PROVE  /\ Spelled(<<U(p, "name"), U(p, "rest")>>) = p
           /\ HashColumn(<<U(p, "hash")>>) = p
  <1>1. <<U(p, "name"), U(p, "rest")>>[1] = U(p, "name") /\ <<U(p, "hash")>>[1] = U(p, "hash")
    OBVIOUS
  <1>2. U(p, "name").path = p /\ U(p, "hash").path = p
    BY DEF U
  <1> QED
    BY <1>1, <1>2 DEF Spelled, HashColumn

\* A raw line that ends with the units of a whole line: what a torn line
\* before them leaves of their entry, if anything, and what it is with none.
LEMMA RawEntry ==
    ASSUME NEW raw \in Seq(Unit), NEW p \in Paths, Len(raw) >= 3,
           raw[Len(raw) - 2] = U(p, "hash"), raw[Len(raw) - 1] = U(p, "name"),
           raw[Len(raw)] = U(p, "rest")
    PROVE  /\ \A f \in LineEntry(raw) : f.path \in {p, NoPath}
           /\ Len(raw) = 3 => [path |-> p, hash |-> p] \in LineEntry(raw)
  <1> DEFINE l == Len(raw)
  <1>1. l \in Nat /\ l - 2 \in 1 .. l /\ l - 1 \in 1 .. l
    BY LenProperties
  <1>2. l = 3 => raw = <<U(p, "hash"), U(p, "name"), U(p, "rest")>>
    <2> HAVE l = 3
    <2>1. l - 2 = 1 /\ l - 1 = 2
      OBVIOUS
    <2> QED
      BY <2>1, SeqOfThree
  <1>3. CASE JsonOut
    <2>1. l = 3 => [path |-> p, hash |-> p] \in LineEntry(raw)
      BY <1>2, <1>3 DEF LineEntry, JsonEntry
    <2>2. ASSUME NEW f \in LineEntry(raw) PROVE f.path = p
      <3>1. PICK q \in Paths : /\ raw = <<U(q, "hash"), U(q, "name"), U(q, "rest")>>
                               /\ f = [path |-> q, hash |-> q]
        BY <1>3 DEF LineEntry, JsonEntry
      <3>2. l = 3 /\ raw[1] = U(q, "hash")
        BY <3>1
      <3>3. raw[1] = U(p, "hash")
        BY <3>2
      <3>4. U(p, "hash") = U(q, "hash")
        BY <3>2, <3>3
      <3>5. p = q
        BY <3>4 DEF U
      <3> QED
        BY <3>1, <3>5
    <2> QED
      BY <2>1, <2>2
  <1>4. CASE ~JsonOut
    <2>1. U(p, "hash").part = "hash" /\ U(p, "name").part = "name" /\ U(p, "rest").part = "rest"
      BY DEF U
    <2>2. ASSUME NEW f \in LineEntry(raw) PROVE f.path \in {p, NoPath}
      <3>1. PICK k : FirstName(raw, k) /\ f.path = Spelled(SubSeq(raw, k, l))
        <4>1. f \in TextEntry(raw)
          BY <1>4 DEF LineEntry
        <4> QED
          BY <4>1, TextEntries
      <3>2. k \in 1 .. l /\ k # l /\ k # l - 2
        BY <2>1, <3>1 DEF FirstName
      <3>3. /\ SubSeq(raw, k, l) \in Seq(Unit) /\ Len(SubSeq(raw, k, l)) = l - k + 1
            /\ \A i \in 1 .. l - k + 1 : SubSeq(raw, k, l)[i] = raw[k + i - 1]
        BY <1>1, <3>2, Piece
      <3>4. CASE k = l - 1
        <4>1. Len(SubSeq(raw, k, l)) = 2
          BY <1>1, <3>3, <3>4
        <4>2. SubSeq(raw, k, l)[1] = raw[l - 1] /\ SubSeq(raw, k, l)[2] = raw[l]
          <5>1. 1 \in 1 .. l - k + 1 /\ 2 \in 1 .. l - k + 1
                /\ k + 1 - 1 = l - 1 /\ k + 2 - 1 = l
            BY <1>1, <3>4
          <5> QED
            BY <3>3, <5>1
        <4>3. SubSeq(raw, k, l) = <<U(p, "name"), U(p, "rest")>>
          BY <3>3, <4>1, <4>2, SeqOfTwo
        <4> QED
          BY <3>1, <4>3, SpelledName
      <3>5. CASE k < l - 2
        <4>1. Len(SubSeq(raw, k, l)) \in Nat /\ Len(SubSeq(raw, k, l)) >= 3
          BY <1>1, <3>2, <3>3, <3>5
        <4> QED
          BY <3>1, <3>3, <4>1, SpelledShort
      <3> QED
        BY <1>1, <3>2, <3>4, <3>5
    <2>3. ASSUME l = 3 PROVE [path |-> p, hash |-> p] \in LineEntry(raw)
      <3>1. raw[1] = U(p, "hash") /\ raw[2] = U(p, "name") /\ raw[3] = U(p, "rest")
        <4>1. l - 2 = 1 /\ l - 1 = 2
          BY <2>3
        <4> QED
          BY <2>3, <4>1
      <3>2. FirstName(raw, 2)
        <4>1. \A m \in 1 .. 2 - 1 : m = 1
          OBVIOUS
        <4> QED
          BY <2>1, <2>3, <3>1, <4>1 DEF FirstName
      <3>3. SubSeq(raw, 2, 3) = <<U(p, "name"), U(p, "rest")>>
        <4>1. /\ SubSeq(raw, 2, 3) \in Seq(Unit) /\ Len(SubSeq(raw, 2, 3)) = 2
              /\ SubSeq(raw, 2, 3)[1] = raw[2] /\ SubSeq(raw, 2, 3)[2] = raw[3]
          BY <2>3, Piece
        <4> QED
          BY <3>1, <4>1, SeqOfTwo
      <3>4. SubSeq(raw, 1, 1) = <<U(p, "hash")>>
        <4>1. /\ SubSeq(raw, 1, 1) \in Seq(Unit) /\ Len(SubSeq(raw, 1, 1)) = 1
              /\ SubSeq(raw, 1, 1)[1] = raw[1]
          <5>1. 1 \in Nat \ {0} /\ 1 \in 0 .. Len(raw) /\ 1 \in 1 .. 1 - 1 + 1
                /\ 1 - 1 + 1 = 1 /\ 1 + 1 - 1 = 1
            BY <2>3
          <5>2. \A i \in 1 .. 1 - 1 + 1 : SubSeq(raw, 1, 1)[i] = raw[1 + i - 1]
            BY <5>1, Piece
          <5>3. SubSeq(raw, 1, 1) \in Seq(Unit) /\ Len(SubSeq(raw, 1, 1)) = 1
            BY <5>1, Piece
          <5> QED
            BY <5>1, <5>2, <5>3
        <4> QED
          BY <3>1, <4>1, SeqOfOne
      <3>5. [path |-> Spelled(SubSeq(raw, 2, l)), hash |-> HashColumn(SubSeq(raw, 1, 2 - 1))]
                \in TextEntry(raw)
        BY <3>2, TextEntries
      <3>6. 2 - 1 = 1
        OBVIOUS
      <3> QED
        BY <1>4, <2>3, <3>3, <3>4, <3>5, <3>6, SpelledName DEF LineEntry
    <2> QED
      BY <2>2, <2>3
  <1> QED
    BY <1>3, <1>4

\* No two entries of a list come from one line.
LEMMA EntryByPlace ==
    ASSUME NEW s \in Seq(Unit), NEW e \in Entries(s), NEW f \in Entries(s), e.at = f.at
    PROVE  e = f
  <1>1. PICK i \in LineStarts(s) : \E a \in LineEntry(Raw(s, i)) :
            e = [at |-> i, path |-> a.path, hash |-> a.hash]
    BY EntryLines
  <1>2. PICK j \in LineStarts(s) : \E b \in LineEntry(Raw(s, j)) :
            f = [at |-> j, path |-> b.path, hash |-> b.hash]
    BY EntryLines
  <1>3. i = j
    BY <1>1, <1>2
  <1>4. PICK a \in LineEntry(Raw(s, i)) : e = [at |-> i, path |-> a.path, hash |-> a.hash]
    BY <1>1
  <1>5. PICK b \in LineEntry(Raw(s, i)) : f = [at |-> i, path |-> b.path, hash |-> b.hash]
    BY <1>2, <1>3
  <1>6. Raw(s, i) \in Seq(Unit)
    <2>1. LineEnd(s, i) \in i .. Len(s) /\ i \in 1 .. Len(s) /\ Len(s) \in Nat
      BY LineEndExists, LenProperties DEF LineStarts
    <2>2. LineEnd(s, i) \in 0 .. Len(s) /\ i \in Nat \ {0}
      BY <2>1
    <2> QED
      BY <2>2, Piece DEF Raw
  <1>7. a = b
    BY <1>6, OneEntry
  <1> QED
    BY <1>4, <1>5, <1>7

\* An entry that names a file names it in the last unit of its line, but in a
\* text line torn inside its path.
LEMMA EntryEnd ==
    ASSUME NEW raw \in Seq(Unit), NEW f \in LineEntry(raw), f.path \in Paths
    PROVE  /\ raw # <<>>
           /\ \/ raw[Len(raw)] = U(f.path, "rest")
              \/ ~JsonOut /\ raw[Len(raw)].part = "name"
  <1>1. CASE JsonOut
    <2>1. PICK p \in Paths : /\ raw = <<U(p, "hash"), U(p, "name"), U(p, "rest")>>
                             /\ f = [path |-> p, hash |-> p]
      BY <1>1 DEF LineEntry, JsonEntry
    <2>2. Len(raw) = 3 /\ raw[3] = U(p, "rest")
      BY <2>1
    <2> QED
      BY <2>1, <2>2, EmptySeq
  <1>2. CASE ~JsonOut
    <2> DEFINE l == Len(raw)
    <2>1. PICK k : FirstName(raw, k) /\ f.path = Spelled(SubSeq(raw, k, l))
      <3>1. f \in TextEntry(raw)
        BY <1>2 DEF LineEntry
      <3> QED
        BY <3>1, TextEntries
    <2>2. l \in Nat /\ k \in 1 .. l /\ k \in Nat \ {0} /\ l \in 0 .. l
      BY <2>1, LenProperties DEF FirstName
    <2> DEFINE t == SubSeq(raw, k, l)
    <2>3. t \in Seq(Unit) /\ Len(t) = l - k + 1 /\ \A i \in 1 .. l - k + 1 : t[i] = raw[k + i - 1]
      BY <2>2, Piece
    <2>4. t[Len(t)] = raw[l]
      <3>1. l - k + 1 \in 1 .. l - k + 1 /\ k + (l - k + 1) - 1 = l
        BY <2>2
      <3> QED
        BY <2>3, <3>1
    <2> HIDE DEF t
    <2>5. f.path = Spelled(t) /\ Spelled(t) # NoPath
      BY <2>1, NoPathAssumption DEF t
    <2>6. CASE \E p \in Paths : t = <<U(p, "name"), U(p, "rest")>>
      <3>1. PICK p \in Paths : t = <<U(p, "name"), U(p, "rest")>>
        BY <2>6
      <3>2. Spelled(t) = p
        BY <3>1, SpelledName
      <3>3. Len(t) = 2 /\ t[2] = U(p, "rest")
        BY <3>1
      <3> QED
        BY <2>2, <2>4, <2>5, <3>2, <3>3, EmptySeq
    <2>7. CASE \E p \in Paths : t = <<U(p, "name")>>
      <3>1. PICK p \in Paths : t = <<U(p, "name")>>
        BY <2>7
      <3>2. Len(t) = 1 /\ t[1] = U(p, "name") /\ U(p, "name").part = "name"
        BY <3>1 DEF U
      <3> QED
        BY <1>2, <2>2, <2>4, <3>2, EmptySeq
    <2> QED
      BY <2>5, <2>6, <2>7 DEF Spelled
  <1> QED
    BY <1>1, <1>2

\* The entries of a list that are not those of its whole lines: at most one,
\* of its last line.
LEMMA TornEntry ==
    ASSUME NEW s \in Seq(Unit), NEW e \in Entries(s), e \notin Entries(Terminated(s))
    PROVE  /\ e.at = Len(Terminated(s)) + 1
           /\ e.path \in Paths => \/ s[Len(s)] = U(e.path, "rest")
                                  \/ ~JsonOut /\ s[Len(s)].part = "name"
  <1> DEFINE n == Len(Terminated(s))  l == Len(s)
  <1>1. /\ Terminated(s) \in Seq(Unit) /\ Begins(Terminated(s), s)
        /\ EndsInNewline(Terminated(s)) /\ \A m \in n + 1 .. l : s[m].part # "nl"
    BY TerminatedBegins
  <1>2. n \in Nat /\ l \in Nat /\ n <= l
    BY <1>1, LenProperties DEF Begins
  <1>3. PICK i \in LineStarts(s) : \E a \in LineEntry(Raw(s, i)) :
            e = [at |-> i, path |-> a.path, hash |-> a.hash]
    BY EntryLines
  <1>4. PICK a \in LineEntry(Raw(s, i)) : e = [at |-> i, path |-> a.path, hash |-> a.hash]
    BY <1>3
  <1>5. e.at = i /\ e.path = a.path
    BY <1>4
  <1>6. i \notin 1 .. n
    BY <1>1, <1>5, WholeLinesKept
  <1> HIDE DEF n, l
  <1>7. i = n + 1 /\ i \in 1 .. l
    <2>1. i \in 1 .. l /\ (i = 1 \/ s[i - 1].part = "nl")
      BY DEF LineStarts, l
    <2>2. i - 1 \notin n + 1 .. l \/ i = 1
      BY <1>1, <2>1
    <2> QED
      BY <1>2, <1>6, <2>1, <2>2
  <1>8. LineEnd(s, i) = l
    <2>1. l \in i .. Len(s) /\ \A k \in i .. l : s[k].part # "nl"
      BY <1>1, <1>2, <1>7 DEF l
    <2> QED
      BY <1>7, <2>1, LineEndIs DEF l
  <1> DEFINE r == Raw(s, i)
  <1>9. r \in Seq(Unit) /\ Len(r) = l - i + 1 /\ r[Len(r)] = s[l]
    <2>1. i \in Nat \ {0} /\ l \in 0 .. Len(s) /\ i <= l
      BY <1>2, <1>7 DEF l
    <2>2. /\ SubSeq(s, i, l) \in Seq(Unit) /\ Len(SubSeq(s, i, l)) = l - i + 1
          /\ \A k \in 1 .. l - i + 1 : SubSeq(s, i, l)[k] = s[i + k - 1]
      BY <2>1, Piece
    <2>3. l - i + 1 \in 1 .. l - i + 1 /\ i + (l - i + 1) - 1 = l
      BY <1>2, <2>1
    <2>4. r = SubSeq(s, i, l)
      BY <1>8 DEF Raw
    <2> QED
      BY <2>2, <2>3, <2>4
  <1> HIDE DEF r
  <1>10. ASSUME e.path \in Paths
         PROVE  s[l] = U(e.path, "rest") \/ (~JsonOut /\ s[l].part = "name")
    <2>1. a \in LineEntry(r) /\ a.path \in Paths
      BY <1>5, <1>10 DEF r
    <2>2. r[Len(r)] = U(a.path, "rest") \/ (~JsonOut /\ r[Len(r)].part = "name")
      BY <1>9, <2>1, EntryEnd
    <2> QED
      BY <1>5, <1>9, <2>2
  <1> QED
    BY <1>5, <1>7, <1>10 DEF n, l

\* A line appended to a list brings one entry at most, of its own file or of
\* none, and its own entry if the list ended in a newline.
LEMMA AppendedEntries ==
    ASSUME NEW s \in Seq(Unit), NEW p \in Paths
    PROVE  LET t == s \o Line(p)  n == Len(Terminated(s)) IN
           /\ t \in Seq(Unit) /\ Begins(s, t) /\ EndsInNewline(t)
           /\ \A e \in Entries(t) :
                  e \in Entries(Terminated(s)) \/ (e.at = n + 1 /\ e.path \in {p, NoPath})
           /\ EndsInNewline(s) =>
                  /\ [at |-> n + 1, path |-> p, hash |-> p] \in Entries(t)
                  /\ \A e \in Entries(t) : e.at = n + 1 => e.path = p /\ e.hash = p
  <1> DEFINE t == s \o Line(p)
             n == Len(Terminated(s))
             r == Raw(t, n + 1)
  <1>1. /\ t \in Seq(Unit) /\ Begins(s, t) /\ EndsInNewline(t)
        /\ n + 1 \in LineStarts(t) /\ LineStarts(t) \subseteq 1 .. n + 1
        /\ r \in Seq(Unit) /\ Len(r) = Len(s) - n + 3 /\ n <= Len(s)
        /\ r[Len(r) - 2] = U(p, "hash") /\ r[Len(r) - 1] = U(p, "name")
        /\ r[Len(r)] = U(p, "rest")
    BY AppendedLine
  <1>2. /\ Terminated(s) \in Seq(Unit) /\ Begins(Terminated(s), t)
        /\ EndsInNewline(Terminated(s)) /\ n \in Nat /\ Len(s) \in Nat
    <2>1. /\ Terminated(s) \in Seq(Unit) /\ Begins(Terminated(s), s)
          /\ EndsInNewline(Terminated(s))
      BY TerminatedBegins
    <2>2. n \in Nat /\ Len(s) \in Nat /\ Len(t) \in Nat
      BY <1>1, <2>1, LenProperties
    <2> HIDE DEF t
    <2>3. Begins(Terminated(s), t)
      BY <1>1, <2>1, <2>2 DEF Begins
    <2> QED
      BY <2>1, <2>2, <2>3
  <1> HIDE DEF t, n
  <1>3. /\ \A f \in LineEntry(r) : f.path \in {p, NoPath}
        /\ Len(r) = 3 => [path |-> p, hash |-> p] \in LineEntry(r)
    <2>1. Len(r) >= 3
      BY <1>1, <1>2
    <2> HIDE DEF r
    <2> QED
      BY <1>1, <2>1, RawEntry
  <1>4. ASSUME NEW e \in Entries(t)
        PROVE  e \in Entries(Terminated(s)) \/ (e.at = n + 1 /\ e.path \in {p, NoPath})
    <2>1. PICK i \in LineStarts(t) : \E a \in LineEntry(Raw(t, i)) :
              e = [at |-> i, path |-> a.path, hash |-> a.hash]
      BY EntryLines
    <2>2. CASE i = n + 1
      BY <1>3, <2>1, <2>2
    <2>3. CASE i # n + 1
      <3>1. e.at \in 1 .. n
        BY <1>1, <1>2, <2>1, <2>3
      <3>2. \A f \in Entries(t) : f.at \in 1 .. Len(Terminated(s)) => f \in Entries(Terminated(s))
        BY <1>1, <1>2, WholeLinesKept
      <3> QED
        BY <3>1, <3>2 DEF n
    <2> QED
      BY <2>2, <2>3
  <1>5. ASSUME EndsInNewline(s)
        PROVE  /\ [at |-> n + 1, path |-> p, hash |-> p] \in Entries(t)
               /\ \A e \in Entries(t) : e.at = n + 1 => e.path = p /\ e.hash = p
    <2>1. n = Len(s)
      BY <1>5, TerminatedBegins DEF n
    <2>2. [path |-> p, hash |-> p] \in LineEntry(r)
      BY <1>1, <1>2, <1>3, <2>1
    <2> DEFINE f == [path |-> p, hash |-> p]  e == [at |-> n + 1, path |-> p, hash |-> p]
    <2>3. f \in LineEntry(Raw(t, n + 1)) /\ f.path = p /\ f.hash = p
      BY <2>2
    <2>4. e = [at |-> n + 1, path |-> f.path, hash |-> f.hash]
      OBVIOUS
    <2>5. e.at = n + 1 /\ e.path = p /\ e.hash = p
      OBVIOUS
    <2> HIDE DEF f, e
    <2>6. e \in Entries(t)
      BY <1>1, <2>3, <2>4, EntryLines
    <2>7. \A g \in Entries(t) : g.at = n + 1 => g = e
      BY <1>1, <2>5, <2>6, EntryByPlace
    <2>8. \A g \in Entries(t) : g.at = n + 1 => g.path = p /\ g.hash = p
      BY <2>5, <2>7
    <2> QED
      BY <2>6, <2>8 DEF e
  <1> QED
    BY <1>1, <1>4, <1>5 DEF t, n

=============================================================================
