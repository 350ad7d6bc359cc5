----------------------------- MODULE MCGenerate -----------------------------
(***************************************************************************)
(* Instances of Generate for TLC: files are numbers, workers model values. *)
(***************************************************************************)
EXTENDS Generate, TLC

\* Cutting the end off the name of file 2 spells file 1 (think of a file
\* "data" beside a file "data.txt"); no other name is the start of another.
MCShort == [p \in Paths |-> IF p = 2 THEN 1 ELSE NoPath]

\* A folder that does not change, and one that grows between runs.
SameFolder == {Paths}
GrowingFolder == {Paths \ {2}, Paths}

Symmetry == Permutations(Workers)
=============================================================================
