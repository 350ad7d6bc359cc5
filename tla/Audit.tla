------------------------------- MODULE Audit -------------------------------
(***************************************************************************)
(* What -verify promises, without goroutines and channels: the entries of  *)
(* a list are judged one at a time, each once and for what it is, and then *)
(* one report says how many there are and how many are right.              *)
(***************************************************************************)

CONSTANT Size(_)    \* the number of entries in a set of them

VARIABLES
    right,      \* the entries whose file has the hash expected of it
    wrong,      \* the others
    judged,     \* those judged so far
    report      \* the set of the reports printed

vars == <<right, wrong, judged, report>>

Verdict(good, bad) ==
    [total |-> Size(right \cup wrong), match |-> Size(good),
     mismatch |-> Size(bad), allMatch |-> bad = {}]

Init == right \cap wrong = {} /\ judged = {} /\ report = {}

Judge ==
    /\ \E e \in (right \cup wrong) \ judged : judged' = judged \cup {e}
    /\ UNCHANGED <<right, wrong, report>>

Publish ==
    /\ judged = right \cup wrong /\ report = {}
    /\ report' = {Verdict(right, wrong)}
    /\ UNCHANGED <<right, wrong, judged>>

Next == Judge \/ Publish

Safety == Init /\ [][Next]_vars
Spec == Safety /\ WF_vars(Next)
=============================================================================
