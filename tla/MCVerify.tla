------------------------------ MODULE MCVerify ------------------------------
(***************************************************************************)
(* Instances of Verify for TLC.  Two listed names resolve to one file, so  *)
(* that lists with several entries for a file are among those verified.    *)
(***************************************************************************)
EXTENDS Verify, SequencesExt

MCNames == {"a", "b", "./b"}
MCFiles == {"A", "B"}
MCTarget == [n \in MCNames |-> IF n = "a" THEN "A" ELSE "B"]
MCHashes == {"h1", "h2"}

\* Every list of at most two entries, and one of each shape of three.
MCLists ==
    BoundedSeq([name : MCNames, hash : MCHashes], 2)
        \cup {<<[name |-> "a", hash |-> g], [name |-> "b", hash |-> h], [name |-> x, hash |-> "h1"]>> :
                 g \in MCHashes, h \in MCHashes, x \in MCNames}
MCContents == [MCFiles -> {"h1", "unreadable"}]
=============================================================================
