--------------------------- MODULE MCPathResolve ---------------------------
(***************************************************************************)
(* Instances of PathResolve for TLC.  The names p and q are those of the   *)
(* folder and also of subfolders in it; "H:" is a drive, "a:q" a Unix file *)
(* name that looks like one, and "q\x" one with a backslash.               *)
(***************************************************************************)
EXTENDS PathResolve

MCFolders == {<<>>, <<"p">>, <<"q">>, <<"q", "p">>, <<"p", "q">>, <<"p", "p">>, <<"q\\x">>}
MCCwds == {<<>>, <<"p">>, <<"q">>, <<"q", "p">>}

Rel(parts) == [rooted |-> FALSE, parts |-> parts]
Abs(parts) == [rooted |-> TRUE, parts |-> parts]
MCDirArgs ==
    {Rel(<<"..">>), Rel(<<"..", "p">>), Rel(<<"H:">>), Rel(<<"H:", "p">>), Rel(<<"H:", "p", "q">>)}
        \cup {Rel(d) : d \in MCFolders} \cup {Abs(d) : d \in MCFolders}

MCFiles == {<<"x">>, <<"p", "x">>, <<"q", "x">>, <<"p", "q", "x">>, <<"a:q">>, <<"q\\x">>}
MCTrees == {t \in SUBSET MCFiles : t # {} /\ \E f, g \in MCFiles : t = {f, g}}

MCNames == {"..", "p", "q", "x", "H:", "a:q", "q\\x"}
MCSplit == [c \in MCNames |-> IF c = "q\\x" THEN <<"q", "x">> ELSE <<c>>]
MCUndrive == [c \in {"H:", "a:q"} |-> IF c = "H:" THEN <<>> ELSE <<"q">>]
=============================================================================
