------------------------------ MODULE ListFile ------------------------------
(***************************************************************************)
(* The checksum list, the one file the program keeps between two runs, and *)
(* how its readers cut it into entries (src/main.go:98-119, 233-258).      *)
(*                                                                         *)
(* A list is a sequence of UNITS.  A unit is a piece of the line of one    *)
(* file that no two tears of interest fall into: a line cut anywhere       *)
(* inside a unit reads the same as one cut at the unit's end.              *)
(*                                                                         *)
(*    text    da39...  TAB /dir/file  .txt  NL                             *)
(*    JSONL   {"hash":"da39...", "path":"/dir/file  .txt"}  NL             *)
(*            -- hash --  ------ name ------------  rest    nl             *)
(*                                                                         *)
(* The text and the JSONL format hold the same units and differ in what    *)
(* their readers make of a line that is not whole.                         *)
(***************************************************************************)
EXTENDS Naturals, Sequences, FiniteSets

CONSTANTS
    Paths,      \* the files of the scanned folder; the order of numbers is WalkDir's
    NoPath,     \* stands for any text that spells no file, or no file's hash
    Short,      \* Short[p]: the file spelled by p's name when its end is torn off
    JsonOut     \* the -json flag

ASSUME PathsAssumption == Paths \subseteq Nat /\ IsFiniteSet(Paths)
ASSUME NoPathAssumption == NoPath \notin Paths
ASSUME ShortAssumption == Short \in [Paths -> Paths \cup {NoPath}]
ASSUME JsonOutAssumption == JsonOut \in BOOLEAN

Part == {"hash", "name", "rest", "nl"}
Unit == [path : Paths, part : Part]

U(p, x) == [path |-> p, part |-> x]

\* What a worker writes for the file p (main.go:171-176).
Line(p) == <<U(p, "hash"), U(p, "name"), U(p, "rest"), U(p, "nl")>>

LineLen == 4

-----------------------------------------------------------------------------
(* bufio.Scanner with its default split function: the raw lines of a list. *)

\* Where a line starts: at the head of the list or after a newline, unless
\* the line is empty.
LineStarts(s) ==
    {i \in 1 .. Len(s) : s[i].part # "nl" /\ (i = 1 \/ s[i - 1].part = "nl")}

\* Where the line that starts at i ends: before the next newline, or with the
\* list, whose last line needs none.
LineEnd(s, i) ==
    CHOOSE j \in i .. Len(s) :
        /\ \A k \in i .. j : s[k].part # "nl"
        /\ j = Len(s) \/ s[j + 1].part = "nl"

\* Whether the list is empty or ends in a newline: the next line appended to
\* it will be a line of its own.
EndsInNewline(s) == s # <<>> => s[Len(s)].part = "nl"

\* The first n units of a list, or all it has.
Upto(s, n) == SubSeq(s, 1, IF n < Len(s) THEN n ELSE Len(s))

-----------------------------------------------------------------------------
(* What the readers make of one raw line.                                  *)

\* The file whose name the text after a line's first tab spells.
Spelled(t) ==
    IF \E p \in Paths : t = <<U(p, "name"), U(p, "rest")>> THEN t[1].path
    ELSE IF \E p \in Paths : t = <<U(p, "name")>> THEN Short[t[1].path]
    ELSE NoPath

\* The file whose hash the text before a line's first tab is.
HashColumn(t) == IF \E p \in Paths : t = <<U(p, "hash")>> THEN t[1].path ELSE NoPath

\* strings.SplitN(line, "\t", 2): the first tab is where the first name
\* starts, and a line without one is skipped.
TextEntry(raw) ==
    {[path |-> Spelled(SubSeq(raw, k, Len(raw))), hash |-> HashColumn(SubSeq(raw, 1, k - 1))] :
        k \in {n \in 1 .. Len(raw) : /\ raw[n].part = "name"
                                     /\ \A m \in 1 .. n - 1 : raw[m].part # "name"}}

\* json.Unmarshal: one whole object, or the line is skipped.
JsonEntry(raw) ==
    {[path |-> p, hash |-> p] :
        p \in {q \in Paths : raw = <<U(q, "hash"), U(q, "name"), U(q, "rest")>>}}

LineEntryTextOnly(raw) == TextEntry(raw)            \* mutant: the reader forgets -json

LineEntry(raw) == IF JsonOut THEN JsonEntry(raw) ELSE TextEntry(raw)

\* The entries of a list, each with the place its line starts at: path is the
\* file its path column names, hash the file its hash column belongs to.
\* (Binding the list and each line to a variable makes TLC compute it once.)
Entries(list) ==
    UNION {{[at |-> r[1], path |-> e.path, hash |-> e.hash] :
               e \in LineEntry(SubSeq(r[3], r[1], r[2]))} :
           r \in UNION {{<<i, LineEnd(s, i), s>> : i \in LineStarts(s)} : s \in {list}}}

\* The files a list has an entry for: the map "processed" of main.go:89.
Listed(s) == {e.path : e \in Entries(s)} \ {NoPath}

\* The files a list gives their own hash.
Recorded(s) == {e.path : e \in {f \in Entries(s) : f.path = f.hash}} \ {NoPath}
=============================================================================
