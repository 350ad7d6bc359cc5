---------------------------- MODULE PathResolve ----------------------------
(***************************************************************************)
(* Where -verify looks for the files a list names (src/main.go:243-309).   *)
(*                                                                         *)
(* A folder is scanned with one -dir argument and verified with another,   *)
(* perhaps on another machine.  The list holds each file's path as the     *)
(* walk spelled it; verify turns it into a path of its own machine.        *)
(***************************************************************************)
EXTENDS Naturals, Sequences, SequencesExt

CONSTANTS
    Names,          \* the names of files and folders, and ".."
    Folders,        \* the places a folder may be at: absolute paths, as sequences of names
    Cwds,           \* the working directories
    DirArgs,        \* the -dir arguments, cleaned: "." is the empty relative path
    Trees,          \* the contents a folder may have: sets of relative paths
    Split,          \* Split[c]: the names that c falls into at its backslashes
    Undrive         \* Undrive[c]: what is left of a name c that looks like a drive, "a:b"

\* A walk never meets "..", and lists the folder itself under no name.
ASSUME PathAssumption ==
    /\ Cwds \subseteq Seq(Names)
    /\ DirArgs \subseteq [rooted : BOOLEAN, parts : Seq(Names)]
    /\ \A t \in Trees : t \subseteq Seq(Names \ {".."}) \ {<<>>}
    /\ Split \in [Names -> Seq(Names)]
    /\ DOMAIN Undrive \subseteq Names /\ Undrive \in [DOMAIN Undrive -> Seq(Names)]

VARIABLES
    stage,          \* "scanned", "listed", "moved", "resolved"
    cwd, dir,       \* the working directory and the -dir argument, of the scan or of verify
    tree,           \* the files of the folder
    home,           \* where the folder was when it was scanned
    listed,         \* the path the list holds for each file
    actual          \* the path verify hashes for it

vars == <<stage, cwd, dir, tree, home, listed, actual>>

-----------------------------------------------------------------------------
(* The path functions of filepath and strings.                             *)

\* filepath.Join of an absolute path and the parts of another, cleaned.
Join(base, parts) ==
    LET joined[n \in 0 .. Len(parts)] ==
            IF n = 0 THEN base
            ELSE IF parts[n] # ".." THEN Append(joined[n - 1], parts[n])
            ELSE IF joined[n - 1] = <<>> THEN <<>> ELSE Front(joined[n - 1])
    IN joined[Len(parts)]

\* filepath.Abs(dir), cleaned (main.go:265-270).
AbsDir(wd, d) == IF d.rooted THEN d.parts ELSE Join(wd, d.parts)

\* How WalkDir(dir) spells the file f of the folder (main.go:143-151).
Spelling(d, f) == [rooted |-> d.rooted, parts |-> d.parts \o f]

\* strings.ReplaceAll(path, "\\", "/") (main.go:246, 254): a Unix file name
\* with a backslash falls apart.
Normalized(p) == [p EXCEPT !.parts = FlattenSeq([i \in DOMAIN @ |-> Split[@[i]]])]

\* Whether a path starts with a letter and a colon (main.go:275).
IsDrivePath(p) == ~p.rooted /\ p.parts # <<>> /\ p.parts[1] \in DOMAIN Undrive

\* path[2:], without one leading separator (main.go:280-283).
WithoutDrive(parts) == Undrive[parts[1]] \o Tail(parts)

\* strings.TrimPrefix(path, dirBase+"/") (main.go:286-288, 300-302): one name,
\* and only if something follows it.
TrimNothing(absdir, parts) == parts                 \* mutant: no trimming
TrimAnywhere(absdir, parts) ==                      \* mutant: the name is removed wherever it is
    IF absdir # <<>> /\ \E i \in 1 .. Len(parts) - 1 : parts[i] = Last(absdir)
    THEN RemoveAt(parts, SelectInSeq(parts, LAMBDA c : c = Last(absdir))) ELSE parts

TrimBase(absdir, parts) ==
    IF absdir # <<>> /\ Len(parts) > 1 /\ parts[1] = Last(absdir) THEN Tail(parts) ELSE parts

\* Where the folder is that a scan lists: a scan on Windows is given a drive.
ScannedDir(wd, d) == IF IsDrivePath(d) THEN WithoutDrive(d.parts) ELSE AbsDir(wd, d)

ResolveInside(absdir, path) ==                      \* mutant: a rooted path is joined too
    Join(absdir, TrimBase(absdir, Normalized(path).parts))
ResolveFlat(absdir, path) ==                        \* mutant: filepath.Base of the path
    Join(absdir, <<Last(Normalized(path).parts)>>)

\* The loop body of main.go:272-306.
Resolve(absdir, path) ==
    LET p == Normalized(path) IN
    IF IsDrivePath(p) THEN Join(absdir, TrimBase(absdir, WithoutDrive(p.parts)))
    ELSE IF p.rooted THEN p.parts
    ELSE Join(absdir, TrimBase(absdir, p.parts))

-----------------------------------------------------------------------------
Init ==
    /\ stage = "scanned"
    /\ cwd \in Cwds /\ dir \in DirArgs /\ tree \in Trees
    /\ home = ScannedDir(cwd, dir) /\ home \in Folders
    /\ listed = <<>> /\ actual = <<>>

\* generateChecksums writes the paths of the walk.
Generate ==
    /\ stage = "scanned" /\ stage' = "listed"
    /\ listed' = [f \in tree |-> Spelling(dir, f)]
    /\ UNCHANGED <<cwd, dir, tree, home, actual>>

\* The folder and its list are used elsewhere, or from another directory, or
\* are named otherwise.  The environment's step.
Move ==
    /\ stage = "listed" /\ stage' = "moved"
    /\ cwd' \in Cwds /\ dir' \in DirArgs /\ ~IsDrivePath(dir')
    /\ AbsDir(cwd', dir') \in Folders
    /\ UNCHANGED <<tree, home, listed, actual>>

\* verifyChecksums resolves the paths of the list, on a Unix system.
Verify ==
    /\ stage \in {"listed", "moved"} /\ stage' = "resolved" /\ ~IsDrivePath(dir)
    /\ actual' = [f \in tree |-> Resolve(AbsDir(cwd, dir), listed[f])]
    /\ UNCHANGED <<cwd, dir, tree, home, listed>>

Done == stage = "resolved" /\ UNCHANGED vars

Next == Generate \/ Move \/ Verify \/ Done
Spec == Init /\ [][Next]_vars

-----------------------------------------------------------------------------
(* Properties.                                                             *)

Here == AbsDir(cwd, dir)

\* Verify looks for the file f where it is.
Found(f) == actual[f] = Here \o f

\* Names that the reader takes for what they are.
Unsplit(parts) == \A i \in DOMAIN parts : Split[parts[i]] = <<parts[i]>>
Plain(f) == Unsplit(f) /\ \A i \in DOMAIN f : f[i] \notin DOMAIN Undrive

\* The folder was listed by an absolute -dir: the files are found exactly if
\* the folder is where it was.
AbsoluteFound ==
    stage = "resolved" =>
        \A f \in tree :
            listed[f].rooted /\ Unsplit(listed[f].parts) => (Found(f) <=> Here = home)

\* The parts a listed path has before those of the file, and what the reader
\* leaves of the parts of a path.
Given(f) == SubSeq(listed[f].parts, 1, Len(listed[f].parts) - Len(f))
Bare(path) ==
    LET p == Normalized(path) IN IF IsDrivePath(p) THEN WithoutDrive(p.parts) ELSE p.parts

\* The folder was listed with -dir . : wherever it is moved, the files are
\* found, except those in a subfolder that has the name the folder has now.
DotFound ==
    stage = "resolved" =>
        \A f \in tree :
            Plain(f) /\ ~listed[f].rooted /\ Given(f) = <<>> =>
                (Found(f) <=> ~(Len(f) > 1 /\ Here # <<>> /\ f[1] = Last(Here)))

\* The folder was listed by its name, or by drive and name: the files are
\* found wherever it is moved, exactly if it keeps the name.
NameFound ==
    stage = "resolved" =>
        \A f \in tree :
            /\ Plain(f) /\ Unsplit(Given(f)) /\ ~listed[f].rooted
            /\ \/ Len(Given(f)) = 1 /\ Given(f)[1] \notin DOMAIN Undrive
               \/ Len(Given(f)) = 2 /\ Given(f)[1] \in DOMAIN Undrive /\ Undrive[Given(f)[1]] = <<>>
            /\ Last(Given(f)) # ".."
            => (Found(f) <=> Here # <<>> /\ Last(Given(f)) = Last(Here))

\* No file is judged by another's hash: two files of a folder of plain names
\* resolve to two paths, unless the list names them by nothing but their path
\* in the folder (listed with -dir . or as a drive) and one is in a subfolder
\* with the name the folder has now.
FilesApart ==
    stage = "resolved" =>
        \A f, g \in tree :
            /\ Plain(f) /\ Plain(g) /\ actual[f] = actual[g]
            /\ ~(/\ ~listed[f].rooted /\ Bare([listed[f] EXCEPT !.parts = Given(f)]) = <<>>
                 /\ Here # <<>> /\ Last(Here) \in {f[1], g[1]})
            => f = g

\* README.md:46-51: "Each line in hashes.txt may contain absolute paths from a
\* different system.  During verification the program removes any common
\* directory prefix from the paths in the list and joins the remainder with
\* the directory provided via -dir."
\* So the files of a folder listed by an absolute -dir are found after a move
\* (names with a backslash, which break without one, left aside).
AbsolutePathsMove ==
    stage = "resolved" =>
        \A f \in tree :
            Plain(f) /\ listed[f].rooted /\ Unsplit(listed[f].parts) => Found(f)

\* A -dir argument that goes down from the working directory by plain names.
GoesDown(d) ==
    /\ ~d.rooted /\ d.parts # <<>> /\ Unsplit(d.parts)
    /\ \A i \in DOMAIN d.parts : d.parts[i] # ".."

\* The same lines of the README, for a folder that was not even moved: verify
\* with the command line of the scan finds the files.
SameCommandFinds ==
    [][stage = "listed" /\ stage' = "resolved" /\ GoesDown(dir) =>
           \A f \in tree : Plain(f) => Found(f)']_vars
=============================================================================
