------------------------------- MODULE Verify -------------------------------
(***************************************************************************)
(* verifyChecksums (src/main.go:225-400) once the list is read: the map of *)
(* the hashes it expects, and the goroutines of one run of -verify with    *)
(* the channels between them.                                              *)
(*                                                                         *)
(*   main --jobs--> workers --results--> collector --done--> main          *)
(*                     `--wg--> closer --close(results)--^                 *)
(*                                                                         *)
(* jobs and done are unbuffered, results holds one result per worker.  The *)
(* counters match and mismatch are plain integers of the collector that    *)
(* main reads at the end.                                                  *)
(***************************************************************************)
EXTENDS Naturals, Sequences, FiniteSets

CONSTANTS
    Names,          \* the paths a list may hold
    Files,          \* the actual paths they resolve to
    Target,         \* the file a listed path resolves to
    Hashes,         \* the hashes a list may hold
    Unreadable,     \* stands for the error hashFile returns instead of a hash
    Workers,        \* the goroutines of the pool
    Lists,          \* the lists to verify: sequences of entries
    Contents        \* what the files may hash to

Entry == [name : Names, hash : Hashes]

ASSUME TargetAssumption == Target \in [Names -> Files]
ASSUME UnreadableAssumption == Unreadable \notin Hashes
ASSUME WorkersAssumption == IsFiniteSet(Workers) /\ Workers # {}
ASSUME ListsAssumption == Lists \subseteq Seq(Entry)
ASSUME ContentsAssumption == Contents \subseteq [Files -> Hashes \cup {Unreadable}]

VARIABLES
    verbose,        \* the -verbose flag
    list,           \* the entries read from the list
    content,        \* what hashFile returns for each file
    expected,       \* the map of the hashes: a function on the files it has
    prepared,       \* the length of pathsToProcess
    phase,          \* where the main goroutine is
    sent,           \* how many of pathsToProcess it has sent
    pc,             \* where each worker is
    job,            \* the place in pathsToProcess of the path it works on
    results,        \* the channel results
    closed,         \* whether results is closed
    collector,      \* where the collector is
    match, mismatch,
    processedCount,
    report,         \* what the run printed at its end
    \* history, read by no action of the program
    counted,        \* the entries the collector has counted
    printed         \* the number of lines printed about each entry

input == <<verbose, list, content>>
maps == <<expected, prepared>>
workers == <<pc, job>>
tally == <<match, mismatch, counted>>
vars == <<input, maps, phase, sent, workers, results, closed, collector,
          tally, processedCount, report, printed>>

Places == 1 .. Len(list)
PCs == {"recv", "hash", "put", "count", "exit"}
Phases == {"prepare", "send", "wait", "rendezvous", "report", "done"}

-----------------------------------------------------------------------------
(* The hash and the paths, one entry after the other: main.go:261, 272-309. *)

File(i) == Target[list[i].name]

\* expected[actualPath] = e.hash
RecordFirst(i) ==                                  \* mutant: the first entry of a file wins
    [f \in DOMAIN expected \cup {File(i)} |->
        IF f \in DOMAIN expected THEN expected[f] ELSE list[i].hash]
Record(i) ==
    [f \in DOMAIN expected \cup {File(i)} |->
        IF f = File(i) THEN list[i].hash ELSE expected[f]]

Prepare ==
    /\ phase = "prepare" /\ prepared < Len(list)
    /\ expected' = Record(prepared + 1)
    /\ prepared' = prepared + 1
    /\ UNCHANGED <<input, phase, sent, workers, results, closed, collector,
                   tally, processedCount, report, printed>>

\* The pool is started.
Start ==
    /\ phase = "prepare" /\ prepared = Len(list)
    /\ phase' = "send"
    /\ UNCHANGED <<input, maps, sent, workers, results, closed, collector,
                   tally, processedCount, report, printed>>

\* What a worker makes of a path it received (331-342).
Judge(i) ==
    LET f == File(i) IN
    IF content[f] = Unreadable THEN "ERROR"
    ELSE IF f \notin DOMAIN expected \/ expected[f] # content[f] THEN "MISMATCH" ELSE "OK"

Init ==
    /\ verbose \in BOOLEAN /\ list \in Lists /\ content \in Contents
    /\ expected = <<>> /\ prepared = 0
    /\ phase = "prepare" /\ sent = 0
    /\ pc = [w \in Workers |-> "recv"] /\ job = [w \in Workers |-> 0]
    /\ results = <<>> /\ closed = FALSE
    /\ collector = "range" /\ match = 0 /\ mismatch = 0 /\ counted = {}
    /\ processedCount = 0 /\ report = {}
    /\ printed = [i \in Places |-> 0]

-----------------------------------------------------------------------------
(* A worker: main.go:328-346.                                              *)

Goto(w, l) == pc' = [pc EXCEPT ![w] = l]

\* Each worker has a variable path of its own (330).
HandedToAll(w, i) == [v \in Workers |-> i]         \* mutant: they share one
Handed(w, i) == [job EXCEPT ![w] = i]

\* jobs <- p and range jobs meet: the channel is unbuffered (378-380, 330).
Take(w) ==
    /\ phase = "send" /\ pc[w] = "recv" /\ sent < Len(list)
    /\ sent' = sent + 1
    /\ job' = Handed(w, sent + 1)
    /\ Goto(w, "hash")
    /\ UNCHANGED <<input, maps, phase, results, closed, collector, tally,
                   processedCount, report, printed>>

\* An error is printed at once by the worker (336).
Hash(w) ==
    /\ pc[w] = "hash"
    /\ printed' = IF Judge(job[w]) = "ERROR"
                  THEN [printed EXCEPT ![job[w]] = @ + 1] ELSE printed
    /\ Goto(w, "put")
    /\ UNCHANGED <<input, maps, phase, sent, job, results, closed, collector, tally,
                   processedCount, report>>

\* results := make(chan result, workers)
Capacity == Cardinality(Workers)
HasRoomForOneMore == Len(results) <= Capacity      \* mutant: off by one
HasRoom == Len(results) < Capacity

Put(w) ==
    /\ pc[w] = "put" /\ HasRoom
    /\ results' = Append(results, [at |-> job[w], status |-> Judge(job[w])])
    /\ Goto(w, "count")
    /\ UNCHANGED <<input, maps, phase, sent, job, closed, collector, tally,
                   processedCount, report, printed>>

Count(w) ==
    /\ pc[w] = "count"
    /\ processedCount' = processedCount + 1
    /\ job' = [job EXCEPT ![w] = 0]
    /\ Goto(w, "recv")
    /\ UNCHANGED <<input, maps, phase, sent, results, closed, collector, tally,
                   report, printed>>

\* jobs is closed and drained: wg.Done().
Exit(w) ==
    /\ phase \notin {"prepare", "send"} /\ pc[w] = "recv"
    /\ Goto(w, "exit")
    /\ UNCHANGED <<input, maps, phase, sent, job, results, closed, collector, tally,
                   processedCount, report, printed>>

AllExited == \A w \in Workers : pc[w] = "exit"

-----------------------------------------------------------------------------
(* The closer and the collector: main.go:349-366.                          *)

\* wg.Wait() returned in the closer.
CloserWokenEarly == phase = "wait"                 \* mutant: close(results) after close(jobs)
CloserWoken == AllExited

CloseResults ==
    /\ ~closed /\ CloserWoken
    /\ closed' = TRUE
    /\ UNCHANGED <<input, maps, phase, sent, workers, results, collector, tally,
                   processedCount, report, printed>>

\* Whether the collector prints a line about a result (356).  The code's
\* third case, an "OK" that is not ok, does not occur.
PrintsBad(status) == verbose \/ status # "OK"      \* mutant: an error has two lines
Prints(status) == verbose \/ status = "MISMATCH"

Collect ==
    /\ collector = "range" /\ results # <<>>
    /\ results' = Tail(results)
    /\ LET r == Head(results) IN
        /\ IF r.status = "OK" THEN match' = match + 1 /\ UNCHANGED mismatch
                              ELSE mismatch' = mismatch + 1 /\ UNCHANGED match
        /\ counted' = counted \cup {r.at}
        /\ printed' = IF Prints(r.status) THEN [printed EXCEPT ![r.at] = @ + 1] ELSE printed
    /\ UNCHANGED <<input, maps, phase, sent, workers, closed, collector,
                   processedCount, report>>

\* range results ends when the channel is closed and empty.
Drained == closed /\ results = <<>>

CollectorEnds ==
    /\ collector = "range" /\ Drained
    /\ collector' = "done"
    /\ UNCHANGED <<input, maps, phase, sent, workers, results, closed, tally,
                   processedCount, report, printed>>

-----------------------------------------------------------------------------
(* The main goroutine, from its loop on: main.go:378-399.                  *)

CloseJobs ==
    /\ phase = "send" /\ sent = Len(list)
    /\ phase' = "wait"
    /\ UNCHANGED <<input, maps, sent, workers, results, closed, collector, tally,
                   processedCount, report, printed>>

WaitReturnsAtOnce ==                               \* mutant: no wg.Wait() in main
    /\ phase = "wait"
    /\ phase' = "rendezvous"
    /\ UNCHANGED <<input, maps, sent, workers, results, closed, collector, tally,
                   processedCount, report, printed>>

WaitReturns ==
    /\ phase = "wait" /\ AllExited
    /\ phase' = "rendezvous"
    /\ UNCHANGED <<input, maps, sent, workers, results, closed, collector, tally,
                   processedCount, report, printed>>

\* done <- struct{}{} comes after the collector's loop.
DoneSentFirst == collector \in {"range", "done"}   \* mutant: done <- before the loop
DoneSent == collector = "done"

\* done <- struct{}{} and <-done meet.
Rendezvous ==
    /\ phase = "rendezvous" /\ DoneSent
    /\ phase' = "report" /\ collector' = "exit"
    /\ UNCHANGED <<input, maps, sent, workers, results, closed, tally,
                   processedCount, report, printed>>

\* The totals, and whether every file is said to match; with -verbose the
\* message is left out, and the totals say the same.
Report ==
    /\ phase = "report"
    /\ phase' = "done"
    /\ report' = {[total |-> Len(list), match |-> match, mismatch |-> mismatch,
                   allMatch |-> mismatch = 0]}
    /\ UNCHANGED <<input, maps, sent, workers, results, closed, collector, tally,
                   processedCount, printed>>

Worker(w) == Take(w) \/ Hash(w) \/ Put(w) \/ Count(w) \/ Exit(w)
Collector == Collect \/ CollectorEnds
Main == Prepare \/ Start \/ CloseJobs \/ WaitReturns \/ Rendezvous \/ Report
Done == phase = "done" /\ UNCHANGED vars

Next == (\E w \in Workers : Worker(w)) \/ CloseResults \/ Collector \/ Main \/ Done

\* The Go scheduler runs every goroutine that can run; reading a regular file
\* ends.  The scheduler may favour one worker over another at the channel
\* results, but each worker's loop is as long as the list, so none is kept
\* out for ever.
Fairness ==
    /\ \A w \in Workers : WF_vars(Worker(w))
    /\ WF_vars(CloseResults) /\ WF_vars(Collector) /\ WF_vars(Main)

Spec == Init /\ [][Next]_vars
FairSpec == Spec /\ Fairness

-----------------------------------------------------------------------------
(* Properties.                                                             *)

\* What a list says of its entries, whatever the program makes of it: of
\* several entries of a file the last counts, as appended to the list last.
LastHash(f) ==
    list[CHOOSE i \in Places : /\ File(i) = f
                               /\ \A j \in Places : File(j) = f => j <= i].hash

Status ==
    [i \in Places |-> IF content[File(i)] = Unreadable THEN "ERROR"
                      ELSE IF LastHash(File(i)) # content[File(i)] THEN "MISMATCH" ELSE "OK"]

Right == {i \in Places : Status[i] = "OK"}
Wrong == Places \ Right

Result == [at : Places, status : {"OK", "MISMATCH", "ERROR"}]

InputTypes ==
    /\ verbose \in BOOLEAN
    /\ list \in Seq(Entry)
    /\ content \in [Files -> Hashes \cup {Unreadable}]

MapTypes ==
    /\ prepared \in 0 .. Len(list)
    /\ expected \in [{File(i) : i \in 1 .. prepared} -> Hashes]

PoolTypes ==
    /\ phase \in Phases /\ sent \in 0 .. Len(list)
    /\ pc \in [Workers -> PCs] /\ job \in [Workers -> 0 .. sent]
    /\ \A w \in Workers : pc[w] \in {"hash", "put", "count"} => job[w] # 0

ChannelTypes ==
    /\ results \in Seq(Result) /\ Len(results) <= Capacity
    /\ closed \in BOOLEAN
    /\ collector \in {"range", "done", "exit"}

TallyTypes ==
    /\ match \in Nat /\ mismatch \in Nat /\ processedCount \in Nat
    /\ counted \in SUBSET Places
    /\ printed \in [Places -> Nat]

TypeOK == InputTypes /\ MapTypes /\ PoolTypes /\ ChannelTypes /\ TallyTypes

\* The places of the entries that are past the main goroutine and not yet
\* counted: in a worker's hands, or waiting in the channel.
Holders == {w \in Workers : pc[w] \in {"hash", "put", "count"}}
InHand == {job[w] : w \in {v \in Holders : pc[v] # "count"}}
InChannel == {results[k].at : k \in 1 .. Len(results)}

\* A send on a closed channel panics: once results is closed no worker is
\* left that could send, nor will there be one.
NoSendOnClosed == closed => AllExited

\* No verdict is lost, made up or counted twice, however the workers overtake
\* each other: every entry sent is in exactly one place, with the status that
\* is its own, and the counters add up to the entries counted.
VerdictsConserved ==
    /\ 1 .. sent = InHand \cup InChannel \cup counted
    /\ InHand \cap (InChannel \cup counted) = {} /\ InChannel \cap counted = {}
    /\ \A v, w \in Holders : job[v] = job[w] => v = w
    /\ \A j, k \in 1 .. Len(results) : results[j].at = results[k].at => j = k
    /\ \A k \in 1 .. Len(results) : results[k].status = Status[results[k].at]
    /\ match = Cardinality(counted \cap Right)
    /\ mismatch = Cardinality(counted \ Right)

\* The counters of the collector and main's reads of them do not race: when
\* main is past <-done the collector has stopped, the channel is empty and
\* every entry is counted.
ReadAfterCount ==
    phase \in {"report", "done"} =>
        collector = "exit" /\ results = <<>> /\ counted = Places

\* The last progress line (main.go:385) shows as many as there are entries.
FinalProgress ==
    phase \in {"rendezvous", "report", "done"} => processedCount = Len(list)

\* README.md:53-54: without -verbose a run prints one line about each entry
\* that does not match, and none about the others; with it, one about each,
\* and one more about each error.
LinesPrinted ==
    phase = "done" =>
        \A i \in Places : printed[i] =
            IF verbose THEN (IF Status[i] = "ERROR" THEN 2 ELSE 1)
            ELSE (IF Status[i] = "OK" THEN 0 ELSE 1)

\* A run of -verify is an audit of the list: seen through what is counted and
\* reported it judges every entry once, for what it is, and reports at the end.
Implements == INSTANCE Audit WITH
    Size <- Cardinality, right <- Right, wrong <- Wrong, judged <- counted
AuditSpec == Implements!Spec
=============================================================================
