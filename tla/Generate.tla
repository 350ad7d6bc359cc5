------------------------------ MODULE Generate ------------------------------
(***************************************************************************)
(* generateChecksums (src/main.go:87-223) with -list: successive runs of   *)
(* the program over one folder and one list file.                          *)
(*                                                                         *)
(* One run reads the list, walks the folder, hands the files that have no  *)
(* entry to a pool of workers over an unbuffered channel, and the workers  *)
(* append one line per file through one buffered writer under a mutex.     *)
(* Between any two steps the process may be killed or the machine lose     *)
(* power; the next run resumes from the list that is left.                 *)
(***************************************************************************)
EXTENDS ListFile

CONSTANTS
    Workers,        \* the goroutines of the pool, runtime.NumCPU() of them
    NoWorker,       \* the owner of a mutex nobody holds
    FlushInterval,  \* const flushInterval, 100 in the code
    BufCap,         \* the capacity of the bufio.Writer, in units
    Walks,          \* the sets of files a walk may find
    Faulty,         \* the files whose hashing may fail
    Endless,        \* the files whose hashing never ends (a FIFO nobody writes to)
    DiskMayFill,    \* whether a write to the list may fail
    MayBeKilled,    \* whether the process may be killed
    MayLosePower,   \* whether the machine may lose power
    MaxRuns         \* bound on the number of runs

ASSUME WorkersAssumption == IsFiniteSet(Workers) /\ Workers # {} /\ NoWorker \notin Workers
ASSUME FlushIntervalAssumption == FlushInterval \in Nat \ {0}
ASSUME BufCapAssumption == BufCap \in Nat /\ BufCap >= LineLen
ASSUME WalksAssumption == Walks \subseteq SUBSET Paths
ASSUME FilesAssumption == Faulty \subseteq Paths /\ Endless \subseteq Paths
ASSUME FlagsAssumption ==
    DiskMayFill \in BOOLEAN /\ MayBeKilled \in BOOLEAN /\ MayLosePower \in BOOLEAN
ASSUME MaxRunsAssumption == MaxRuns \in Nat

VARIABLES
    \* the machine
    disk,           \* the list file as the kernel has it
    synced,         \* how many of its units are on the medium
    \* the process
    phase,          \* where the main goroutine is, or how the last run ended
    paths,          \* the files this run has to hash
    todo,           \* those not sent to the jobs channel yet
    pc,             \* where each worker is
    job,            \* the file it works on
    mu,             \* the owner of the mutex mu
    buf,            \* what the bufio.Writer has accepted and not written
    werr,           \* the bufio.Writer's sticky error
    lineCount,
    processedCount,
    \* history, read by no action of the program
    runs,           \* how many runs were started
    walked,         \* the files the walk of this run found
    accepted,       \* the files whose line WriteString took in this run
    unsynced,       \* those among them accepted since the last file.Sync
    logged,         \* the files whose hashing failed in this run
    torn,           \* this run opened a list whose last line has no newline
    everTorn        \* some run did

machine == <<disk, synced>>
pool == <<paths, todo, pc, job>>
writer == <<mu, buf, werr, lineCount>>
history == <<runs, walked, torn, everTorn>>
vars == <<machine, phase, pool, writer, processedCount,
          history, accepted, unsynced, logged>>

Ended == {"new", "ok", "failed", "killed"}      \* no process is running
Running == {"send", "wait", "flush", "sync"}
PCs == {"recv", "hash", "lock", "spill", "flush", "sync", "count", "exit"}

\* The files the workers hold, and the workers inside the critical section.
Busy == {w \in Workers : pc[w] \notin {"recv", "exit"}}
Held == {job[w] : w \in Busy}
Critical == {w \in Workers : pc[w] \in {"spill", "flush", "sync"}}

Init ==
    /\ disk = <<>> /\ synced = 0
    /\ phase = "new"
    /\ paths = {} /\ todo = {}
    /\ pc = [w \in Workers |-> "exit"] /\ job = [w \in Workers |-> NoPath]
    /\ mu = NoWorker /\ buf = <<>> /\ werr = FALSE /\ lineCount = 0
    /\ processedCount = 0
    /\ runs = 0 /\ walked = {} /\ torn = FALSE /\ everTorn = FALSE
    /\ accepted = {} /\ unsynced = {} /\ logged = {}

-----------------------------------------------------------------------------
(* The start of a run: main.go:98-192.                                     *)

\* The files to hash: those the walk found and the list has no entry for.
PendingAll(found, list) == found                           \* mutant: no entry is skipped
PendingRoot(found, list) == {NoPath} \cup (found \ Listed(list)) \* mutant: !d.IsDir() dropped

Pending(found, list) == found \ Listed(list)

\* What the list holds once it is open for writing: all of it, since it is
\* opened with O_APPEND and without O_TRUNC.
OpenedTruncated(list) == <<>>                              \* mutant: O_TRUNC

Opened(list) == list

\* A new process: nothing is hashed, buffered or counted yet.
FreshProcess ==
    /\ job' = [w \in Workers |-> NoPath]
    /\ mu' = NoWorker /\ buf' = <<>> /\ werr' = FALSE /\ lineCount' = 0
    /\ processedCount' = 0
    /\ accepted' = {} /\ unsynced' = {} /\ logged' = {}

\* The list is read, opened for appending, the folder walked and the pool
\* started.
Start ==
    /\ phase \in Ended /\ runs < MaxRuns
    /\ disk' = Opened(disk) /\ UNCHANGED synced
    /\ \E found \in Walks :
        /\ walked' = found
        /\ paths' = Pending(found, disk)
        /\ todo' = paths'
    /\ phase' = "send"
    /\ pc' = [w \in Workers |-> "recv"]
    /\ FreshProcess
    /\ runs' = runs + 1
    /\ torn' = ~EndsInNewline(disk')
    /\ everTorn' = (everTorn \/ torn')

\* The run returns an error before anything is hashed.
Aborts ==
    /\ phase \in Ended /\ runs < MaxRuns
    /\ phase' = "failed"
    /\ runs' = runs + 1
    /\ paths' = {} /\ todo' = {} /\ walked' = {}
    /\ pc' = [w \in Workers |-> "exit"]
    /\ FreshProcess
    /\ UNCHANGED <<disk, torn, everTorn>>

\* OpenFile returned an error (main.go:122-124).
OpenFails == Aborts /\ UNCHANGED synced

\* WalkDir met an error anywhere in the folder (main.go:144-154): the
\* deferred function syncs and closes the list.
WalkFails == Aborts /\ synced' = Len(disk)

-----------------------------------------------------------------------------
(* A worker: main.go:165-190.                                              *)

Goto(w, l) == pc' = [pc EXCEPT ![w] = l]

\* Each worker has a variable path of its own (165).
HandedToAll(w, p) == [v \in Workers |-> p]                 \* mutant: they share one
Handed(w, p) == [job EXCEPT ![w] = p]

\* jobs <- p and range jobs meet: the channel is unbuffered (204-206, 165).
Send(w) ==
    /\ phase = "send" /\ pc[w] = "recv"
    /\ \E p \in todo :
        /\ \A q \in todo : p <= q
        /\ todo' = todo \ {p}
        /\ job' = Handed(w, p)
    /\ Goto(w, "hash")
    /\ UNCHANGED <<machine, phase, paths, writer, processedCount, history,
                   accepted, unsynced, logged>>

\* close(jobs) (207)
JobsNeverClosed == FALSE                                   \* mutant: no close(jobs)
JobsClosed == phase = "wait"

\* jobs is closed and drained: the range loop ends, wg.Done().
Exit(w) ==
    /\ JobsClosed /\ pc[w] = "recv"
    /\ Goto(w, "exit")
    /\ UNCHANGED <<machine, phase, paths, todo, job, writer, processedCount, history,
                   accepted, unsynced, logged>>

HashOk(w) ==
    /\ pc[w] = "hash" /\ job[w] \notin Endless
    /\ Goto(w, "lock")
    /\ UNCHANGED <<machine, phase, paths, todo, job, writer, processedCount, history,
                   accepted, unsynced, logged>>

HashErrorContinues(w) ==                                   \* mutant: continue after log.Printf
    /\ pc[w] = "hash" /\ job[w] \in Faulty
    /\ logged' = logged \cup {job[w]}
    /\ job' = [job EXCEPT ![w] = NoPath]
    /\ Goto(w, "recv")
    /\ UNCHANGED <<machine, phase, paths, todo, writer, processedCount, history,
                   accepted, unsynced>>

\* The error is logged, no line is written, and the file still counts.
HashError(w) ==
    /\ pc[w] = "hash" /\ job[w] \in Faulty
    /\ logged' = logged \cup {job[w]}
    /\ Goto(w, "count")
    /\ UNCHANGED <<machine, phase, paths, todo, job, writer, processedCount, history,
                   accepted, unsynced>>

-----------------------------------------------------------------------------
(* The critical section: main.go:177-187.  WriteString, Flush and their    *)
(* buffer are bufio's.                                                     *)

\* mu.Lock()
MayEnterAlways == TRUE                                     \* mutant: no mutex
MayEnterIdle == mu = NoWorker /\ \A w \in Workers : pc[w] # "hash" \* mutant: hashing under mu
MayEnter == mu = NoWorker

\* if lineCount%flushInterval == 0
FlushDueLate(n) == n % (FlushInterval + 1) = 0             \* mutant: off by one
FlushDue(n) == n % FlushInterval = 0

\* WriteString returned no error: count the line, and flush if it is time.
Accept(w) ==
    /\ lineCount' = lineCount + 1
    /\ accepted' = accepted \cup {job[w]}
    /\ unsynced' = unsynced \cup {job[w]}
    /\ IF FlushDue(lineCount')
       THEN mu' = w /\ Goto(w, "flush")
       ELSE mu' = NoWorker /\ Goto(w, "count")

\* mutant: hash is a variable all workers share (hash = instead of hash :=)
WriteFitsShared(w) ==
    /\ pc[w] = "lock" /\ MayEnter /\ ~werr
    /\ Len(buf) + LineLen <= BufCap
    /\ \E v \in Busy : buf' = buf \o <<U(job[v], "hash")>> \o Tail(Line(job[w]))
    /\ Accept(w)
    /\ UNCHANGED <<machine, phase, paths, todo, job, werr, processedCount, history,
                   logged>>

WriteFits(w) ==
    /\ pc[w] = "lock" /\ MayEnter /\ ~werr
    /\ Len(buf) + LineLen <= BufCap
    /\ buf' = buf \o Line(job[w])
    /\ Accept(w)
    /\ UNCHANGED <<machine, phase, paths, todo, job, werr, processedCount, history,
                   logged>>

\* The line overflows the buffer: bufio fills the buffer to its capacity,
\* flushes it, and keeps what is left of the line.  Until Spill, buf holds
\* all of the line.
WriteOverflows(w) ==
    /\ pc[w] = "lock" /\ MayEnter /\ ~werr
    /\ Len(buf) + LineLen > BufCap
    /\ buf' = buf \o Line(job[w])
    /\ mu' = w
    /\ Goto(w, "spill")
    /\ UNCHANGED <<machine, phase, paths, todo, job, werr, lineCount, processedCount,
                   history, accepted, unsynced, logged>>

Spill(w) ==
    /\ pc[w] = "spill"
    /\ disk' = disk \o SubSeq(buf, 1, BufCap)
    /\ buf' = SubSeq(buf, BufCap + 1, Len(buf))
    /\ Accept(w)
    /\ UNCHANGED <<synced, phase, paths, todo, job, werr, processedCount, history,
                   logged>>

\* A write(2) of the first n units took only k of them and failed: the others
\* stay in the buffer, what WriteString had yet to copy is forgotten, and the
\* writer refuses everything from now on.
WriteFails(k, n) ==
    /\ DiskMayFill
    /\ disk' = disk \o SubSeq(buf, 1, k)
    /\ buf' = SubSeq(buf, k + 1, n)
    /\ werr' = TRUE

SpillFails(w) ==
    /\ pc[w] = "spill"
    /\ \E k \in 0 .. BufCap - 1 : WriteFails(k, BufCap)
    /\ mu' = NoWorker
    /\ Goto(w, "count")
    /\ UNCHANGED <<synced, phase, paths, todo, job, lineCount, processedCount, history,
                   accepted, unsynced, logged>>

\* WriteString returns the sticky error; nobody looks at it.
WriteRefused(w) ==
    /\ pc[w] = "lock" /\ MayEnter /\ werr
    /\ Goto(w, "count")
    /\ UNCHANGED <<machine, phase, paths, todo, job, writer, processedCount, history,
                   accepted, unsynced, logged>>

Flush(w) ==
    /\ pc[w] = "flush"
    /\ disk' = disk \o buf /\ buf' = <<>>
    /\ Goto(w, "sync")
    /\ UNCHANGED <<synced, phase, paths, todo, job, mu, werr, lineCount, processedCount,
                   history, accepted, unsynced, logged>>

FlushFails(w) ==
    /\ pc[w] = "flush"
    /\ \E k \in 0 .. Len(buf) - 1 : WriteFails(k, Len(buf))
    /\ Goto(w, "sync")
    /\ UNCHANGED <<synced, phase, paths, todo, job, mu, lineCount, processedCount,
                   history, accepted, unsynced, logged>>

\* Everything the kernel has is on the medium now; what a failed write left
\* in the buffer is not.
SyncFile ==
    /\ synced' = Len(disk)
    /\ unsynced' = IF werr THEN unsynced ELSE {}

Sync(w) ==
    /\ pc[w] = "sync"
    /\ SyncFile
    /\ mu' = NoWorker
    /\ Goto(w, "count")
    /\ UNCHANGED <<disk, phase, paths, todo, job, buf, werr, lineCount, processedCount,
                   history, accepted, logged>>

\* atomic.AddInt64(&processedCount, 1)
Count(w) ==
    /\ pc[w] = "count"
    /\ processedCount' = processedCount + 1
    /\ job' = [job EXCEPT ![w] = NoPath]
    /\ Goto(w, "recv")
    /\ UNCHANGED <<machine, phase, paths, todo, writer, history,
                   accepted, unsynced, logged>>

-----------------------------------------------------------------------------
(* The main goroutine after its last send: main.go:207-222, and the        *)
(* deferred flush, sync and close, which find nothing left to do.          *)

CloseJobs ==
    /\ phase = "send" /\ todo = {}
    /\ phase' = "wait"
    /\ UNCHANGED <<machine, pool, writer, processedCount, history,
                   accepted, unsynced, logged>>

\* wg.Wait() returns when every worker has called wg.Done().
AllExited == \A w \in Workers : pc[w] = "exit"

WaitReturns ==
    /\ phase = "wait" /\ AllExited /\ mu = NoWorker
    /\ phase' = "flush"
    /\ UNCHANGED <<machine, pool, writer, processedCount, history,
                   accepted, unsynced, logged>>

FinalFlushMissing ==                                       \* mutant: no writer.Flush() at the end
    /\ phase = "flush"
    /\ phase' = "sync"
    /\ UNCHANGED <<machine, pool, writer, processedCount, history,
                   accepted, unsynced, logged>>

FinalFlush ==
    /\ phase = "flush"
    /\ phase' = "sync"
    /\ IF werr
       THEN UNCHANGED <<disk, buf, werr>>
       ELSE \/ disk' = disk \o buf /\ buf' = <<>> /\ UNCHANGED werr
            \/ \E k \in 0 .. Len(buf) - 1 : WriteFails(k, Len(buf))
    /\ UNCHANGED <<synced, pool, mu, lineCount, processedCount, history,
                   accepted, unsynced, logged>>

\* The run returns nil, whether or not the writer has failed.
FinalSync ==
    /\ phase = "sync"
    /\ SyncFile
    /\ phase' = "ok"
    /\ UNCHANGED <<disk, pool, writer, processedCount, history, accepted, logged>>

-----------------------------------------------------------------------------
(* The environment.                                                        *)

\* How much of the buffer a write(2) in progress may have handed over.
InFlight ==
    IF \E w \in Workers : pc[w] = "spill" THEN BufCap
    ELSE IF ~werr /\ (phase = "flush" \/ \E w \in Workers : pc[w] = "flush") THEN Len(buf)
    ELSE 0

\* The process is gone, and its memory with it.
Dies ==
    /\ phase' = "killed"
    /\ paths' = {} /\ todo' = {} /\ walked' = {}
    /\ pc' = [w \in Workers |-> "exit"]
    /\ FreshProcess
    /\ UNCHANGED <<runs, torn, everTorn>>

\* SIGKILL, SIGINT or a crash: the kernel keeps what it was given.
Kill ==
    /\ MayBeKilled /\ phase \in Running
    /\ \E k \in 0 .. InFlight : disk' = disk \o SubSeq(buf, 1, k)
    /\ UNCHANGED synced
    /\ Dies

\* Power fails: of what was not synced, any prefix made it to the medium.
PowerLoss ==
    /\ MayLosePower
    /\ phase \in Running \/ synced < Len(disk)
    /\ \E n \in synced .. Len(disk) : disk' = Upto(disk, n) /\ synced' = n
    /\ Dies

\* All runs are over: the only way the system stops.
Done ==
    /\ phase \in Ended /\ runs = MaxRuns
    /\ UNCHANGED vars

-----------------------------------------------------------------------------
Worker(w) ==
    \/ Send(w) \/ Exit(w) \/ HashOk(w) \/ HashError(w)
    \/ WriteFits(w) \/ WriteOverflows(w) \/ Spill(w) \/ SpillFails(w) \/ WriteRefused(w)
    \/ Flush(w) \/ FlushFails(w) \/ Sync(w) \/ Count(w)

Main == CloseJobs \/ WaitReturns \/ FinalFlush \/ FinalSync

Next ==
    \/ Start \/ OpenFails \/ WalkFails
    \/ \E w \in Workers : Worker(w)
    \/ Main
    \/ Kill \/ PowerLoss
    \/ Done

\* The Go scheduler runs every goroutine that can run.  Weak fairness is
\* enough for the mutex too: a run has finitely many lines to write, so the
\* others cannot take mu before a worker for ever.
Fairness ==
    /\ \A w \in Workers : WF_vars(Worker(w))
    /\ WF_vars(Main)

Spec == Init /\ [][Next]_vars
FairSpec == Spec /\ Fairness

-----------------------------------------------------------------------------
(* Properties.                                                             *)

FileTypes ==
    /\ disk \in Seq(Unit) /\ synced \in Nat
    /\ buf \in Seq(Unit)

PoolTypes ==
    /\ phase \in Ended \cup Running
    /\ paths \in SUBSET Paths /\ todo \in SUBSET paths
    /\ pc \in [Workers -> PCs]
    /\ job \in [Workers -> Paths \cup {NoPath}]
    /\ \A w \in Busy : job[w] \in paths

WriterTypes ==
    /\ mu \in Workers \cup {NoWorker}
    /\ werr \in BOOLEAN
    /\ lineCount \in Nat /\ processedCount \in Nat

HistoryTypes ==
    /\ accepted \in SUBSET paths /\ unsynced \in SUBSET accepted /\ logged \in SUBSET paths
    /\ runs \in Nat /\ walked \in SUBSET Paths
    /\ torn \in BOOLEAN /\ everTorn \in BOOLEAN

TypeOK == FileTypes /\ PoolTypes /\ WriterTypes /\ HistoryTypes

\* The files whose fate is open: a worker is hashing them, or has the line
\* and has not got it accepted.
Undecided == {job[w] : w \in {v \in Workers : pc[v] \in {"hash", "lock", "spill"}}}

\* Each file is handed to one worker, which writes one line or logs one
\* error, and no file is forgotten: at every moment a file of this run waits
\* for a worker, is in the hands of exactly one, has its line accepted, or
\* has its error logged; only a writer that has failed drops a line.
EachFileOnce ==
    /\ \A v, w \in Busy : job[v] = job[w] => v = w
    /\ todo \cap (Held \cup accepted \cup logged) = {}
    /\ Undecided \cap (accepted \cup logged) = {}
    /\ accepted \cap logged = {}
    /\ ~werr => paths = todo \cup Undecided \cup accepted \cup logged

\* Lines of two workers never mix: a worker that is spilling, flushing or
\* syncing owns mu, so nobody touches the buffer, the counter or the list
\* meanwhile; nobody is left when the main goroutine flushes; and the buffer
\* is over its capacity only while its owner is spilling it.
WriterExclusive ==
    /\ \A w \in Critical : mu = w
    /\ phase \in Ended \cup {"flush", "sync"} => AllExited
    /\ Len(buf) <= BufCap + LineLen
    /\ Len(buf) > BufCap <=> \E w \in Workers : pc[w] = "spill"

\* When wg.Wait() has returned the plain read of processedCount
\* (main.go:217) sees every file counted once, failed and dropped ones too.
FinalCount ==
    phase \in {"flush", "sync", "ok"} => processedCount = Cardinality(paths)

\* The periodic flush bounds what a crash can cost: whenever nobody is in
\* the critical section, fewer than FlushInterval accepted lines are not
\* whole on the medium, on a list that was whole when it was opened.
LossBound ==
    phase \in Running /\ mu = NoWorker /\ ~werr /\ ~torn =>
        Cardinality(accepted \ Recorded(Upto(disk, synced))) < FlushInterval

\* A run that ends without a write error, on a list that ended in a newline
\* when it was opened, has recorded every file it was to hash, except those
\* it logged an error for.
CleanRunCompletes ==
    phase = "ok" /\ ~werr /\ ~torn => paths \ logged \subseteq Recorded(disk)

\* The whole lines of a list: all but a last one without a newline.
Terminated(s) == Upto(s, CHOOSE n \in 0 .. Len(s) :
                            /\ n = 0 \/ s[n].part = "nl"
                            /\ \A m \in n + 1 .. Len(s) : s[m].part # "nl")

\* As long as no run has appended to a list that had lost its last newline,
\* every terminated entry gives a file of the folder its own hash.
EntriesTrue ==
    ~everTorn => \A e \in Entries(Terminated(disk)) : e.path \in Paths /\ e.hash = e.path

\* No file is listed twice, whatever was torn, glued, killed or resumed, with
\* one exception: a text list whose last line is torn inside its path, which
\* may spell a shorter path that has an entry already.  verify reads such a
\* line too (main.go:236-258), and checks that file a second time.
NoDuplicateEntries ==
    \A e, f \in Entries(disk) :
        e # f /\ e.path = f.path /\ e.path \in Paths =>
            /\ ~JsonOut /\ disk[Len(disk)].part = "name"
            /\ ~({e, f} \subseteq Entries(Terminated(disk)))

\* A tear costs at most the torn entry and the one appended to it, and in
\* JSONL the next run restores both: a run that ends without a write error and
\* has appended a line leaves a list that ends in a newline, and a run that is
\* given such a list, or has nothing to append, ends with an entry for every
\* file it found, those it logged an error for excepted.
SecondRunRepairs ==
    phase = "ok" /\ ~werr =>
        /\ accepted # {} \/ ~torn => EndsInNewline(disk)
        /\ JsonOut /\ (accepted = {} \/ ~torn) => walked \ logged \subseteq Recorded(disk)

\* An entry that is whole on the medium, newline included, is there for good:
\* no later run, kill or power loss takes it away or changes it.
Durable == Recorded(Terminated(Upto(disk, synced)))
DurableEntriesSurvive == [][Durable \subseteq Durable']_vars

\* What the README promises of a resumed run (README.md:20-22): the entries
\* there are kept and the others added, so when a run ends without error
\* every file has its entry.
ResumeCompletes ==
    phase = "ok" /\ ~werr => walked \ logged \subseteq Recorded(disk)

\* What the README promises of a run (README.md:3-5): a run that reports no
\* error has written the checksum of every file whose hashing did not fail.
OkMeansWritten == phase = "ok" /\ ~torn => paths \ logged \subseteq accepted

\* A run that has only files that end to hash ends.
RunEnds == phase = "send" /\ paths \cap Endless = {} ~> phase \in Ended

\* A file that never ends holds up one worker and not the others.
OthersHandled ==
    \A p \in Paths \ Endless :
        p \in todo ~> (p \in accepted \cup logged \/ werr \/ phase \in Ended)
=============================================================================
