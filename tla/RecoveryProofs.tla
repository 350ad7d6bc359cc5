--------------------------- MODULE RecoveryProofs ---------------------------
(***************************************************************************)
(* What a list holds after any number of runs, kills, power losses and     *)
(* failing writes: proofs about Generate, by the reader's view of the list *)
(* that ListProofs establishes.                                            *)
(***************************************************************************)
EXTENDS GenerateProofs, ListProofs

-----------------------------------------------------------------------------
(* Pieces of the list and of the buffer put together.                      *)

LEMMA BeginsItself ==
    ASSUME NEW s \in Seq(Unit)
    PROVE  Begins(s, s)
  BY LenProperties DEF Begins

LEMMA BeginsConcat ==
    ASSUME NEW s \in Seq(Unit), NEW b \in Seq(Unit), NEW k \in 0 .. Len(b)
    PROVE  /\ SubSeq(b, 1, k) \in Seq(Unit)
           /\ s \o SubSeq(b, 1, k) \in Seq(Unit) /\ s \o b \in Seq(Unit)
           /\ Begins(s, s \o b)
           /\ Begins(s \o SubSeq(b, 1, k), s \o b)
  <1>1. Len(s) \in Nat /\ Len(b) \in Nat
    BY LenProperties
  <1>2. /\ SubSeq(b, 1, k) \in Seq(Unit) /\ Len(SubSeq(b, 1, k)) = k
        /\ \A i \in 1 .. k : SubSeq(b, 1, k)[i] = b[i]
    BY <1>1, Piece
  <1> DEFINE a == SubSeq(b, 1, k)
  <1> HIDE DEF a
  <1>3. a \in Seq(Unit) /\ Len(a) = k /\ \A i \in 1 .. k : a[i] = b[i]
    BY <1>2 DEF a
  <1>4. /\ s \o a \in Seq(Unit) /\ Len(s \o a) = Len(s) + k
        /\ \A i \in 1 .. Len(s) + k : (s \o a)[i] = IF i <= Len(s) THEN s[i] ELSE a[i - Len(s)]
    BY <1>3, ConcatProperties
  <1>5. /\ s \o b \in Seq(Unit) /\ Len(s \o b) = Len(s) + Len(b)
        /\ \A i \in 1 .. Len(s) + Len(b) :
               (s \o b)[i] = IF i <= Len(s) THEN s[i] ELSE b[i - Len(s)]
    BY ConcatProperties
  <1>6. Begins(s, s \o b)
    BY <1>1, <1>5 DEF Begins
  <1>7. Begins(s \o a, s \o b)
    <2>1. ASSUME NEW i \in 1 .. Len(s) + k PROVE (s \o a)[i] = (s \o b)[i]
      <3>1. i \in 1 .. Len(s) + Len(b)
        BY <1>1
      <3>2. CASE i <= Len(s)
        BY <1>4, <1>5, <3>1, <3>2
      <3>3. CASE ~(i <= Len(s))
        <4>1. i - Len(s) \in 1 .. k
          BY <1>1, <3>3
        <4> QED
          BY <1>3, <1>4, <1>5, <3>1, <3>3, <4>1
      <3> QED
        BY <3>2, <3>3
    <2>2. Len(s \o a) <= Len(s \o b)
      BY <1>1, <1>4, <1>5
    <2> QED
      BY <1>4, <2>1, <2>2 DEF Begins
  <1> QED
    BY <1>2, <1>4, <1>5, <1>6, <1>7 DEF a

\* What is written and what stays in the buffer are what was in the buffer.
LEMMA Parted ==
    ASSUME NEW s \in Seq(Unit), NEW b \in Seq(Unit), NEW k \in 0 .. Len(b)
    PROVE  (s \o SubSeq(b, 1, k)) \o SubSeq(b, k + 1, Len(b)) = s \o b
  <1>1. Len(b) \in Nat
    BY LenProperties
  <1> DEFINE a == SubSeq(b, 1, k)  c == SubSeq(b, k + 1, Len(b))
  <1>2. a \in Seq(Unit)
    BY <1>1, Piece
  <1>3. c \in Seq(Unit)
    <2> SUFFICES ASSUME NEW m \in Nat \ {0}, m = k + 1
                 PROVE  SubSeq(b, m, Len(b)) \in Seq(Unit)
      BY <1>1
    <2> QED
      BY <1>1, Piece
  <1>4. a \o c = b
    <2>1. 1 \in 1 .. Len(b) + 1 /\ k \in 1 - 1 .. Len(b) /\ Len(b) \in k .. Len(b)
      BY <1>1
    <2>2. a \o c = SubSeq(b, 1, Len(b))
      BY <2>1, ConcatAdjacentSubSeq
    <2> QED
      BY <2>2, SubSeqFull
  <1> HIDE DEF a, c
  <1>5. (s \o a) \o c = s \o (a \o c)
    BY <1>2, <1>3, ConcatAssociative
  <1> QED
    BY <1>4, <1>5 DEF a, c

\* What the kernel has of a list after a power loss is a beginning of it.
LEMMA UptoBegins ==
    ASSUME NEW s \in Seq(Unit), NEW n \in 0 .. Len(s)
    PROVE  /\ Upto(s, n) \in Seq(Unit) /\ Len(Upto(s, n)) = n /\ Begins(Upto(s, n), s)
           /\ n = Len(s) => Upto(s, n) = s
  <1>1. Len(s) \in Nat
    BY LenProperties
  <1>2. Upto(s, n) = SubSeq(s, 1, n)
    BY <1>1 DEF Upto
  <1>3. /\ SubSeq(s, 1, n) \in Seq(Unit) /\ Len(SubSeq(s, 1, n)) = n
        /\ \A i \in 1 .. n : SubSeq(s, 1, n)[i] = s[i]
    BY <1>1, Piece
  <1>4. Begins(Upto(s, n), s)
    BY <1>1, <1>2, <1>3 DEF Begins
  <1>5. n = Len(s) => Upto(s, n) = s
    BY <1>1, <1>2, <1>3, SeqEqual
  <1> QED
    BY <1>2, <1>3, <1>4, <1>5

LEMMA BeginsOn ==
    ASSUME NEW r \in Seq(Unit), NEW s \in Seq(Unit), NEW t \in Seq(Unit),
           Begins(r, s), Begins(s, t)
    PROVE  Begins(r, t)
  <1>1. Len(r) \in Nat /\ Len(s) \in Nat /\ Len(t) \in Nat
    BY LenProperties
  <1> QED
    BY <1>1 DEF Begins

-----------------------------------------------------------------------------
(* Whole entries on the medium stay: a step appends to the list or, when   *)
(* the power fails, cuts it where it was synced or later.                  *)

Synced == synced <= Len(disk)

LEMMA UptoKept ==
    ASSUME NEW s \in Seq(Unit), NEW t \in Seq(Unit), Begins(s, t),
           NEW m \in 0 .. Len(s), NEW n \in 0 .. Len(t), m <= n
    PROVE  /\ Upto(s, m) \in Seq(Unit) /\ Upto(t, n) \in Seq(Unit)
           /\ Begins(Upto(s, m), Upto(t, n))
  <1>1. /\ Upto(s, m) \in Seq(Unit) /\ Len(Upto(s, m)) = m /\ Begins(Upto(s, m), s)
        /\ Upto(t, n) \in Seq(Unit) /\ Len(Upto(t, n)) = n /\ Begins(Upto(t, n), t)
    BY UptoBegins
  <1>2. Len(s) \in Nat /\ Len(t) \in Nat
    BY LenProperties
  <1> QED
    BY <1>1, <1>2 DEF Begins

\* Every step but a power loss leaves the list as it is or appends to it.
LEMMA DiskGrows ==
    ASSUME WriterInv, [Next]_vars, ~PowerLoss
    PROVE  /\ disk' \in Seq(Unit) /\ Begins(disk, disk')
           /\ synced' = synced \/ synced' = Len(disk')
  <1>1. disk \in Seq(Unit) /\ buf \in Seq(Unit) /\ Len(buf) \in Nat
    BY LenProperties DEF WriterInv, TypeOK, FileTypes
  <1>2. BufCap \in Nat
    BY BufCapAssumption
  <1>3. ASSUME disk' = disk PROVE disk' \in Seq(Unit) /\ Begins(disk, disk')
    BY <1>1, <1>3, BeginsItself
  <1>4. ASSUME NEW k \in 0 .. Len(buf), disk' = disk \o SubSeq(buf, 1, k)
        PROVE  disk' \in Seq(Unit) /\ Begins(disk, disk')
    <2>1. SubSeq(buf, 1, k) \in Seq(Unit)
      BY <1>1, BeginsConcat
    <2>2. Len(SubSeq(buf, 1, k)) \in 0 .. Len(SubSeq(buf, 1, k))
      BY <2>1, LenProperties
    <2> QED
      BY <1>1, <1>4, <2>1, <2>2, BeginsConcat
  <1>5. ASSUME disk' = disk \o buf PROVE disk' \in Seq(Unit) /\ Begins(disk, disk')
    <2>1. Len(buf) \in 0 .. Len(buf)
      BY <1>1
    <2> QED
      BY <1>1, <1>5, <2>1, BeginsConcat
  <1>6. CASE Start \/ OpenFails \/ WalkFails
    BY <1>3, <1>6 DEF Start, Opened, OpenFails, WalkFails, Aborts
  <1>7. CASE Kill
    <2>1. PICK k \in 0 .. InFlight : disk' = disk \o SubSeq(buf, 1, k)
      BY <1>7 DEF Kill
    <2>2. k \in 0 .. Len(buf)
      BY <1>1, <1>2, <2>1 DEF InFlight, WriterInv, WriterExclusive
    <2> QED
      BY <1>4, <1>7, <2>1, <2>2 DEF Kill
  <1>8. CASE Main
    <2>1. CASE FinalFlush
      <3>1. CASE \E k \in 0 .. Len(buf) - 1 : WriteFails(k, Len(buf))
        <4>1. PICK k \in 0 .. Len(buf) - 1 : WriteFails(k, Len(buf))
          BY <3>1
        <4>2. k \in 0 .. Len(buf)
          BY <1>1
        <4> QED
          BY <1>4, <2>1, <4>1, <4>2 DEF FinalFlush, WriteFails
      <3> QED
        BY <1>3, <1>5, <2>1, <3>1 DEF FinalFlush
    <2>2. CASE CloseJobs \/ WaitReturns
      BY <1>3, <2>2 DEF CloseJobs, WaitReturns, machine
    <2>3. CASE FinalSync
      BY <1>3, <2>3 DEF FinalSync, SyncFile
    <2> QED
      BY <1>8, <2>1, <2>2, <2>3 DEF Main
  <1>9. ASSUME NEW w \in Workers, Worker(w)
        PROVE  /\ disk' \in Seq(Unit) /\ Begins(disk, disk')
               /\ synced' = synced \/ synced' = Len(disk')
    <2>1. CASE Spill(w)
      <3>1. BufCap \in 0 .. Len(buf)
        BY <1>1, <1>2, <2>1 DEF Spill, WriterInv, WriterExclusive
      <3> QED
        BY <1>4, <2>1, <3>1 DEF Spill
    <2>2. CASE SpillFails(w)
      <3>1. PICK k \in 0 .. BufCap - 1 : WriteFails(k, BufCap)
        BY <2>2 DEF SpillFails
      <3>2. k \in 0 .. Len(buf)
        BY <1>1, <1>2, <2>2 DEF SpillFails, WriterInv, WriterExclusive
      <3> QED
        BY <1>4, <2>2, <3>1, <3>2 DEF SpillFails, WriteFails
    <2>3. CASE Flush(w)
      BY <1>5, <2>3 DEF Flush
    <2>4. CASE FlushFails(w)
      <3>1. PICK k \in 0 .. Len(buf) - 1 : WriteFails(k, Len(buf))
        BY <2>4 DEF FlushFails
      <3>2. k \in 0 .. Len(buf)
        BY <1>1
      <3> QED
        BY <1>4, <2>4, <3>1, <3>2 DEF FlushFails, WriteFails
    <2>5. CASE Sync(w)
      BY <1>3, <2>5 DEF Sync, SyncFile
    <2>6. CASE \/ Send(w) \/ Exit(w) \/ HashOk(w) \/ HashError(w)
               \/ WriteFits(w) \/ WriteOverflows(w) \/ WriteRefused(w) \/ Count(w)
      BY <1>3, <2>6 DEF Send, Exit, HashOk, HashError, WriteFits, WriteOverflows, WriteRefused,
                        Count, machine
    <2> QED
      BY <1>9, <2>1, <2>2, <2>3, <2>4, <2>5, <2>6 DEF Worker
  <1>10. CASE Done \/ UNCHANGED vars
    BY <1>3, <1>10 DEF Done, vars, machine
  <1> QED
    BY <1>6, <1>7, <1>8, <1>9, <1>10 DEF Next

LEMMA InitSynced == Init => Synced
  BY EmptySeq DEF Init, Synced

\* What was synced is a beginning of what is synced after the step.
LEMMA SyncedKept ==
    ASSUME WriterInv, Synced, [Next]_vars
    PROVE  /\ Synced'
           /\ Upto(disk, synced) \in Seq(Unit) /\ Upto(disk, synced)' \in Seq(Unit)
           /\ Begins(Upto(disk, synced), Upto(disk, synced)')
  <1>1. disk \in Seq(Unit) /\ Len(disk) \in Nat /\ synced \in 0 .. Len(disk)
    BY LenProperties DEF WriterInv, TypeOK, FileTypes, Synced
  <1>2. CASE PowerLoss
    <2>1. PICK n \in synced .. Len(disk) : disk' = Upto(disk, n) /\ synced' = n
      BY <1>2 DEF PowerLoss
    <2>2. n \in 0 .. Len(disk) /\ synced <= n
      BY <1>1
    <2>3. disk' \in Seq(Unit) /\ Len(disk') = n
      BY <1>1, <2>1, <2>2, UptoBegins
    <2>4. Upto(disk', synced') = disk'
      BY <2>1, <2>2, <2>3, UptoBegins
    <2>5. Begins(Upto(disk, synced), Upto(disk, n)) /\ Upto(disk, synced) \in Seq(Unit)
      BY <1>1, <2>2, BeginsItself, UptoKept
    <2>6. Synced'
      BY <1>1, <2>1, <2>2, <2>3 DEF Synced
    <2> QED
      BY <2>1, <2>3, <2>4, <2>5, <2>6
  <1>3. CASE ~PowerLoss
    <2>1. /\ disk' \in Seq(Unit) /\ Begins(disk, disk')
          /\ synced' = synced \/ synced' = Len(disk')
      BY <1>3, DiskGrows
    <2>2. Len(disk') \in Nat /\ Len(disk) <= Len(disk')
      BY <2>1, LenProperties DEF Begins
    <2>3. synced' \in 0 .. Len(disk') /\ synced <= synced'
      BY <1>1, <2>1, <2>2
    <2>4. /\ Upto(disk, synced) \in Seq(Unit) /\ Upto(disk', synced') \in Seq(Unit)
          /\ Begins(Upto(disk, synced), Upto(disk', synced'))
      BY <1>1, <2>1, <2>3, UptoKept
    <2> QED
      BY <2>2, <2>3, <2>4 DEF Synced
  <1> QED
    BY <1>2, <1>3

\* What -list is for: a whole entry that has reached the medium is there for
\* good, whatever the later runs, kills, power losses and failing writes do.
THEOREM DurableEntries == Spec => DurableEntriesSurvive
  <1>1. WriterInv /\ Synced /\ [Next]_vars => (Durable \subseteq Durable')
    <2> SUFFICES ASSUME WriterInv, Synced, [Next]_vars PROVE Durable \subseteq Durable'
      OBVIOUS
    <2>1. /\ Upto(disk, synced) \in Seq(Unit) /\ Upto(disk, synced)' \in Seq(Unit)
          /\ Begins(Upto(disk, synced), Upto(disk, synced)')
      BY SyncedKept
    <2>2. Recorded(Terminated(Upto(disk, synced)))
              \subseteq Recorded(Terminated(Upto(disk, synced)'))
      BY <2>1, TerminatedKept
    <2> QED
      BY <2>2 DEF Durable
  <1>2. WriterInv /\ Synced /\ [Next]_vars => (WriterInv /\ Synced)'
    BY NextWriterInv, SyncedKept
  <1>3. Init => WriterInv /\ Synced
    BY InitWriterInv, InitSynced
  <1> QED
    BY <1>1, <1>2, <1>3, PTL DEF Spec, DurableEntriesSurvive

-----------------------------------------------------------------------------
(* The list as it will be once what is buffered is written.  A step adds   *)
(* one whole line to it, or leaves it, or cuts it; and one that cuts it    *)
(* leaves no process that would write on.                                  *)

Whole == IF werr THEN disk ELSE disk \o buf

\* Nobody writes through a writer that has failed.
WritesWork == \A w \in Workers : pc[w] \in {"spill", "flush"} => ~werr

\* Nothing is left in the buffer where the list is synced, or once the run
\* has ended.
Emptied ==
    (phase \in Ended \cup {"sync"} \/ \E w \in Workers : pc[w] = "sync") /\ ~werr => buf = <<>>

BufferInv == WriterInv /\ WritesWork /\ Emptied

LEMMA InitBufferInv == Init => BufferInv
  BY InitWriterInv DEF Init, BufferInv, WritesWork, Emptied

\* A step by which no worker comes to write, and no run ends.
LEMMA KeepsBuffer ==
    ASSUME BufferInv, werr' = werr, buf' = buf, phase' \in {"send", "wait", "flush"} \/ phase' = phase,
           \A v \in Workers : pc'[v] = pc[v] \/ pc'[v] \notin {"spill", "flush", "sync"}
    PROVE  WritesWork' /\ Emptied'
  BY DEF BufferInv, WritesWork, Emptied, Ended

LEMMA NextBufferInv == BufferInv /\ [Next]_vars => BufferInv'
  <1> SUFFICES ASSUME BufferInv, [Next]_vars PROVE WritesWork' /\ Emptied'
    BY NextWriterInv DEF BufferInv
  <1> DEFINE Moved(w, l) == \A v \in Workers : pc'[v] = IF v = w THEN l ELSE pc[v]
  <1>1. ASSUME NEW w \in Workers, NEW l, Goto(w, l) PROVE Moved(w, l)
    BY <1>1 DEF Goto, BufferInv, WriterInv, TypeOK, PoolTypes
  <1>2. \A w \in Critical : Critical \subseteq {w} /\ phase \notin Ended \cup {"sync"}
    BY DEF BufferInv, WriterInv, WriterExclusive, Critical, AllExited
  <1>3. CASE Start \/ OpenFails \/ WalkFails \/ Kill \/ PowerLoss
    BY <1>3 DEF Start, OpenFails, WalkFails, Aborts, Kill, PowerLoss, Dies, FreshProcess,
                WritesWork, Emptied
  <1>4. CASE Main
    <2>1. CASE CloseJobs \/ WaitReturns
      BY <2>1, KeepsBuffer DEF CloseJobs, WaitReturns, pool, writer
    <2>2. CASE FinalFlush
      <3>1. \A w \in Workers : pc'[w] = "exit"
        BY <2>2 DEF FinalFlush, pool, BufferInv, WriterInv, WriterExclusive, AllExited
      <3>2. ~werr' => buf' = <<>>
        BY <2>2 DEF FinalFlush, WriteFails
      <3> QED
        BY <3>1, <3>2 DEF WritesWork, Emptied
    <2>3. CASE FinalSync
      BY <2>3 DEF FinalSync, pool, writer, BufferInv, WritesWork, Emptied
    <2> QED
      BY <1>4, <2>1, <2>2, <2>3 DEF Main
  <1>5. ASSUME NEW w \in Workers, Worker(w) PROVE WritesWork' /\ Emptied'
    <2>1. CASE \/ Send(w) \/ Exit(w) \/ HashOk(w) \/ HashError(w) \/ WriteRefused(w)
               \/ Sync(w) \/ Count(w)
      <3>1. PICK l \in {"hash", "exit", "lock", "count", "recv"} : Goto(w, l)
        BY <2>1 DEF Send, Exit, HashOk, HashError, WriteRefused, Sync, Count
      <3>2. Moved(w, l)
        BY <1>1, <3>1
      <3>3. werr' = werr /\ buf' = buf /\ phase' = phase
        BY <2>1 DEF Send, Exit, HashOk, HashError, WriteRefused, Sync, Count, writer
      <3> QED
        BY <3>2, <3>3, KeepsBuffer
    <2>2. CASE WriteFits(w) \/ WriteOverflows(w) \/ Spill(w)
      <3>1. PICK l \in {"spill", "flush", "count"} : Goto(w, l)
        BY <2>2 DEF WriteFits, WriteOverflows, Spill, Accept
      <3>2. Moved(w, l)
        BY <1>1, <3>1
      <3>3. werr' = werr /\ ~werr /\ phase' = phase /\ phase \notin Ended \cup {"sync"}
        BY <2>2 DEF WriteFits, WriteOverflows, Spill, BufferInv, WritesWork, WriterInv,
                    WriterExclusive, AllExited
      <3>4. \A v \in Workers : pc'[v] # "sync"
        <4>1. CASE pc[w] = "spill"
          BY <1>2, <3>2, <4>1 DEF Critical
        <4>2. CASE mu = NoWorker
          <5>1. \A v \in Workers : pc[v] # "sync"
            BY <4>2, WorkersAssumption DEF BufferInv, WriterInv, WriterExclusive, Critical
          <5> QED
            BY <3>2, <5>1
        <4> QED
          BY <2>2, <4>1, <4>2 DEF WriteFits, WriteOverflows, Spill, MayEnter
      <3> QED
        BY <3>3, <3>4 DEF WritesWork, Emptied
    <2>3. CASE Flush(w) \/ FlushFails(w) \/ SpillFails(w)
      <3>1. w \in Critical
        BY <2>3 DEF Flush, FlushFails, SpillFails, Critical
      <3>2. PICK l \in {"sync", "count"} : Goto(w, l)
        BY <2>3 DEF Flush, FlushFails, SpillFails
      <3>3. Moved(w, l)
        BY <1>1, <3>2
      <3>4. \A v \in Workers : pc'[v] \notin {"spill", "flush"}
        BY <1>2, <3>1, <3>3 DEF Critical
      <3>5. ~werr' => buf' = <<>>
        BY <2>3 DEF Flush, FlushFails, SpillFails, WriteFails
      <3> QED
        BY <3>4, <3>5 DEF WritesWork, Emptied
    <2> QED
      BY <1>5, <2>1, <2>2, <2>3 DEF Worker
  <1>6. CASE Done \/ UNCHANGED vars
    BY <1>6, KeepsBuffer DEF Done, vars, pool, writer
  <1> QED
    BY <1>3, <1>4, <1>5, <1>6 DEF Next

\* While a run lasts, and when it has returned nil.
Alive == Running \cup {"ok"}

Begin == Start /\ Whole' = disk /\ Whole = disk /\ ~werr'

Appends(w) ==
    /\ WriteFits(w) \/ WriteOverflows(w)
    /\ Whole' = Whole \o Line(job[w]) /\ ~werr /\ ~werr'

Keeps == Whole' = Whole /\ werr' = werr /\ (phase' \in Alive => phase \in Alive)

Cuts == Begins(Whole', Whole) /\ (werr' \/ phase' \in {"failed", "killed"})

LEMMA WholeType ==
    ASSUME WriterInv
    PROVE  /\ disk \in Seq(Unit) /\ buf \in Seq(Unit) /\ Len(buf) \in Nat
           /\ Whole \in Seq(Unit) /\ Begins(disk, Whole)
           /\ \A w \in Busy : job[w] \in Paths
  <1>1. disk \in Seq(Unit) /\ buf \in Seq(Unit)
    BY DEF WriterInv, TypeOK, FileTypes
  <1>2. Len(buf) \in Nat /\ Len(buf) \in 0 .. Len(buf)
    BY <1>1, LenProperties
  <1>3. disk \o buf \in Seq(Unit) /\ Begins(disk, disk \o buf)
    BY <1>1, <1>2, BeginsConcat
  <1>4. Whole \in Seq(Unit) /\ Begins(disk, Whole)
    BY <1>1, <1>3, BeginsItself DEF Whole
  <1>5. \A w \in Busy : job[w] \in Paths
    BY DEF WriterInv, TypeOK, PoolTypes
  <1> QED
    BY <1>1, <1>2, <1>4, <1>5

\* A step that hands a part of the buffer over to the kernel.
LEMMA HandsOver ==
    ASSUME WriterInv, ~werr, NEW k \in 0 .. Len(buf), disk' = disk \o SubSeq(buf, 1, k)
    PROVE  /\ werr' => Begins(Whole', Whole)
           /\ buf' = <<>> => Begins(Whole', Whole)
           /\ ~werr' /\ buf' = SubSeq(buf, k + 1, Len(buf)) => Whole' = Whole
           /\ ~werr' /\ buf' = <<>> /\ k = Len(buf) => Whole' = Whole
  <1>1. disk \in Seq(Unit) /\ buf \in Seq(Unit) /\ Whole = disk \o buf
    BY WholeType DEF Whole
  <1>2. disk' \in Seq(Unit) /\ Begins(disk', disk \o buf)
    BY <1>1, BeginsConcat
  <1>3. disk' \o SubSeq(buf, k + 1, Len(buf)) = disk \o buf
    BY <1>1, Parted
  <1>4. disk' \o <<>> = disk'
    BY <1>2, ConcatEmptySeq
  <1>5. k = Len(buf) => SubSeq(buf, 1, k) = buf
    BY <1>1, SubSeqFull
  <1>6. werr' => Begins(Whole', Whole)
    BY <1>1, <1>2 DEF Whole
  <1>7. buf' = <<>> => Begins(Whole', Whole)
    BY <1>1, <1>2, <1>4 DEF Whole
  <1>8. ~werr' /\ buf' = SubSeq(buf, k + 1, Len(buf)) => Whole' = Whole
    BY <1>1, <1>3 DEF Whole
  <1>9. ~werr' /\ buf' = <<>> /\ k = Len(buf) => Whole' = Whole
    BY <1>1, <1>4, <1>5 DEF Whole
  <1> QED
    BY <1>6, <1>7, <1>8, <1>9

\* WriteString adds one line to the list as it will be.
LEMMA WritesAppend ==
    ASSUME BufferInv, NEW w \in Workers, WriteFits(w) \/ WriteOverflows(w)
    PROVE  Appends(w)
  <1>1. ~werr /\ ~werr' /\ disk' = disk /\ buf' = buf \o Line(job[w])
    BY DEF WriteFits, WriteOverflows, machine
  <1>2. disk \in Seq(Unit) /\ buf \in Seq(Unit) /\ job[w] \in Paths
    BY WholeType DEF WriteFits, WriteOverflows, Busy, BufferInv
  <1>3. Line(job[w]) \in Seq(Unit)
    BY <1>2, LineUnits
  <1>4. (disk \o buf) \o Line(job[w]) = disk \o (buf \o Line(job[w]))
    BY <1>2, <1>3, ConcatAssociative
  <1> QED
    BY <1>1, <1>4 DEF Appends, Whole

LEMMA WorkerWhole ==
    ASSUME BufferInv, NEW w \in Workers, Worker(w)
    PROVE  Appends(w) \/ Keeps \/ Cuts
  <1>1. /\ disk \in Seq(Unit) /\ buf \in Seq(Unit) /\ Len(buf) \in Nat
        /\ Whole \in Seq(Unit)
    BY WholeType DEF BufferInv
  <1>2. BufCap \in Nat
    BY BufCapAssumption
  <1>3. phase' = phase
    BY DEF Worker, Send, Exit, HashOk, HashError, WriteFits, WriteOverflows, Spill, SpillFails,
           WriteRefused, Flush, FlushFails, Sync, Count
  <1>4. CASE \/ Send(w) \/ Exit(w) \/ HashOk(w) \/ HashError(w)
             \/ WriteRefused(w) \/ Sync(w) \/ Count(w)
    <2>1. werr' = werr /\ buf' = buf /\ disk' = disk
      BY <1>4 DEF Send, Exit, HashOk, HashError, WriteRefused, Sync, Count, writer, machine
    <2> QED
      BY <1>3, <2>1 DEF Keeps, Whole
  <1>5. CASE WriteFits(w) \/ WriteOverflows(w)
    BY <1>5, WritesAppend
  <1>6. CASE Spill(w)
    <2>1. BufCap \in 0 .. Len(buf) /\ ~werr
      BY <1>1, <1>2, <1>6 DEF Spill, BufferInv, WritesWork, WriterInv, WriterExclusive
    <2> QED
      BY <1>3, <1>6, <2>1, HandsOver DEF Spill, BufferInv, Keeps
  <1>7. CASE SpillFails(w)
    <2>1. PICK k \in 0 .. BufCap - 1 : WriteFails(k, BufCap)
      BY <1>7 DEF SpillFails
    <2>2. k \in 0 .. Len(buf) /\ ~werr
      BY <1>1, <1>2, <1>7 DEF SpillFails, BufferInv, WritesWork, WriterInv, WriterExclusive
    <2> QED
      BY <2>1, <2>2, HandsOver DEF WriteFails, BufferInv, Cuts
  <1>8. CASE Flush(w)
    <2>1. Len(buf) \in 0 .. Len(buf) /\ ~werr
      BY <1>1, <1>8 DEF Flush, BufferInv, WritesWork
    <2>2. disk' = disk \o SubSeq(buf, 1, Len(buf)) /\ buf' = <<>> /\ werr' = werr
      BY <1>1, <1>8, SubSeqFull DEF Flush
    <2> QED
      BY <1>3, <2>1, <2>2, HandsOver DEF BufferInv, Keeps
  <1>9. CASE FlushFails(w)
    <2>1. PICK k \in 0 .. Len(buf) - 1 : WriteFails(k, Len(buf))
      BY <1>9 DEF FlushFails
    <2>2. k \in 0 .. Len(buf) /\ ~werr
      BY <1>1, <1>9 DEF FlushFails, BufferInv, WritesWork
    <2> QED
      BY <2>1, <2>2, HandsOver DEF WriteFails, BufferInv, Cuts
  <1> QED
    BY <1>4, <1>5, <1>6, <1>7, <1>8, <1>9 DEF Worker

LEMMA WholeSteps ==
    ASSUME BufferInv, [Next]_vars
    PROVE  Begin \/ (\E w \in Workers : Appends(w)) \/ Keeps \/ Cuts
  <1>1. /\ disk \in Seq(Unit) /\ buf \in Seq(Unit) /\ Len(buf) \in Nat
        /\ Whole \in Seq(Unit) /\ Begins(disk, Whole)
    BY WholeType DEF BufferInv
  <1>2. disk \o <<>> = disk
    BY <1>1, ConcatEmptySeq
  <1>3. phase \in Ended => Whole = disk
    BY <1>2 DEF BufferInv, Emptied, Whole
  <1>4. CASE Start
    BY <1>2, <1>3, <1>4 DEF Start, Opened, FreshProcess, Begin, Whole
  <1>5. CASE OpenFails \/ WalkFails
    <2>1. Whole' = Whole
      BY <1>2, <1>3, <1>5 DEF OpenFails, WalkFails, Aborts, FreshProcess, Whole
    <2> QED
      BY <1>1, <1>5, <2>1, BeginsItself DEF OpenFails, WalkFails, Aborts, Cuts
  <1>6. CASE Kill
    <2>1. PICK k \in 0 .. InFlight : disk' = disk \o SubSeq(buf, 1, k)
      BY <1>6 DEF Kill
    <2>2. k \in 0 .. Len(buf)
      BY <1>1, <2>1, BufCapAssumption DEF InFlight, BufferInv, WriterInv, WriterExclusive
    <2>3. buf' = <<>> /\ ~werr' /\ phase' = "killed"
      BY <1>6 DEF Kill, Dies, FreshProcess
    <2>4. CASE ~werr
      BY <2>1, <2>2, <2>3, <2>4, HandsOver DEF BufferInv, Cuts
    <2>5. CASE werr
      <3>1. InFlight = 0
        BY <2>5 DEF InFlight, BufferInv, WritesWork
      <3>2. k = 0
        BY <2>1, <3>1
      <3>3. SubSeq(buf, 1, 0) = <<>>
        BY SubSeqEmpty
      <3>4. Whole' = Whole
        BY <1>2, <2>1, <2>3, <2>5, <3>2, <3>3 DEF Whole
      <3> QED
        BY <1>1, <2>3, <3>4, BeginsItself DEF Cuts
    <2> QED
      BY <2>4, <2>5
  <1>7. CASE PowerLoss
    <2>1. PICK n \in synced .. Len(disk) : disk' = Upto(disk, n)
      BY <1>7 DEF PowerLoss
    <2>2. n \in 0 .. Len(disk)
      BY <1>1, LenProperties DEF BufferInv, WriterInv, TypeOK, FileTypes
    <2>3. disk' \in Seq(Unit) /\ Begins(disk', disk)
      BY <1>1, <2>1, <2>2, UptoBegins
    <2>4. Begins(disk', Whole)
      BY <1>1, <2>3, BeginsOn
    <2>5. disk' \o <<>> = disk'
      BY <2>3, ConcatEmptySeq
    <2> QED
      BY <1>7, <2>4, <2>5 DEF PowerLoss, Dies, FreshProcess, Cuts, Whole
  <1>8. CASE \E w \in Workers : Worker(w)
    BY <1>8, WorkerWhole
  <1>9. CASE Main
    <2>1. CASE CloseJobs \/ WaitReturns \/ FinalSync
      <3>1. werr' = werr /\ buf' = buf /\ disk' = disk
        BY <2>1 DEF CloseJobs, WaitReturns, FinalSync, writer, machine
      <3>2. phase \in Alive
        BY <2>1 DEF CloseJobs, WaitReturns, FinalSync, Alive, Running
      <3> QED
        BY <3>1, <3>2 DEF Keeps, Whole
    <2>2. CASE FinalFlush
      <3>1. phase \in Alive
        BY <2>2 DEF FinalFlush, Alive, Running
      <3>2. CASE UNCHANGED <<disk, buf, werr>>
        BY <3>1, <3>2 DEF Keeps, Whole
      <3>3. CASE ~werr /\ disk' = disk \o buf /\ buf' = <<>> /\ UNCHANGED werr
        <4>1. Len(buf) \in 0 .. Len(buf) /\ disk' = disk \o SubSeq(buf, 1, Len(buf))
          BY <1>1, <3>3, SubSeqFull
        <4> QED
          BY <3>1, <3>3, <4>1, HandsOver DEF BufferInv, Keeps
      <3>4. CASE ~werr /\ \E k \in 0 .. Len(buf) - 1 : WriteFails(k, Len(buf))
        <4>1. PICK k \in 0 .. Len(buf) - 1 : WriteFails(k, Len(buf))
          BY <3>4
        <4>2. k \in 0 .. Len(buf)
          BY <1>1
        <4> QED
          BY <3>4, <4>1, <4>2, HandsOver DEF WriteFails, BufferInv, Cuts
      <3> QED
        BY <2>2, <3>2, <3>3, <3>4 DEF FinalFlush
    <2> QED
      BY <1>9, <2>1, <2>2 DEF Main
  <1>10. CASE Done \/ UNCHANGED vars
    BY <1>10 DEF Done, vars, machine, writer, Keeps, Whole
  <1> QED
    BY <1>4, <1>5, <1>6, <1>7, <1>8, <1>9, <1>10 DEF Next

LEMMA StartBegins ==
    ASSUME BufferInv, Start
    PROVE  Begin
  <1>1. disk \o <<>> = disk
    BY WholeType, ConcatEmptySeq DEF BufferInv
  <1> QED
    BY <1>1 DEF BufferInv, Emptied, Whole, Start, Opened, FreshProcess, Begin

LEMMA WholeTypeNext ==
    ASSUME BufferInv, [Next]_vars
    PROVE  Whole \in Seq(Unit) /\ Whole' \in Seq(Unit)
  <1>1. WriterInv'
    BY NextWriterInv DEF BufferInv
  <1>2. disk' \in Seq(Unit) /\ buf' \in Seq(Unit)
    BY <1>1 DEF WriterInv, TypeOK, FileTypes
  <1>3. disk' \o buf' \in Seq(Unit)
    BY <1>2, ConcatProperties
  <1> QED
    BY <1>2, <1>3, WholeType DEF BufferInv, Whole

LEMMA HistoryKept ==
    ASSUME [Next]_vars, ~Start
    PROVE  UNCHANGED <<torn, everTorn>>
  BY DEF Next, OpenFails, WalkFails, Aborts, Worker, Send, Exit, HashOk, HashError, WriteFits,
         WriteOverflows, Spill, SpillFails, WriteRefused, Flush, FlushFails, Sync, Count,
         Main, CloseJobs, WaitReturns, FinalFlush, FinalSync, Kill, PowerLoss, Dies, Done,
         vars, history

LEMMA AppendsTypes ==
    ASSUME BufferInv, NEW w \in Workers, Appends(w)
    PROVE  /\ Whole \in Seq(Unit) /\ job[w] \in Paths /\ w \in Busy /\ pc[w] = "lock"
           /\ phase \in Alive
  <1>1. pc[w] = "lock" /\ w \in Busy
    BY DEF Appends, WriteFits, WriteOverflows, Busy
  <1>2. phase \in Alive
    BY <1>1 DEF BufferInv, WriterInv, TypeOK, PoolTypes, WriterExclusive, AllExited, Alive
  <1> QED
    BY <1>1, <1>2, WholeType DEF BufferInv

LEMMA NoEntries ==
    ASSUME Init
    PROVE  Whole = <<>> /\ EndsInNewline(Whole) /\ Entries(Terminated(Whole)) = {}
  <1>1. Whole = <<>> /\ <<>> \in Seq(Unit) /\ Len(<<>>) = 0
    BY EmptySeq, ConcatEmptySeq DEF Init, Whole
  <1>2. EndsInNewline(Whole)
    BY <1>1 DEF EndsInNewline
  <1>3. Terminated(Whole) = <<>>
    BY <1>1, <1>2, TerminatedBegins
  <1>4. LineStarts(<<>>) = {}
    BY <1>1 DEF LineStarts
  <1>5. Entries(<<>>) = {}
    BY <1>4, EntryLines
  <1> QED
    BY <1>1, <1>2, <1>3, <1>5

-----------------------------------------------------------------------------
(* The entries are true as long as no run appended to a torn line.         *)

TrueInv ==
    ~everTorn =>
        /\ \A e \in Entries(Terminated(Whole)) : e.path \in Paths /\ e.hash = e.path
        /\ phase \in Alive /\ ~werr => EndsInNewline(Whole)

LEMMA NextTrue == BufferInv /\ TrueInv /\ [Next]_vars => TrueInv'
  <1> SUFFICES ASSUME BufferInv, TrueInv, [Next]_vars, ~everTorn'
               PROVE  /\ \A e \in Entries(Terminated(Whole')) : e.path \in Paths /\ e.hash = e.path
                      /\ phase' \in Alive /\ ~werr' => EndsInNewline(Whole')
    BY DEF TrueInv
  <1>1. Whole \in Seq(Unit) /\ Whole' \in Seq(Unit)
    BY WholeTypeNext
  <1>2. CASE Start
    <2>1. Whole' = Whole /\ Whole' = disk'
      BY <1>2, StartBegins DEF Begin, Start, Opened
    <2>2. ~everTorn /\ EndsInNewline(disk')
      BY <1>2 DEF Start
    <2> QED
      BY <2>1, <2>2 DEF TrueInv
  <1>3. CASE ~Start
    <2>1. ~everTorn
      BY <1>3, HistoryKept
    <2>2. (\E w \in Workers : Appends(w)) \/ Keeps \/ Cuts
      BY <1>3, WholeSteps DEF Begin
    <2>3. ASSUME NEW w \in Workers, Appends(w)
          PROVE  /\ \A e \in Entries(Terminated(Whole')) : e.path \in Paths /\ e.hash = e.path
                 /\ EndsInNewline(Whole')
      <3> DEFINE n == Len(Terminated(Whole))
      <3>1. /\ Whole \in Seq(Unit) /\ job[w] \in Paths /\ phase \in Alive
            /\ Whole' = Whole \o Line(job[w]) /\ ~werr
        BY <2>3, AppendsTypes DEF Appends
      <3>2. EndsInNewline(Whole)
        BY <2>1, <3>1 DEF TrueInv
      <3>3. /\ EndsInNewline(Whole')
            /\ \A e \in Entries(Whole') :
                   e \in Entries(Terminated(Whole)) \/ (e.at = n + 1 /\ e.path \in {job[w], NoPath})
            /\ \A e \in Entries(Whole') : e.at = n + 1 => e.path = job[w] /\ e.hash = job[w]
        BY <3>1, <3>2, AppendedEntries
      <3>4. Terminated(Whole') = Whole'
        BY <1>1, <3>3, TerminatedBegins
      <3> HIDE DEF n
      <3>5. ASSUME NEW e \in Entries(Whole') PROVE e.path \in Paths /\ e.hash = e.path
        <4>1. CASE e \in Entries(Terminated(Whole))
          BY <2>1, <4>1 DEF TrueInv
        <4>2. CASE e.at = n + 1
          BY <3>1, <3>3, <4>2
        <4> QED
          BY <3>3, <4>1, <4>2
      <3> QED
        BY <3>3, <3>4, <3>5
    <2>4. CASE Keeps
      BY <2>1, <2>4 DEF Keeps, TrueInv
    <2>5. CASE Cuts
      <3>1. Entries(Terminated(Whole')) \subseteq Entries(Terminated(Whole))
        BY <1>1, <2>5, TerminatedKept DEF Cuts
      <3>2. werr' \/ phase' \notin Alive
        BY <2>5 DEF Cuts, Alive, Running
      <3> QED
        BY <2>1, <3>1, <3>2 DEF TrueInv
    <2> QED
      BY <2>2, <2>3, <2>4, <2>5
  <1> QED
    BY <1>2, <1>3

\* As long as no run appended to a list that had lost its last newline, every
\* whole line of the list gives a file its own hash, however lines and writes
\* interleave and whatever is killed.
THEOREM EntriesAreTrue == Spec => []EntriesTrue
  <1>1. BufferInv /\ TrueInv => EntriesTrue
    <2> SUFFICES ASSUME BufferInv, TrueInv, ~everTorn
                 PROVE  \A e \in Entries(Terminated(disk)) : e.path \in Paths /\ e.hash = e.path
      BY DEF EntriesTrue
    <2>1. disk \in Seq(Unit) /\ Whole \in Seq(Unit) /\ Begins(disk, Whole)
      BY WholeType DEF BufferInv
    <2>2. Entries(Terminated(disk)) \subseteq Entries(Terminated(Whole))
      BY <2>1, TerminatedKept
    <2> QED
      BY <2>2 DEF TrueInv
  <1>2. Init => TrueInv
    BY NoEntries DEF TrueInv
  <1> QED
    BY <1>1, <1>2, InitBufferInv, NextBufferInv, NextTrue, PTL DEF Spec

-----------------------------------------------------------------------------
(* No file is listed twice: a file that still waits for its line has no    *)
(* entry in the list's whole lines, and a last line that is torn, wherever *)
(* a crash cuts the list, is the waiting file's own or is torn inside its  *)
(* path.                                                                   *)

Waiting == todo \cup {job[w] : w \in {v \in Workers : pc[v] \in {"hash", "lock"}}}

\* Two entries of one file, if there are, and what their list looks like.
Sole(s) ==
    \A e, f \in Entries(s) :
        e # f /\ e.path = f.path /\ e.path \in Paths =>
            /\ ~JsonOut /\ s[Len(s)].part = "name"
            /\ ~({e, f} \subseteq Entries(Terminated(s)))

OnceInv ==
    /\ \A s \in Seq(Unit) : Begins(s, Whole) => Sole(s)
    /\ \A e \in Entries(Terminated(Whole)) : e.path \notin Waiting

WaitingType == Waiting \subseteq Paths

LEMMA WaitingTyped == WriterInv => WaitingType
  BY DEF WriterInv, TypeOK, PoolTypes, Busy, WaitingType, Waiting

\* A file waits from the start of its run until its line is written, or
\* dropped, or its error logged.
LEMMA WaitingShrinks ==
    ASSUME PoolInv, [Next]_vars, ~Start
    PROVE  /\ Waiting' \subseteq Waiting
           /\ \A w \in Workers : Appends(w) => job[w] \notin Waiting'
  <1> DEFINE Kept(w, l) == \A v \in Workers : pc'[v] = IF v = w THEN l ELSE pc[v]
  <1>1. ASSUME NEW w \in Workers, NEW l, Goto(w, l) PROVE Kept(w, l)
    BY <1>1 DEF Goto, PoolInv, WriterInv, TypeOK, PoolTypes
  <1>2. ASSUME NEW w \in Workers, Appends(w) PROVE job[w] \notin Waiting' /\ Waiting' \subseteq Waiting
    <2>1. PICK l \in {"spill", "flush", "count"} : Goto(w, l)
      BY <1>2 DEF Appends, WriteFits, WriteOverflows, Accept
    <2>2. Kept(w, l)
      BY <1>1, <2>1
    <2>3. todo' = todo /\ job' = job /\ pc[w] = "lock"
      BY <1>2 DEF Appends, WriteFits, WriteOverflows
    <2>4. w \in Busy /\ job[w] \notin todo
      BY <2>3 DEF PoolInv, EachFileOnce, Busy, Held
    <2>5. \A v \in Workers : pc'[v] \in {"hash", "lock"} => v # w /\ pc[v] \in {"hash", "lock"}
      BY <2>2
    <2>6. \A v \in Workers : pc[v] \in {"hash", "lock"} /\ v # w => job[v] # job[w]
      BY <2>4 DEF PoolInv, EachFileOnce, Busy
    <2> QED
      BY <2>3, <2>4, <2>5, <2>6 DEF Waiting
  <1>3. ASSUME NEW w \in Workers, Worker(w), ~(WriteFits(w) \/ WriteOverflows(w))
        PROVE  Waiting' \subseteq Waiting
    <2>1. CASE Send(w)
      <3>1. PICK p \in todo : todo' = todo \ {p} /\ job' = Handed(w, p)
        BY <2>1 DEF Send
      <3>2. Kept(w, "hash")
        BY <1>1, <2>1 DEF Send
      <3>3. \A v \in Workers : job'[v] = IF v = w THEN p ELSE job[v]
        BY <3>1 DEF Handed, PoolInv, WriterInv, TypeOK, PoolTypes
      <3> QED
        BY <3>1, <3>2, <3>3 DEF Waiting
    <2>2. CASE HashOk(w)
      <3>1. Kept(w, "lock") /\ todo' = todo /\ job' = job /\ pc[w] = "hash"
        BY <1>1, <2>2 DEF HashOk
      <3> QED
        BY <3>1 DEF Waiting
    <2>3. CASE \/ Exit(w) \/ HashError(w) \/ Spill(w) \/ SpillFails(w) \/ WriteRefused(w)
               \/ Flush(w) \/ FlushFails(w) \/ Sync(w)
      <3>1. PICK l \in {"exit", "count", "flush", "sync"} : Goto(w, l)
        BY <2>3 DEF Exit, HashError, Spill, SpillFails, WriteRefused, Flush, FlushFails, Sync, Accept
      <3>2. Kept(w, l)
        BY <1>1, <3>1
      <3>3. todo' = todo /\ job' = job
        BY <2>3 DEF Exit, HashError, Spill, SpillFails, WriteRefused, Flush, FlushFails, Sync
      <3> QED
        BY <3>2, <3>3 DEF Waiting
    <2>4. CASE Count(w)
      <3>1. Kept(w, "recv") /\ todo' = todo
        BY <1>1, <2>4 DEF Count
      <3>2. \A v \in Workers : v # w => job'[v] = job[v]
        BY <2>4 DEF Count, PoolInv, WriterInv, TypeOK, PoolTypes
      <3> QED
        BY <3>1, <3>2 DEF Waiting
    <2> QED
      BY <1>3, <2>1, <2>2, <2>3, <2>4 DEF Worker
  <1>4. ASSUME OpenFails \/ WalkFails \/ Kill \/ PowerLoss PROVE Waiting' \subseteq Waiting
    BY <1>4 DEF OpenFails, WalkFails, Aborts, Kill, PowerLoss, Dies, Waiting
  <1>5. ASSUME Main PROVE Waiting' \subseteq Waiting
    BY <1>5 DEF Main, CloseJobs, WaitReturns, FinalFlush, FinalSync, pool, Waiting
  <1>6. ASSUME Done \/ UNCHANGED vars PROVE Waiting' \subseteq Waiting
    BY <1>6 DEF Done, vars, pool, Waiting
  <1>7. ASSUME \E w \in Workers : Worker(w) PROVE Waiting' \subseteq Waiting
    <2>1. PICK w \in Workers : Worker(w)
      BY <1>7
    <2>2. CASE WriteFits(w) \/ WriteOverflows(w)
      <3>1. PICK l \in {"spill", "flush", "count"} : Goto(w, l)
        BY <2>2 DEF WriteFits, WriteOverflows, Accept
      <3>2. Kept(w, l) /\ todo' = todo /\ job' = job
        BY <1>1, <2>2, <3>1 DEF WriteFits, WriteOverflows
      <3> QED
        BY <3>2 DEF Waiting
    <2> QED
      BY <1>3, <2>1, <2>2
  <1>8. Waiting' \subseteq Waiting
    BY <1>4, <1>5, <1>6, <1>7 DEF Next
  <1> QED
    BY <1>2, <1>8

\* Where a list ends that is cut inside the line that was appended last.
LEMMA CutLine ==
    ASSUME NEW s \in Seq(Unit), NEW p \in Paths,
           NEW t \in Seq(Unit), Begins(t, s \o Line(p))
    PROVE  \/ Begins(t, s)
           \/ t = s \o Line(p)
           \/ /\ Terminated(t) = Terminated(s)
              /\ t[Len(t)] \in {U(p, "hash"), U(p, "name"), U(p, "rest")}
  <1> DEFINE u == s \o Line(p)  l == Len(s)  n == Len(Terminated(s))
  <1>1. l \in Nat /\ Len(t) \in Nat
    BY LenProperties
  <1>2. /\ u \in Seq(Unit) /\ Len(u) = l + 4
        /\ \A i \in 1 .. l : u[i] = s[i]
        /\ u[l + 1] = U(p, "hash") /\ u[l + 2] = U(p, "name") /\ u[l + 3] = U(p, "rest")
    <2>1. PICK a \in Seq(Unit) : /\ a = Line(p) /\ Len(a) = 4
                                 /\ a[1] = U(p, "hash") /\ a[2] = U(p, "name")
                                 /\ a[3] = U(p, "rest")
      BY LineUnits
    <2>2. /\ s \o a \in Seq(Unit) /\ Len(s \o a) = l + 4
          /\ \A i \in 1 .. l + 4 : (s \o a)[i] = IF i <= l THEN s[i] ELSE a[i - l]
      <3>1. /\ s \o a \in Seq(Unit) /\ Len(s \o a) = Len(s) + Len(a)
            /\ \A i \in 1 .. Len(s) + Len(a) :
                   (s \o a)[i] = IF i <= Len(s) THEN s[i] ELSE a[i - Len(s)]
        BY ConcatProperties
      <3> QED
        BY <2>1, <3>1
    <2>3. /\ l + 1 - l = 1 /\ l + 2 - l = 2 /\ l + 3 - l = 3
          /\ ~(l + 1 <= l) /\ ~(l + 2 <= l) /\ ~(l + 3 <= l)
          /\ l + 1 \in 1 .. l + 4 /\ l + 2 \in 1 .. l + 4 /\ l + 3 \in 1 .. l + 4
      BY <1>1
    <2>4. \A i \in 1 .. l : i \in 1 .. l + 4 /\ i <= l
      BY <1>1
    <2> QED
      BY <2>1, <2>2, <2>3, <2>4
  <1> HIDE DEF u
  <1>3. Len(t) <= l + 4 /\ \A i \in 1 .. Len(t) : t[i] = u[i]
    BY <1>2 DEF Begins, u
  <1>4. CASE Len(t) <= l
    BY <1>1, <1>2, <1>3, <1>4 DEF Begins
  <1>5. CASE Len(t) = l + 4
    BY <1>2, <1>3, <1>5, SeqEqual DEF u
  <1>6. CASE Len(t) \in l + 1 .. l + 3
    <2>1. /\ Terminated(s) \in Seq(Unit) /\ Begins(Terminated(s), s)
          /\ EndsInNewline(Terminated(s)) /\ \A m \in n + 1 .. l : s[m].part # "nl"
      BY TerminatedBegins
    <2>2. n \in 0 .. l /\ (n # 0 => Terminated(s) # <<>>)
      BY <1>1, <2>1, LenProperties, EmptySeq DEF Begins
    <2>3. n = 0 \/ t[n].part = "nl"
      <3> SUFFICES ASSUME n # 0 PROVE t[n].part = "nl"
        OBVIOUS
      <3>1. n \in 1 .. l /\ n \in 1 .. Len(t) /\ n \in 1 .. n
        BY <1>1, <1>6, <2>2
      <3>2. Terminated(s)[n].part = "nl" /\ Terminated(s)[n] = s[n]
        BY <2>1, <2>2, <3>1 DEF Begins, EndsInNewline
      <3> QED
        BY <1>2, <1>3, <3>1, <3>2
    <2> DEFINE T == Terminated(s)
    <2>4. T \in Seq(Unit) /\ Len(T) = n /\ \A i \in 1 .. n : T[i] = t[i]
      BY <1>1, <1>2, <1>3, <1>6, <2>1, <2>2 DEF Begins
    <2> HIDE DEF n, T
    <2>5. ASSUME NEW m \in n + 1 .. Len(t) PROVE t[m].part # "nl"
      <3>1. CASE m <= l
        <4>1. m \in n + 1 .. l /\ m \in 1 .. l /\ m \in 1 .. Len(t)
          BY <1>1, <2>2, <3>1
        <4> QED
          BY <1>2, <1>3, <2>1, <4>1
      <3>2. CASE ~(m <= l)
        <4>1. m \in 1 .. Len(t) /\ (m = l + 1 \/ m = l + 2 \/ m = l + 3)
          BY <1>1, <1>6, <2>2, <3>2
        <4> QED
          BY <1>2, <1>3, <4>1 DEF U
      <3> QED
        BY <3>1, <3>2
    <2>6. n \in 0 .. Len(t)
      BY <1>1, <1>6, <2>2
    <2>7. /\ Terminated(t) \in Seq(Unit) /\ Len(Terminated(t)) = n
          /\ \A i \in 1 .. n : Terminated(t)[i] = t[i]
      BY <2>3, <2>5, <2>6, TerminatedIs
    <2>8. Terminated(t) = T
      BY <2>4, <2>7, SeqEqual
    <2>9. Len(t) \in 1 .. Len(t) /\ (Len(t) = l + 1 \/ Len(t) = l + 2 \/ Len(t) = l + 3)
      BY <1>1, <1>6
    <2> QED
      BY <1>2, <1>3, <2>8, <2>9 DEF T
  <1> QED
    BY <1>1, <1>3, <1>4, <1>5, <1>6

\* The whole lines of such a list name no file twice.
LEMMA SoleLines ==
    ASSUME NEW s \in Seq(Unit), Sole(s),
           NEW e \in Entries(Terminated(s)), NEW f \in Entries(Terminated(s)),
           e.path = f.path, e.path \in Paths
    PROVE  e = f
  <1>1. Entries(Terminated(s)) \subseteq Entries(s)
    BY TerminatedBegins, WholeLinesKept
  <1> QED
    BY <1>1 DEF Sole

\* A line appended for a file that waits for it is the file's only one,
\* wherever the list is cut afterwards.
LEMMA AppendsOnce ==
    ASSUME NEW s \in Seq(Unit), NEW p \in Paths,
           \A t \in Seq(Unit) : Begins(t, s) => Sole(t),
           \A e \in Entries(Terminated(s)) : e.path # p
    PROVE  \A t \in Seq(Unit) : Begins(t, s \o Line(p)) => Sole(t)
  <1> SUFFICES ASSUME NEW t \in Seq(Unit), Begins(t, s \o Line(p)) PROVE Sole(t)
    OBVIOUS
  <1>1. Sole(s)
    BY BeginsItself
  <1>2. CASE Begins(t, s)
    BY <1>2
  <1>3. CASE t = s \o Line(p)
    <2> DEFINE n == Len(Terminated(s))
    <2>1. \A e \in Entries(t) :
              e \in Entries(Terminated(s)) \/ (e.at = n + 1 /\ e.path \in {p, NoPath})
      BY <1>3, AppendedEntries
    <2> HIDE DEF n
    <2>2. ASSUME NEW e \in Entries(t), NEW f \in Entries(t), e.path = f.path, e.path \in Paths
          PROVE  e = f
      <3>1. CASE e \in Entries(Terminated(s)) /\ f \in Entries(Terminated(s))
        BY <1>1, <2>2, <3>1, SoleLines
      <3>2. CASE e.at = n + 1 /\ f.at = n + 1
        BY <3>2, EntryByPlace
      <3>3. CASE e \in Entries(Terminated(s)) /\ f.path \in {p, NoPath}
        BY <2>2, <3>3, NoPathAssumption
      <3>4. CASE f \in Entries(Terminated(s)) /\ e.path \in {p, NoPath}
        BY <2>2, <3>4, NoPathAssumption
      <3> QED
        BY <2>1, <3>1, <3>2, <3>3, <3>4
    <2> QED
      BY <2>2 DEF Sole
  <1>4. CASE /\ Terminated(t) = Terminated(s)
             /\ t[Len(t)] \in {U(p, "hash"), U(p, "name"), U(p, "rest")}
    <2> SUFFICES ASSUME NEW e \in Entries(t), NEW f \in Entries(t),
                        e # f, e.path = f.path, e.path \in Paths
                 PROVE  /\ ~JsonOut /\ t[Len(t)].part = "name"
                        /\ ~({e, f} \subseteq Entries(Terminated(t)))
      BY DEF Sole
    <2>1. ~(e \in Entries(Terminated(t)) /\ f \in Entries(Terminated(t)))
      BY <1>1, <1>4, SoleLines
    <2>2. e \in Entries(Terminated(t)) \/ f \in Entries(Terminated(t))
      <3> SUFFICES ASSUME e \notin Entries(Terminated(t)), f \notin Entries(Terminated(t))
                   PROVE  FALSE
        OBVIOUS
      <3>1. e.at = f.at
        BY TornEntry
      <3> QED
        BY <3>1, EntryByPlace
    <2>3. e.path # p
      BY <1>4, <2>2
    <2>4. t[Len(t)] = U(e.path, "rest") \/ (~JsonOut /\ t[Len(t)].part = "name")
      BY <2>1, TornEntry
    <2>5. t[Len(t)] # U(e.path, "rest")
      BY <1>4, <2>3 DEF U
    <2> QED
      BY <2>1, <2>4, <2>5
  <1> QED
    BY <1>2, <1>3, <1>4, CutLine

LEMMA NextOnce == PoolInv /\ BufferInv /\ OnceInv /\ [Next]_vars => OnceInv'
  <1> SUFFICES ASSUME PoolInv, BufferInv, OnceInv, [Next]_vars
               PROVE  /\ \A s \in Seq(Unit) : Begins(s, Whole') => Sole(s)
                      /\ \A e \in Entries(Terminated(Whole')) : e.path \notin Waiting'
    BY DEF OnceInv, Sole
  <1>1. Whole \in Seq(Unit) /\ Whole' \in Seq(Unit)
    BY WholeTypeNext
  <1>2. CASE Start
    <2>1. Whole' = Whole /\ Whole' = disk
      BY <1>2, StartBegins DEF Begin
    <2>2. Waiting' \cap Listed(disk) = {} /\ Waiting' \subseteq Paths
      BY <1>2, WalksAssumption DEF Start, Pending, Waiting
    <2>3. Listed(Terminated(disk)) \subseteq Listed(disk)
      BY <1>1, <2>1, BeginsItself, TerminatedKept
    <2>4. \A e \in Entries(Terminated(disk)) : e.path \notin Waiting'
      BY <2>2, <2>3, NoPathAssumption DEF Listed
    <2> QED
      BY <2>1, <2>4 DEF OnceInv
  <1>3. CASE ~Start
    <2>1. (\E w \in Workers : Appends(w)) \/ Keeps \/ Cuts
      BY <1>3, WholeSteps DEF Begin
    <2>2. /\ Waiting' \subseteq Waiting
          /\ \A w \in Workers : Appends(w) => job[w] \notin Waiting'
      BY <1>3, WaitingShrinks
    <2>3. CASE Keeps
      BY <2>2, <2>3 DEF Keeps, OnceInv
    <2>4. CASE Cuts
      <3>1. Entries(Terminated(Whole')) \subseteq Entries(Terminated(Whole))
        BY <1>1, <2>4, TerminatedKept DEF Cuts
      <3>2. \A s \in Seq(Unit) : Begins(s, Whole') => Begins(s, Whole)
        BY <1>1, <2>4, BeginsOn DEF Cuts
      <3> QED
        BY <2>2, <3>1, <3>2 DEF OnceInv
    <2>5. ASSUME NEW w \in Workers, Appends(w)
          PROVE  /\ \A s \in Seq(Unit) : Begins(s, Whole') => Sole(s)
                 /\ \A e \in Entries(Terminated(Whole')) : e.path \notin Waiting'
      <3> DEFINE n == Len(Terminated(Whole))
      <3>1. /\ job[w] \in Paths /\ Whole' = Whole \o Line(job[w]) /\ pc[w] = "lock"
        BY <2>5, AppendsTypes DEF Appends
      <3>2. job[w] \in Waiting
        BY <3>1 DEF Waiting
      <3>3. /\ EndsInNewline(Whole')
            /\ \A e \in Entries(Whole') :
                   e \in Entries(Terminated(Whole)) \/ (e.at = n + 1 /\ e.path \in {job[w], NoPath})
        BY <1>1, <3>1, AppendedEntries
      <3>4. Terminated(Whole') = Whole'
        BY <1>1, <3>3, TerminatedBegins
      <3> HIDE DEF n
      <3>5. NoPath \notin Waiting'
        BY <2>2, WaitingTyped, NoPathAssumption DEF BufferInv, WaitingType
      <3>6. ASSUME NEW e \in Entries(Whole') PROVE e.path \notin Waiting'
        BY <2>2, <2>5, <3>3, <3>5 DEF OnceInv
      <3>7. \A e \in Entries(Terminated(Whole)) : e.path # job[w]
        BY <3>2 DEF OnceInv
      <3>8. \A s \in Seq(Unit) : Begins(s, Whole) => Sole(s)
        BY DEF OnceInv
      <3>9. \A s \in Seq(Unit) : Begins(s, Whole \o Line(job[w])) => Sole(s)
        BY <1>1, <3>1, <3>7, <3>8, AppendsOnce
      <3> QED
        BY <3>1, <3>4, <3>6, <3>9
    <2> QED
      BY <2>1, <2>3, <2>4, <2>5
  <1> QED
    BY <1>2, <1>3

\* No file is listed twice, whatever lines were torn or glued before, but by
\* a last line that is torn inside its path.
THEOREM NoDuplicates == Spec => []NoDuplicateEntries
  <1>1. BufferInv /\ OnceInv => NoDuplicateEntries
    <2> SUFFICES ASSUME BufferInv, OnceInv PROVE NoDuplicateEntries
      OBVIOUS
    <2>1. disk \in Seq(Unit) /\ Begins(disk, Whole)
      BY WholeType DEF BufferInv
    <2> QED
      BY <2>1 DEF OnceInv, Sole, NoDuplicateEntries
  <1>2. Init => OnceInv
    <2> SUFFICES ASSUME Init PROVE OnceInv
      OBVIOUS
    <2>1. Whole = <<>> /\ EndsInNewline(Whole) /\ Entries(Terminated(Whole)) = {}
      BY NoEntries
    <2>2. Terminated(Whole) = Whole
      BY <2>1, EmptySeq, TerminatedBegins
    <2>3. ASSUME NEW s \in Seq(Unit), Begins(s, Whole) PROVE Sole(s)
      <3>1. s = <<>>
        BY <2>1, <2>3, LenProperties, EmptySeq DEF Begins
      <3> QED
        BY <2>1, <2>2, <3>1 DEF Sole
    <2> QED
      BY <2>1, <2>3 DEF OnceInv
  <1> QED
    BY <1>1, <1>2, InitPoolInv, NextPoolInv, InitBufferInv, NextBufferInv, NextOnce, PTL DEF Spec

-----------------------------------------------------------------------------
(* A run that was given a whole list records every line it accepts.        *)

\* The files whose line WriteString has, or is spilling.
Taken == accepted \cup {job[w] : w \in {v \in Workers : pc[v] = "spill"}}

CompleteInv ==
    ~torn /\ ~werr /\ phase \in Alive => EndsInNewline(Whole) /\ Taken \subseteq Recorded(Whole)

\* Only a worker that appends its line takes a file.
LEMMA TakenByAppending ==
    ASSUME PoolInv, BufferInv, [Next]_vars, ~Start, phase' \in Alive, ~werr'
    PROVE  \/ Taken' \subseteq Taken
           \/ \E w \in Workers : Appends(w) /\ Taken' \subseteq Taken \cup {job[w]}
  <1> DEFINE Kept(w, l) == \A v \in Workers : pc'[v] = IF v = w THEN l ELSE pc[v]
  <1>1. ASSUME NEW w \in Workers, NEW l, Goto(w, l) PROVE Kept(w, l)
    BY <1>1 DEF Goto, PoolInv, WriterInv, TypeOK, PoolTypes
  <1>2. ASSUME NEW w \in Workers, WriteFits(w) \/ WriteOverflows(w)
        PROVE  Appends(w) /\ Taken' \subseteq Taken \cup {job[w]}
    <2>1. PICK l \in {"spill", "flush", "count"} : Goto(w, l)
      BY <1>2 DEF WriteFits, WriteOverflows, Accept
    <2>2. Kept(w, l) /\ job' = job /\ accepted' \subseteq accepted \cup {job[w]}
      BY <1>1, <1>2, <2>1 DEF WriteFits, WriteOverflows, Accept
    <2>3. Appends(w)
      BY <1>2, WritesAppend
    <2> QED
      BY <2>2, <2>3 DEF Taken
  <1>3. ASSUME NEW w \in Workers, Worker(w), ~(WriteFits(w) \/ WriteOverflows(w))
        PROVE  Taken' \subseteq Taken
    <2>1. CASE Spill(w)
      <3>1. PICK l \in {"flush", "count"} : Goto(w, l)
        BY <2>1 DEF Spill, Accept
      <3>2. Kept(w, l) /\ job' = job /\ pc[w] = "spill" /\ accepted' = accepted \cup {job[w]}
        BY <1>1, <2>1, <3>1 DEF Spill, Accept
      <3> QED
        BY <3>2 DEF Taken
    <2>2. CASE \/ Exit(w) \/ HashOk(w) \/ HashError(w) \/ SpillFails(w) \/ WriteRefused(w)
               \/ Flush(w) \/ FlushFails(w) \/ Sync(w)
      <3>1. PICK l \in {"exit", "lock", "count", "sync"} : Goto(w, l)
        BY <2>2 DEF Exit, HashOk, HashError, SpillFails, WriteRefused, Flush, FlushFails, Sync
      <3>2. Kept(w, l)
        BY <1>1, <3>1
      <3>3. job' = job /\ accepted' = accepted
        BY <2>2 DEF Exit, HashOk, HashError, SpillFails, WriteRefused, Flush, FlushFails, Sync
      <3> QED
        BY <3>2, <3>3 DEF Taken
    <2>3. CASE Send(w) \/ Count(w)
      <3>1. PICK l \in {"hash", "recv"} : Goto(w, l)
        BY <2>3 DEF Send, Count
      <3>2. Kept(w, l) /\ accepted' = accepted
        BY <1>1, <2>3, <3>1 DEF Send, Count
      <3>3. \A v \in Workers : v # w => job'[v] = job[v]
        BY <2>3 DEF Send, Handed, Count, PoolInv, WriterInv, TypeOK, PoolTypes
      <3> QED
        BY <3>2, <3>3 DEF Taken
    <2> QED
      BY <1>3, <2>1, <2>2, <2>3 DEF Worker
  <1>4. ASSUME OpenFails \/ WalkFails \/ Kill \/ PowerLoss PROVE FALSE
    BY <1>4 DEF OpenFails, WalkFails, Aborts, Kill, PowerLoss, Dies, Alive, Running
  <1>5. ASSUME Main \/ Done \/ UNCHANGED vars PROVE Taken' \subseteq Taken
    BY <1>5 DEF Main, CloseJobs, WaitReturns, FinalFlush, FinalSync, Done, vars, pool, Taken
  <1> QED
    BY <1>2, <1>3, <1>4, <1>5 DEF Next

LEMMA NextComplete == PoolInv /\ BufferInv /\ CompleteInv /\ [Next]_vars => CompleteInv'
  <1> SUFFICES ASSUME PoolInv, BufferInv, CompleteInv, [Next]_vars,
                      ~torn', ~werr', phase' \in Alive
               PROVE  EndsInNewline(Whole') /\ Taken' \subseteq Recorded(Whole')
    BY DEF CompleteInv
  <1>1. Whole \in Seq(Unit) /\ Whole' \in Seq(Unit)
    BY WholeTypeNext
  <1>2. CASE Start
    <2>1. EndsInNewline(Whole')
      BY <1>2, StartBegins DEF Begin, Start, Opened
    <2>2. Taken' = {}
      BY <1>2 DEF Start, FreshProcess, Taken
    <2> QED
      BY <2>1, <2>2
  <1>3. CASE ~Start
    <2>1. ~torn
      BY <1>3, HistoryKept
    <2>2. (\E w \in Workers : Appends(w)) \/ Keeps
      BY <1>3, WholeSteps DEF Begin, Cuts, Alive, Running
    <2>3. CASE \E w \in Workers : Appends(w) /\ Taken' \subseteq Taken \cup {job[w]}
      <3>1. PICK w \in Workers : Appends(w) /\ Taken' \subseteq Taken \cup {job[w]}
        BY <2>3
      <3>2. /\ job[w] \in Paths /\ phase \in Alive /\ Whole' = Whole \o Line(job[w]) /\ ~werr
        BY <3>1, AppendsTypes DEF Appends
      <3>3. EndsInNewline(Whole) /\ Taken \subseteq Recorded(Whole)
        BY <2>1, <3>2 DEF CompleteInv
      <3> DEFINE e == [at |-> Len(Terminated(Whole)) + 1, path |-> job[w], hash |-> job[w]]
      <3>4. EndsInNewline(Whole') /\ Begins(Whole, Whole') /\ e \in Entries(Whole')
        BY <1>1, <3>2, <3>3, AppendedEntries
      <3>5. e.path = job[w] /\ e.hash = job[w]
        OBVIOUS
      <3> HIDE DEF e
      <3>6. job[w] \in Recorded(Whole')
        BY <3>2, <3>4, <3>5, NoPathAssumption DEF Recorded
      <3>7. Recorded(Whole) \subseteq Recorded(Whole')
        BY <1>1, <3>3, <3>4, RecordedKept
      <3> QED
        BY <3>1, <3>3, <3>4, <3>6, <3>7
    <2>4. CASE Taken' \subseteq Taken
      <3>1. CASE Keeps
        BY <2>1, <2>4, <3>1 DEF Keeps, CompleteInv
      <3>2. ASSUME NEW w \in Workers, Appends(w)
            PROVE  EndsInNewline(Whole') /\ Taken' \subseteq Recorded(Whole')
        <4>1. /\ job[w] \in Paths /\ phase \in Alive /\ Whole' = Whole \o Line(job[w]) /\ ~werr
          BY <3>2, AppendsTypes DEF Appends
        <4>2. EndsInNewline(Whole) /\ Taken \subseteq Recorded(Whole)
          BY <2>1, <4>1 DEF CompleteInv
        <4>3. EndsInNewline(Whole') /\ Begins(Whole, Whole')
          BY <1>1, <4>1, AppendedEntries
        <4> QED
          BY <1>1, <2>4, <4>2, <4>3, RecordedKept
      <3> QED
        BY <2>2, <3>1, <3>2
    <2> QED
      BY <1>3, <2>3, <2>4, TakenByAppending
  <1> QED
    BY <1>2, <1>3

\* A run that ends without a write error on a list that was whole has recorded
\* every file it was to hash, but for those it logged an error for.
THEOREM CleanRunsComplete == Spec => []CleanRunCompletes
  <1>1. PoolInv /\ BufferInv /\ CompleteInv => CleanRunCompletes
    <2> SUFFICES ASSUME PoolInv, BufferInv, CompleteInv, phase = "ok", ~werr, ~torn
                 PROVE  paths \ logged \subseteq Recorded(disk)
      BY DEF CleanRunCompletes
    <2>1. todo = {} /\ AllExited
      BY DEF PoolInv, Drained, WriterInv, WriterExclusive, Ended
    <2>2. Undecided = {}
      BY <2>1 DEF AllExited, Undecided
    <2>3. paths \ logged \subseteq Taken
      BY <2>1, <2>2 DEF PoolInv, EachFileOnce, Taken
    <2>4. disk \o <<>> = disk
      BY WholeType, ConcatEmptySeq DEF BufferInv
    <2>5. Whole = disk
      BY <2>4 DEF BufferInv, Emptied, Ended, Whole
    <2> QED
      BY <2>3, <2>5 DEF CompleteInv, Alive
  <1>2. Init => CompleteInv
    BY DEF Init, CompleteInv, Alive, Running
  <1> QED
    BY <1>1, <1>2, InitPoolInv, NextPoolInv, InitBufferInv, NextBufferInv, NextComplete, PTL
       DEF Spec

-----------------------------------------------------------------------------
(* What a tear costs is restored: a run that appends a line ends the list  *)
(* in a newline again, and in JSONL an entry that can be read is true, so  *)
(* a file that has an entry and was not to be hashed is recorded.          *)

MendInv == phase \in Alive /\ ~werr /\ Taken # {} => EndsInNewline(Whole)

RepairInv ==
    JsonOut /\ phase \in Alive /\ ~werr /\ (Taken = {} \/ ~torn) =>
        walked \ paths \subseteq Recorded(Whole)

RepairAll == PoolInv /\ BufferInv /\ CompleteInv /\ MendInv /\ RepairInv

\* An entry of a JSONL list gives a file its own hash.
LEMMA JsonTrue ==
    ASSUME JsonOut, NEW s
    PROVE  Listed(s) = Recorded(s)
  <1>1. ASSUME NEW e \in Entries(s) PROVE e.path = e.hash
    <2>1. PICK i \in LineStarts(s) : \E f \in LineEntry(Raw(s, i)) :
              e = [at |-> i, path |-> f.path, hash |-> f.hash]
      BY EntryLines
    <2>2. PICK f \in JsonEntry(Raw(s, i)) : e = [at |-> i, path |-> f.path, hash |-> f.hash]
      BY <2>1 DEF LineEntry
    <2> QED
      BY <2>2 DEF JsonEntry
  <1> QED
    BY <1>1 DEF Listed, Recorded

\* While a run lasts and no write fails, what is taken stays taken, and the
\* run's own files stay what they are.
LEMMA TakenKept ==
    ASSUME PoolInv, BufferInv, [Next]_vars, ~Start, phase' \in Alive, ~werr'
    PROVE  /\ Taken \subseteq Taken'
           /\ \A w \in Workers : Appends(w) => job[w] \in Taken'
           /\ walked' = walked /\ paths' = paths /\ torn' = torn
  <1> DEFINE Kept(w, l) == \A v \in Workers : pc'[v] = IF v = w THEN l ELSE pc[v]
  <1>1. ASSUME NEW w \in Workers, NEW l, Goto(w, l) PROVE Kept(w, l) /\ pc'[w] = l
    BY <1>1 DEF Goto, PoolInv, WriterInv, TypeOK, PoolTypes
  <1>2. ASSUME NEW w \in Workers, WriteFits(w) \/ WriteOverflows(w) \/ Spill(w)
        PROVE  Taken \subseteq Taken' /\ job[w] \in Taken'
    <2>1. CASE WriteOverflows(w)
      <3>1. Kept(w, "spill") /\ pc'[w] = "spill" /\ job' = job /\ accepted' = accepted
        BY <1>1, <2>1 DEF WriteOverflows
      <3> QED
        BY <3>1 DEF Taken
    <2>2. CASE WriteFits(w) \/ Spill(w)
      <3>1. PICK l \in {"flush", "count"} : Goto(w, l)
        BY <2>2 DEF WriteFits, Spill, Accept
      <3>2. Kept(w, l) /\ job' = job /\ accepted' = accepted \cup {job[w]}
        BY <1>1, <2>2, <3>1 DEF WriteFits, Spill, Accept
      <3> QED
        BY <3>2 DEF Taken
    <2> QED
      BY <1>2, <2>1, <2>2
  <1>3. ASSUME NEW w \in Workers, Worker(w),
               ~(WriteFits(w) \/ WriteOverflows(w) \/ Spill(w))
        PROVE  Taken \subseteq Taken'
    <2>1. PICK l \in PCs : Goto(w, l)
      BY <1>3 DEF Worker, Send, Exit, HashOk, HashError, SpillFails, WriteRefused, Flush,
                  FlushFails, Sync, Count, PCs
    <2>2. Kept(w, l)
      BY <1>1, <2>1
    <2>3. pc[w] # "spill" /\ accepted' = accepted
      BY <1>3 DEF Worker, Send, Exit, HashOk, HashError, SpillFails, WriteFails, WriteRefused,
                  Flush, FlushFails, Sync, Count
    <2>4. \A v \in Workers : v # w => job'[v] = job[v]
      BY <1>3 DEF Worker, Send, Handed, Exit, HashOk, HashError, SpillFails, WriteRefused, Flush,
                  FlushFails, Sync, Count, PoolInv, WriterInv, TypeOK, PoolTypes
    <2> QED
      BY <2>2, <2>3, <2>4 DEF Taken
  <1>4. ASSUME OpenFails \/ WalkFails \/ Kill \/ PowerLoss PROVE FALSE
    BY <1>4 DEF OpenFails, WalkFails, Aborts, Kill, PowerLoss, Dies, Alive, Running
  <1>5. ASSUME Main \/ Done \/ UNCHANGED vars
        PROVE  Taken' = Taken /\ walked' = walked /\ paths' = paths
    BY <1>5 DEF Main, CloseJobs, WaitReturns, FinalFlush, FinalSync, Done, vars, pool, history,
                Taken
  <1>6. ASSUME NEW w \in Workers, Worker(w) PROVE walked' = walked /\ paths' = paths
    BY <1>6 DEF Worker, Send, Exit, HashOk, HashError, WriteFits, WriteOverflows, Spill,
                SpillFails, WriteRefused, Flush, FlushFails, Sync, Count, history
  <1>7. \A w \in Workers : Appends(w) => job[w] \in Taken'
    BY <1>2 DEF Appends
  <1>8. torn' = torn
    BY HistoryKept
  <1>9. Taken \subseteq Taken' /\ walked' = walked /\ paths' = paths
    BY <1>2, <1>3, <1>4, <1>5, <1>6 DEF Next
  <1> QED
    BY <1>7, <1>8, <1>9

LEMMA NextMend == PoolInv /\ BufferInv /\ MendInv /\ [Next]_vars => MendInv'
  <1> SUFFICES ASSUME PoolInv, BufferInv, MendInv, [Next]_vars,
                      phase' \in Alive, ~werr', Taken' # {}
               PROVE  EndsInNewline(Whole')
    BY DEF MendInv
  <1>1. Whole \in Seq(Unit)
    BY WholeTypeNext
  <1>2. ~Start
    BY DEF Start, FreshProcess, Taken
  <1>3. CASE \E w \in Workers : Appends(w)
    <2>1. PICK w \in Workers : Appends(w)
      BY <1>3
    <2>2. job[w] \in Paths /\ Whole' = Whole \o Line(job[w])
      BY <2>1, AppendsTypes DEF Appends
    <2> QED
      BY <1>1, <2>2, AppendedEntries
  <1>4. CASE Keeps /\ ~\E w \in Workers : Appends(w)
    <2>1. Taken' \subseteq Taken
      BY <1>2, <1>4, TakenByAppending
    <2> QED
      BY <1>4, <2>1 DEF Keeps, MendInv
  <1> QED
    BY <1>2, <1>3, <1>4, WholeSteps DEF Begin, Cuts, Alive, Running

LEMMA NextRepair == RepairAll /\ [Next]_vars => RepairInv'
  <1> SUFFICES ASSUME RepairAll, [Next]_vars,
                      JsonOut, phase' \in Alive, ~werr', Taken' = {} \/ ~torn'
               PROVE  walked' \ paths' \subseteq Recorded(Whole')
    BY DEF RepairInv
  <1> USE DEF RepairAll
  <1>1. Whole \in Seq(Unit) /\ Whole' \in Seq(Unit)
    BY WholeTypeNext
  <1>2. CASE Start
    <2>1. Whole' = disk
      BY <1>2, StartBegins DEF Begin
    <2>2. walked' \ paths' \subseteq Listed(disk)
      BY <1>2 DEF Start, Pending
    <2> QED
      BY <2>1, <2>2, JsonTrue
  <1>3. CASE ~Start
    <2>1. /\ Taken \subseteq Taken' /\ \A w \in Workers : Appends(w) => job[w] \in Taken'
          /\ walked' = walked /\ paths' = paths /\ torn' = torn
      BY <1>3, TakenKept
    <2>2. (\E w \in Workers : Appends(w)) \/ Keeps
      BY <1>3, WholeSteps DEF Begin, Cuts, Alive, Running
    <2>3. CASE Keeps
      BY <2>1, <2>3 DEF Keeps, RepairInv
    <2>4. ASSUME NEW w \in Workers, Appends(w) PROVE walked' \ paths' \subseteq Recorded(Whole')
      <3>1. /\ job[w] \in Paths /\ phase \in Alive /\ Whole' = Whole \o Line(job[w]) /\ ~werr
        BY <2>4, AppendsTypes DEF Appends
      <3>2. ~torn
        BY <2>1, <2>4
      <3>3. EndsInNewline(Whole) /\ walked \ paths \subseteq Recorded(Whole)
        BY <3>1, <3>2 DEF CompleteInv, RepairInv
      <3>4. Begins(Whole, Whole')
        BY <1>1, <3>1, AppendedEntries
      <3>5. Recorded(Whole) \subseteq Recorded(Whole')
        BY <1>1, <3>3, <3>4, RecordedKept
      <3> QED
        BY <2>1, <3>3, <3>5
    <2> QED
      BY <2>2, <2>3, <2>4
  <1> QED
    BY <1>2, <1>3

\* A tear is repaired: the run that appends to it leaves a whole list, and in
\* JSONL a run that is given a whole list, or has nothing to append, ends with
\* every file it found recorded, unless a write failed or an error was logged.
THEOREM TearIsRepaired == Spec => []SecondRunRepairs
  <1>1. RepairAll => SecondRunRepairs
    <2> SUFFICES ASSUME RepairAll, phase = "ok", ~werr
                 PROVE  /\ accepted # {} \/ ~torn => EndsInNewline(disk)
                        /\ JsonOut /\ (accepted = {} \/ ~torn) =>
                               walked \ logged \subseteq Recorded(disk)
      BY DEF SecondRunRepairs
    <2>1. todo = {} /\ AllExited
      BY DEF RepairAll, PoolInv, Drained, WriterInv, WriterExclusive, Ended
    <2>2. Undecided = {} /\ Taken = accepted
      BY <2>1 DEF AllExited, Undecided, Taken
    <2>3. paths \ logged \subseteq accepted
      BY <2>1, <2>2 DEF RepairAll, PoolInv, EachFileOnce
    <2>4. disk \o <<>> = disk
      BY WholeType, ConcatEmptySeq DEF RepairAll, BufferInv
    <2>5. Whole = disk
      BY <2>4 DEF RepairAll, BufferInv, Emptied, Ended, Whole
    <2>6. accepted # {} \/ ~torn => EndsInNewline(disk)
      BY <2>2, <2>5 DEF RepairAll, MendInv, CompleteInv, Alive
    <2>7. ASSUME JsonOut, accepted = {} \/ ~torn
          PROVE  walked \ logged \subseteq Recorded(disk)
      <3>1. walked \ paths \subseteq Recorded(disk)
        BY <2>2, <2>5, <2>7 DEF RepairAll, RepairInv, Alive
      <3>2. paths \ logged \subseteq Recorded(disk)
        BY <2>2, <2>3, <2>5, <2>7 DEF RepairAll, CompleteInv, Alive
      <3> QED
        BY <3>1, <3>2
    <2> QED
      BY <2>6, <2>7
  <1>2. Init => RepairAll
    BY InitPoolInv, InitBufferInv
       DEF RepairAll, Init, CompleteInv, MendInv, RepairInv, Alive, Running
  <1>3. RepairAll /\ [Next]_vars => RepairAll'
    BY NextPoolInv, NextBufferInv, NextComplete, NextMend, NextRepair DEF RepairAll
  <1> QED
    BY <1>1, <1>2, <1>3, PTL DEF Spec

-----------------------------------------------------------------------------
(* What a crash can cost: the lines accepted since the last sync, fewer    *)
(* than FlushInterval of them outside the critical section.                *)

Flushing == {w \in Workers : pc[w] \in {"flush", "sync"}}

LossInv ==
    ~torn /\ ~werr /\ phase \in Running =>
        /\ accepted \ unsynced \subseteq Recorded(Upto(disk, synced))
        /\ Flushing = {} => Cardinality(unsynced) <= lineCount % FlushInterval

LEMMA Remainder ==
    ASSUME NEW n \in Nat, NEW d \in Nat \ {0}
    PROVE  /\ n % d \in 0 .. d - 1
           /\ (n + 1) % d # 0 => (n + 1) % d = (n % d) + 1
  <1>1. n % d \in 0 .. d - 1
    OBVIOUS
  <1>2. PICK q \in Nat, r \in 0 .. d - 1 : n = q * d + r
    <2>1. n \div d \in Nat /\ n = (n \div d) * d + (n % d)
      OBVIOUS
    <2> QED
      BY <1>1, <2>1
  <1>3. \A p \in Nat, s \in 0 .. d - 1 : (p * d + s) % d = s
    OBVIOUS
  <1>4. n % d = r
    BY <1>2, <1>3
  <1>5. CASE r + 1 \in 0 .. d - 1
    <2>1. n + 1 = q * d + (r + 1)
      BY <1>2
    <2>2. (q * d + (r + 1)) % d = r + 1
      BY <1>3, <1>5
    <2> QED
      BY <1>1, <1>4, <2>1, <2>2
  <1>6. CASE r + 1 = d
    <2>1. n + 1 = (q + 1) * d + 0
      BY <1>2, <1>6
    <2>2. ((q + 1) * d + 0) % d = 0
      BY <1>3
    <2> QED
      BY <1>1, <2>1, <2>2
  <1> QED
    BY <1>5, <1>6

LEMMA SameSynced ==
    ASSUME WriterInv, Synced, [Next]_vars, ~PowerLoss, synced' = synced
    PROVE  Upto(disk', synced') = Upto(disk, synced)
  <1>1. disk \in Seq(Unit) /\ Len(disk) \in Nat /\ synced \in 0 .. Len(disk)
    BY LenProperties DEF WriterInv, TypeOK, FileTypes, Synced
  <1>2. disk' \in Seq(Unit) /\ Begins(disk, disk') /\ Len(disk') \in Nat
    BY DiskGrows, LenProperties
  <1>3. synced \in 0 .. Len(disk')
    BY <1>1, <1>2 DEF Begins
  <1>4. /\ Upto(disk, synced) \in Seq(Unit) /\ Upto(disk', synced) \in Seq(Unit)
        /\ Len(Upto(disk, synced)) = synced /\ Len(Upto(disk', synced)) = synced
    BY <1>1, <1>2, <1>3, UptoBegins
  <1>5. Begins(Upto(disk, synced), Upto(disk', synced))
    BY <1>1, <1>2, <1>3, UptoKept
  <1>6. Upto(disk, synced) = Upto(disk', synced)
    BY <1>4, <1>5, SeqEqual DEF Begins
  <1> QED
    BY <1>6

\* WriteString's success adds one to what is not synced, and one to the count
\* of lines; the count comes round exactly when the flush is due.
LEMMA AcceptLoss ==
    ASSUME BufferInv, LossInv, NEW w \in Workers, WriteFits(w) \/ Spill(w), ~torn
    PROVE  /\ accepted' \ unsynced' \subseteq accepted \ unsynced
           /\ Flushing' = {} => Cardinality(unsynced') <= lineCount' % FlushInterval
           /\ ~werr /\ phase \in Running
  <1>1. Accept(w) /\ ((pc[w] = "lock" /\ mu = NoWorker) \/ pc[w] = "spill")
    BY DEF WriteFits, Spill, MayEnter
  <1>2. ~werr /\ phase \in Running
    BY <1>1 DEF WriteFits, Spill, BufferInv, WritesWork, WriterInv, TypeOK, PoolTypes,
                WriterExclusive, AllExited
  <1>3. Flushing = {}
    <2>1. CASE mu = NoWorker
      BY <2>1, WorkersAssumption DEF BufferInv, WriterInv, WriterExclusive, Critical, Flushing
    <2>2. CASE pc[w] = "spill"
      <3>1. mu = w
        BY <2>2 DEF BufferInv, WriterInv, WriterExclusive, Critical
      <3> QED
        BY <2>2, <3>1 DEF BufferInv, WriterInv, WriterExclusive, Critical, Flushing
    <2> QED
      BY <1>1, <2>1, <2>2
  <1>4. accepted' \ unsynced' \subseteq accepted \ unsynced
    BY <1>1 DEF Accept
  <1>5. ASSUME Flushing' = {} PROVE Cardinality(unsynced') <= lineCount' % FlushInterval
    <2>1. lineCount \in Nat /\ lineCount' = lineCount + 1 /\ FlushInterval \in Nat \ {0}
      BY <1>1, FlushIntervalAssumption DEF Accept, BufferInv, WriterInv, TypeOK, WriterTypes
    <2>2. lineCount' % FlushInterval # 0
      <3> SUFFICES ASSUME FlushDue(lineCount') PROVE FALSE
        BY DEF FlushDue
      <3>1. pc'[w] = "flush"
        BY <1>1 DEF Accept, Goto, BufferInv, WriterInv, TypeOK, PoolTypes
      <3> QED
        BY <1>5, <3>1 DEF Flushing
    <2>3. Cardinality(unsynced) <= lineCount % FlushInterval
      BY <1>2, <1>3 DEF LossInv
    <2>4. unsynced' = unsynced \cup {job[w]} /\ IsFiniteSet(unsynced)
      <3>1. unsynced \in SUBSET Paths
        BY DEF BufferInv, WriterInv, TypeOK, HistoryTypes, PoolTypes
      <3> QED
        BY <1>1, <3>1, PathsAssumption, FS_Subset DEF Accept
    <2>5. Cardinality(unsynced) \in Nat /\ Cardinality(unsynced \cup {job[w]}) \in Nat
          /\ Cardinality(unsynced \cup {job[w]}) <= Cardinality(unsynced) + 1
      <3>1. /\ IsFiniteSet(unsynced \cup {job[w]})
            /\ Cardinality(unsynced \cup {job[w]})
                 = IF job[w] \in unsynced THEN Cardinality(unsynced)
                                          ELSE Cardinality(unsynced) + 1
        BY <2>4, FS_AddElement
      <3>2. Cardinality(unsynced) \in Nat
        BY <2>4, FS_CardinalityType
      <3> QED
        BY <3>1, <3>2
    <2>6. lineCount' % FlushInterval = (lineCount % FlushInterval) + 1
          /\ lineCount % FlushInterval \in Nat
      <3>1. (lineCount + 1) % FlushInterval # 0
        BY <2>1, <2>2
      <3>2. lineCount \in Nat /\ FlushInterval \in Nat \ {0}
        BY <2>1
      <3>3. /\ lineCount % FlushInterval \in 0 .. FlushInterval - 1
            /\ (lineCount + 1) % FlushInterval = (lineCount % FlushInterval) + 1
        BY <3>1, <3>2, Remainder
      <3> QED
        BY <2>1, <3>3
    <2> QED
      BY <2>3, <2>4, <2>5, <2>6
  <1> QED
    BY <1>2, <1>4, <1>5

LossAll == PoolInv /\ BufferInv /\ CompleteInv /\ Synced /\ LossInv

LEMMA NextLoss == LossAll /\ [Next]_vars => LossInv'
  <1> SUFFICES ASSUME LossAll, [Next]_vars, ~torn', ~werr', phase' \in Running
               PROVE  /\ accepted' \ unsynced' \subseteq Recorded(Upto(disk', synced'))
                      /\ Flushing' = {} => Cardinality(unsynced') <= lineCount' % FlushInterval
    BY DEF LossInv
  <1> USE DEF LossAll
  <1>1. CASE Start
    <2>1. accepted' = {} /\ unsynced' = {} /\ lineCount' = 0
      BY <1>1 DEF Start, FreshProcess
    <2>2. Cardinality(unsynced') = 0
      BY <2>1, FS_EmptySet
    <2>3. lineCount' % FlushInterval \in Nat
      BY <2>1, FlushIntervalAssumption, Remainder
    <2> QED
      BY <2>1, <2>2, <2>3
  <1>2. CASE ~Start
    <2>1. ~torn
      BY <1>2, HistoryKept
    <2>2. ~PowerLoss /\ ~Kill /\ ~OpenFails /\ ~WalkFails
      BY DEF PowerLoss, Kill, Dies, OpenFails, WalkFails, Aborts, Running
    <2>3. synced' = synced => Upto(disk', synced') = Upto(disk, synced)
      BY <2>2, SameSynced DEF BufferInv
    <2>4. ASSUME NEW w \in Workers, WriteFits(w) \/ Spill(w)
          PROVE  /\ accepted' \ unsynced' \subseteq Recorded(Upto(disk', synced'))
                 /\ Flushing' = {} => Cardinality(unsynced') <= lineCount' % FlushInterval
      <3>1. synced' = synced
        BY <2>4 DEF WriteFits, Spill, machine
      <3> QED
        BY <2>1, <2>3, <2>4, <3>1, AcceptLoss DEF LossInv
    <2>5. ASSUME NEW w \in Workers, Sync(w)
          PROVE  /\ accepted' \ unsynced' \subseteq Recorded(Upto(disk', synced'))
                 /\ Flushing' = {} => Cardinality(unsynced') <= lineCount' % FlushInterval
      <3>1. /\ pc[w] = "sync" /\ synced' = Len(disk) /\ disk' = disk /\ accepted' = accepted
            /\ werr' = werr /\ unsynced' = {} /\ lineCount' = lineCount
        BY <2>5 DEF Sync, SyncFile
      <3>2. disk \in Seq(Unit) /\ Len(disk) \in 0 .. Len(disk)
        BY WholeType, LenProperties DEF BufferInv
      <3>3. Upto(disk', synced') = disk
        BY <3>1, <3>2, UptoBegins
      <3>4. Whole = disk
        <4>1. buf = <<>>
          BY <3>1 DEF BufferInv, Emptied
        <4>2. disk \o <<>> = disk
          BY <3>2, ConcatEmptySeq
        <4> QED
          BY <4>1, <4>2 DEF Whole
      <3>5. phase \in Alive
        BY <3>1 DEF BufferInv, WriterInv, TypeOK, PoolTypes, WriterExclusive, AllExited, Alive
      <3>6. accepted \subseteq Recorded(disk)
        BY <2>1, <3>1, <3>4, <3>5 DEF CompleteInv, Taken
      <3>7. Cardinality(unsynced') = 0
        BY <3>1, FS_EmptySet
      <3>8. lineCount' % FlushInterval \in Nat
        <4>1. lineCount \in Nat
          BY DEF BufferInv, WriterInv, TypeOK, WriterTypes
        <4> QED
          BY <3>1, <4>1, FlushIntervalAssumption, Remainder
      <3> QED
        BY <3>1, <3>3, <3>6, <3>7, <3>8
    <2>6. ASSUME NEW w \in Workers, Worker(w), ~(WriteFits(w) \/ Spill(w) \/ Sync(w))
          PROVE  /\ accepted' \ unsynced' \subseteq Recorded(Upto(disk', synced'))
                 /\ Flushing' = {} => Cardinality(unsynced') <= lineCount' % FlushInterval
      <3>1. /\ accepted' = accepted /\ unsynced' = unsynced /\ lineCount' = lineCount
            /\ synced' = synced /\ phase' = phase
        BY <2>6 DEF Worker, Send, Exit, HashOk, HashError, WriteOverflows, SpillFails,
                    WriteRefused, Flush, FlushFails, Count, machine, writer
      <3>2. ~werr
        BY <2>6 DEF Worker, Send, Exit, HashOk, HashError, WriteOverflows, SpillFails,
                    WriteRefused, Flush, FlushFails, Count, writer, WriteFails
      <3>3. Flushing' = {} => Flushing = {}
        <4>1. PICK l \in {"hash", "exit", "lock", "count", "spill", "sync", "recv"} :
                  Goto(w, l) /\ (pc[w] \in {"flush", "sync"} => l = "sync")
          BY <2>6 DEF Worker, Send, Exit, HashOk, HashError, WriteOverflows, SpillFails,
                      WriteRefused, Flush, FlushFails, Count
        <4>2. \A v \in Workers : pc'[v] = IF v = w THEN l ELSE pc[v]
          BY <4>1 DEF Goto, BufferInv, WriterInv, TypeOK, PoolTypes
        <4> QED
          BY <4>1, <4>2 DEF Flushing
      <3> QED
        BY <2>1, <2>3, <3>1, <3>2, <3>3 DEF LossInv
    <2>7. CASE Main
      <3>1. /\ accepted' = accepted /\ unsynced' = unsynced /\ lineCount' = lineCount
            /\ synced' = synced /\ pc' = pc /\ phase \in Running /\ ~werr
        BY <2>7 DEF Main, CloseJobs, WaitReturns, FinalFlush, FinalSync, machine, pool, writer,
                    Running, WriteFails
      <3> QED
        BY <2>1, <2>3, <3>1 DEF LossInv, Flushing
    <2>8. CASE Done \/ UNCHANGED vars
      <3>1. /\ accepted' = accepted /\ unsynced' = unsynced /\ lineCount' = lineCount
            /\ synced' = synced /\ pc' = pc /\ phase' = phase /\ werr' = werr
        BY <2>8 DEF Done, vars, machine, pool, writer
      <3> QED
        BY <2>1, <2>3, <3>1 DEF LossInv, Flushing
    <2> QED
      BY <1>2, <2>2, <2>4, <2>5, <2>6, <2>7, <2>8 DEF Next
  <1> QED
    BY <1>1, <1>2

\* Outside the critical section fewer than FlushInterval of the lines a run
\* has accepted are not whole on the medium, on a list that was whole when it
\* was opened and with no write error.
THEOREM LossIsBounded == Spec => []LossBound
  <1>1. LossAll => LossBound
    <2> SUFFICES ASSUME LossAll, phase \in Running, mu = NoWorker, ~werr, ~torn
                 PROVE  Cardinality(accepted \ Recorded(Upto(disk, synced))) < FlushInterval
      BY DEF LossBound
    <2>1. Flushing = {}
      BY WorkersAssumption DEF LossAll, BufferInv, WriterInv, WriterExclusive, Critical, Flushing
    <2>2. /\ accepted \ unsynced \subseteq Recorded(Upto(disk, synced))
          /\ Cardinality(unsynced) <= lineCount % FlushInterval
      BY <2>1 DEF LossAll, LossInv
    <2>3. accepted \ Recorded(Upto(disk, synced)) \in SUBSET unsynced
      BY <2>2
    <2>4. IsFiniteSet(unsynced)
      <3>1. unsynced \in SUBSET Paths
        BY DEF LossAll, BufferInv, WriterInv, TypeOK, HistoryTypes, PoolTypes
      <3> QED
        BY <3>1, PathsAssumption, FS_Subset
    <2>5. /\ Cardinality(unsynced) \in Nat
          /\ Cardinality(accepted \ Recorded(Upto(disk, synced))) \in Nat
          /\ Cardinality(accepted \ Recorded(Upto(disk, synced))) <= Cardinality(unsynced)
      BY <2>3, <2>4, FS_Subset, FS_CardinalityType
    <2>6. lineCount % FlushInterval \in 0 .. FlushInterval - 1 /\ FlushInterval \in Nat
      <3>1. lineCount \in Nat
        BY DEF LossAll, BufferInv, WriterInv, TypeOK, WriterTypes
      <3> QED
        BY <3>1, FlushIntervalAssumption, Remainder
    <2> QED
      BY <2>2, <2>5, <2>6
  <1>2. Init => LossAll
    BY InitPoolInv, InitBufferInv, InitSynced
       DEF LossAll, Init, LossInv, CompleteInv, Alive, Running
  <1>3. LossAll /\ [Next]_vars => LossAll'
    BY NextPoolInv, NextBufferInv, NextComplete, SyncedKept, NextLoss DEF LossAll, BufferInv
  <1> QED
    BY <1>1, <1>2, <1>3, PTL DEF Spec
=============================================================================
