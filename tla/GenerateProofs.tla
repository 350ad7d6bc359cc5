--------------------------- MODULE GenerateProofs ---------------------------
(***************************************************************************)
(* Proofs about Generate, for any folder, any number of workers, any flush *)
(* interval and any buffer.                                                *)
(***************************************************************************)
EXTENDS Generate, FiniteSetTheorems, SequenceTheorems, TLAPS

-----------------------------------------------------------------------------
(* The list and the buffer stay sequences of units.                        *)

LEMMA LineType ==
    ASSUME NEW p \in Paths
    PROVE  Line(p) \in Seq(Unit) /\ Len(Line(p)) = LineLen
  <1>1. \A x \in Part : U(p, x) \in Unit
    BY DEF U, Unit
  <1>2. {"hash", "name", "rest", "nl"} = Part
    BY DEF Part
  <1> QED
    BY <1>1, <1>2 DEF Line, LineLen

\* A piece of a sequence, cut at any two places within it, is a sequence of
\* the same kind of elements, as long as the piece.
LEMMA PieceType ==
    ASSUME NEW S, NEW s \in Seq(S), NEW m \in Nat \ {0}, NEW n \in 0 .. Len(s)
    PROVE  /\ SubSeq(s, m, n) \in Seq(S)
           /\ Len(SubSeq(s, m, n)) = IF m <= n THEN n - m + 1 ELSE 0
           /\ \A i \in 1 .. n - m + 1 : SubSeq(s, m, n)[i] = s[m + i - 1]
  <1>1. \A i \in m .. n : s[i] \in S
    BY ElementOfSeq
  <1> QED
    BY <1>1, SubSeqProperties

\* A read that opens the list changes none of it.
LEMMA OpenedType == disk \in Seq(Unit) => Opened(disk) \in Seq(Unit)
  BY DEF Opened

-----------------------------------------------------------------------------
(* Type correctness and the exclusive use of the writer.  They are proved  *)
(* together: a write that fails hands over a part of the buffer, and that  *)
(* part is within the buffer only because a spilling worker, which owns    *)
(* mu, finds the buffer over its capacity.                                 *)

WriterInv == TypeOK /\ WriterExclusive

LEMMA InitWriterInv == Init => WriterInv
  <1> SUFFICES ASSUME Init PROVE WriterInv
    OBVIOUS
  <1>1. FileTypes
    BY EmptySeq DEF Init, FileTypes
  <1>2. PoolTypes
    BY DEF Init, PoolTypes, Ended, PCs, Busy
  <1>3. WriterTypes
    BY DEF Init, WriterTypes
  <1>4. HistoryTypes
    <2>1. torn \in BOOLEAN /\ everTorn \in BOOLEAN
      BY DEF Init
    <2>2. runs \in Nat
      BY DEF Init
    <2> QED
      BY <2>1, <2>2 DEF Init, HistoryTypes
  <1>5. WriterExclusive
    <2>1. Len(buf) = 0
      BY EmptySeq DEF Init
    <2> QED
      BY <2>1, BufCapAssumption DEF Init, WriterExclusive, Critical, AllExited, LineLen
  <1> QED
    BY <1>1, <1>2, <1>3, <1>4, <1>5 DEF WriterInv, TypeOK

\* A step that gives a run its process, or takes it away: no worker is inside
\* the pool's loop, and nothing is buffered.
LEMMA FreshInv ==
    ASSUME FreshProcess, NEW l \in {"recv", "exit"}, pc' = [w \in Workers |-> l],
           phase' \in Ended \cup Running,
           phase' \in Ended \cup {"flush", "sync"} => l = "exit",
           paths' \in SUBSET Paths, todo' \in SUBSET paths'
    PROVE  /\ buf' \in Seq(Unit) /\ PoolTypes' /\ WriterTypes' /\ WriterExclusive'
           /\ accepted' = {} /\ unsynced' = {} /\ logged' = {}
  <1>1. buf' \in Seq(Unit) /\ Len(buf') = 0
    BY EmptySeq DEF FreshProcess
  <1>2. PoolTypes'
    BY DEF FreshProcess, PoolTypes, PCs, Busy
  <1>3. WriterTypes'
    BY DEF FreshProcess, WriterTypes
  <1>4. WriterExclusive'
    BY <1>1, BufCapAssumption DEF WriterExclusive, Critical, AllExited, LineLen
  <1> QED
    BY <1>1, <1>2, <1>3, <1>4 DEF FreshProcess

\* A worker that moves within its loop keeps its file.
LEMMA MoveTypes ==
    ASSUME PoolTypes, NEW w \in Busy, NEW l \in PCs, Goto(w, l),
           UNCHANGED <<phase, paths, todo, job>>
    PROVE  PoolTypes'
  BY DEF PoolTypes, Goto, Busy

\* A worker that moves outside the critical section disturbs nobody inside.
LEMMA MoveExclusive ==
    ASSUME PoolTypes, WriterExclusive, NEW w \in Workers, NEW l \in PCs, Goto(w, l),
           pc[w] \notin {"spill", "flush", "sync", "exit"},
           l \notin {"spill", "flush", "sync"},
           UNCHANGED <<phase, mu, buf>>
    PROVE  WriterExclusive'
  <1>1. \A v \in Workers : pc'[v] = IF v = w THEN l ELSE pc[v]
    BY DEF PoolTypes, Goto
  <1>2. phase \notin Ended \cup {"flush", "sync"}
    BY DEF WriterExclusive, AllExited
  <1>3. Critical' = Critical
    BY <1>1 DEF Critical
  <1>4. (\E v \in Workers : pc'[v] = "spill") <=> \E v \in Workers : pc[v] = "spill"
    BY <1>1
  <1> QED
    BY <1>2, <1>3, <1>4 DEF WriterExclusive

\* What WriteString's success does, once the buffer is within its capacity.
LEMMA AcceptInv ==
    ASSUME WriterInv, NEW w \in Workers, Accept(w),
           \/ pc[w] = "lock" /\ mu = NoWorker
           \/ pc[w] = "spill",
           Len(buf') <= BufCap,
           UNCHANGED <<phase, paths, todo, job, werr, processedCount,
                       history, logged>>
    PROVE  PoolTypes' /\ WriterTypes' /\ HistoryTypes' /\ WriterExclusive'
  <1>1. w \in Busy /\ job[w] \in paths
    BY DEF WriterInv, TypeOK, PoolTypes, Busy
  <1>2. Critical \subseteq {w}
    <2>1. CASE pc[w] = "spill"
      <3>1. mu = w
        BY <2>1 DEF WriterInv, WriterExclusive, Critical
      <3> QED
        BY <3>1 DEF WriterInv, WriterExclusive
    <2>2. CASE mu = NoWorker
      BY <2>2, WorkersAssumption DEF WriterInv, WriterExclusive, Critical
    <2> QED
      BY <2>1, <2>2
  <1>3. PICK l \in {"flush", "count"} : Goto(w, l) /\ mu' = IF l = "flush" THEN w ELSE NoWorker
    BY DEF Accept
  <1>4. PoolTypes'
    BY <1>1, <1>3, MoveTypes DEF WriterInv, TypeOK, PCs
  <1>5. WriterTypes'
    <2>1. lineCount' \in Nat /\ processedCount' \in Nat /\ mu' \in Workers \cup {NoWorker}
      BY <1>3 DEF WriterInv, TypeOK, WriterTypes, Accept
    <2> QED
      BY <2>1 DEF WriterInv, TypeOK, WriterTypes
  <1>6. HistoryTypes'
    BY <1>1 DEF WriterInv, TypeOK, HistoryTypes, Accept, history
  <1>7. WriterExclusive'
    <2>1. \A v \in Workers : pc'[v] = IF v = w THEN l ELSE pc[v]
      BY <1>3 DEF WriterInv, TypeOK, PoolTypes, Goto
    <2>2. \A v \in Critical' : v = w /\ l = "flush"
      BY <1>2, <2>1 DEF Critical
    <2>3. \A v \in Workers : pc'[v] # "spill"
      BY <1>2, <2>1 DEF Critical
    <2>4. phase \notin Ended \cup {"flush", "sync"}
      BY DEF WriterInv, WriterExclusive, AllExited
    <2>5. Len(buf') <= BufCap + LineLen /\ ~(Len(buf') > BufCap)
      <3>1. Len(buf) \in Nat
        BY LenProperties DEF WriterInv, TypeOK, FileTypes
      <3> QED
        BY BufCapAssumption DEF LineLen
    <2> QED
      BY <1>3, <2>2, <2>3, <2>4, <2>5 DEF WriterExclusive
  <1> QED
    BY <1>4, <1>5, <1>6, <1>7

\* A write(2) that fails hands over a prefix of the buffer.
LEMMA WriteFailsTypes ==
    ASSUME FileTypes, NEW n \in 0 .. Len(buf), NEW k \in 0 .. n, WriteFails(k, n), UNCHANGED synced
    PROVE  FileTypes' /\ werr' \in BOOLEAN /\ Len(buf') = n - k
  <1>1. Len(buf) \in Nat
    BY LenProperties DEF FileTypes
  <1>2. SubSeq(buf, 1, k) \in Seq(Unit)
    BY <1>1, PieceType DEF FileTypes
  <1>3. SubSeq(buf, k + 1, n) \in Seq(Unit) /\ Len(SubSeq(buf, k + 1, n)) = n - k
    BY <1>1, PieceType DEF FileTypes
  <1>4. disk' \in Seq(Unit)
    BY <1>2, ConcatProperties DEF FileTypes, WriteFails
  <1>5. werr' \in BOOLEAN
    BY DEF WriteFails
  <1> QED
    BY <1>3, <1>4, <1>5 DEF FileTypes, WriteFails

\* A worker that leaves the critical section releases mu, and one that moves
\* on within it keeps mu.
LEMMA CriticalMove ==
    ASSUME WriterInv, NEW w \in Critical, NEW l \in {"sync", "count"}, Goto(w, l),
           mu' = IF l = "sync" THEN w ELSE NoWorker,
           Len(buf') <= BufCap,
           UNCHANGED phase
    PROVE  WriterExclusive'
  <1>1. Critical \subseteq {w} /\ w \in Workers
    BY DEF WriterInv, WriterExclusive, Critical
  <1>2. \A v \in Workers : pc'[v] = IF v = w THEN l ELSE pc[v]
    BY DEF WriterInv, TypeOK, PoolTypes, Goto
  <1>3. \A v \in Critical' : v = w /\ l = "sync"
    BY <1>1, <1>2 DEF Critical
  <1>4. \A v \in Workers : pc'[v] # "spill"
    BY <1>1, <1>2 DEF Critical
  <1>5. phase \notin Ended \cup {"flush", "sync"}
    BY <1>1 DEF WriterInv, WriterExclusive, AllExited, Critical
  <1> QED
    BY <1>3, <1>4, <1>5, BufCapAssumption DEF WriterExclusive, LineLen

-----------------------------------------------------------------------------
(* One step per action.                                                    *)

LEMMA EnvironmentWriterInv ==
    ASSUME WriterInv, Start \/ OpenFails \/ WalkFails \/ Kill \/ PowerLoss
    PROVE  WriterInv'
  <1> USE DEF WriterInv, TypeOK
  <1>1. CASE Start
    <2>1. paths' \in SUBSET Paths /\ walked' \in SUBSET Paths /\ todo' \in SUBSET paths'
      BY <1>1, WalksAssumption DEF Start, Pending
    <2>2. /\ buf' \in Seq(Unit) /\ PoolTypes' /\ WriterTypes' /\ WriterExclusive'
          /\ accepted' = {} /\ unsynced' = {} /\ logged' = {}
      BY <1>1, <2>1, FreshInv DEF Start, Running, Ended
    <2>3. FileTypes'
      BY <1>1, <2>2 DEF FileTypes, Start, Opened
    <2>4. torn' \in BOOLEAN /\ everTorn' \in BOOLEAN
      BY <1>1 DEF Start, HistoryTypes, EndsInNewline
    <2>5. HistoryTypes'
      BY <1>1, <2>1, <2>2, <2>4 DEF HistoryTypes, Start
    <2> QED
      BY <2>2, <2>3, <2>5
  <1>2. CASE OpenFails \/ WalkFails
    <2>1. /\ buf' \in Seq(Unit) /\ PoolTypes' /\ WriterTypes' /\ WriterExclusive'
          /\ accepted' = {} /\ unsynced' = {} /\ logged' = {}
      BY <1>2, FreshInv DEF OpenFails, WalkFails, Aborts, Ended
    <2>2. FileTypes'
      BY <1>2, <2>1, LenProperties DEF FileTypes, OpenFails, WalkFails, Aborts
    <2>3. HistoryTypes'
      BY <1>2, <2>1 DEF HistoryTypes, OpenFails, WalkFails, Aborts
    <2> QED
      BY <2>1, <2>2, <2>3
  <1>3. CASE Kill \/ PowerLoss
    <2>1. /\ buf' \in Seq(Unit) /\ PoolTypes' /\ WriterTypes' /\ WriterExclusive'
          /\ accepted' = {} /\ unsynced' = {} /\ logged' = {}
      BY <1>3, FreshInv DEF Kill, PowerLoss, Dies, Ended
    <2>2. HistoryTypes'
      BY <1>3, <2>1 DEF HistoryTypes, Kill, PowerLoss, Dies
    <2>3. disk' \in Seq(Unit) /\ synced' \in Nat
      <3>1. CASE Kill
        <4>1. PICK k \in 0 .. InFlight : disk' = disk \o SubSeq(buf, 1, k)
          BY <3>1 DEF Kill
        <4>2. InFlight \in 0 .. Len(buf)
          <5>1. Len(buf) \in Nat
            BY LenProperties DEF FileTypes
          <5> QED
            BY <5>1, BufCapAssumption DEF InFlight, WriterExclusive
        <4>3. SubSeq(buf, 1, k) \in Seq(Unit)
          BY <4>2, PieceType DEF FileTypes
        <4> QED
          BY <3>1, <4>1, <4>3, ConcatProperties DEF FileTypes, Kill
      <3>2. CASE PowerLoss
        <4>1. PICK n \in synced .. Len(disk) : disk' = Upto(disk, n) /\ synced' = n
          BY <3>2 DEF PowerLoss
        <4>2. n \in 0 .. Len(disk)
          BY LenProperties DEF FileTypes
        <4> QED
          BY <4>1, <4>2, PieceType DEF FileTypes, Upto
      <3> QED
        BY <1>3, <3>1, <3>2
    <2> QED
      BY <2>1, <2>2, <2>3 DEF FileTypes
  <1> QED
    BY <1>1, <1>2, <1>3

LEMMA MainWriterInv ==
    ASSUME WriterInv, Main
    PROVE  WriterInv'
  <1> USE DEF WriterInv, TypeOK
  <1>1. CASE CloseJobs
    <2>1. PoolTypes' /\ WriterExclusive'
      BY <1>1 DEF CloseJobs, pool, writer, PoolTypes, WriterExclusive, Busy, Running, Ended,
                  Critical, AllExited
    <2> QED
      BY <1>1, <2>1 DEF CloseJobs, machine, pool, writer, history,
                        FileTypes, WriterTypes, HistoryTypes
  <1>2. CASE WaitReturns
    <2>1. PoolTypes' /\ WriterExclusive'
      BY <1>2 DEF WaitReturns, pool, writer, PoolTypes, WriterExclusive, Busy, Running,
                  Critical, AllExited
    <2> QED
      BY <1>2, <2>1 DEF WaitReturns, machine, pool, writer, history,
                        FileTypes, WriterTypes, HistoryTypes
  <1>3. CASE FinalFlush
    <2>1. Len(buf) \in 0 .. BufCap /\ AllExited
      <3>1. Len(buf) \in Nat
        BY LenProperties DEF FileTypes
      <3> QED
        BY <1>3, <3>1, BufCapAssumption DEF FinalFlush, WriterExclusive, AllExited
    <2>2. FileTypes' /\ werr' \in BOOLEAN /\ Len(buf') <= Len(buf)
      <3>1. CASE UNCHANGED <<disk, buf, werr>>
        BY <1>3, <2>1, <3>1 DEF FinalFlush, FileTypes, WriterTypes
      <3>2. CASE disk' = disk \o buf /\ buf' = <<>> /\ UNCHANGED werr
        BY <1>3, <2>1, <3>2, ConcatProperties, EmptySeq DEF FinalFlush, FileTypes, WriterTypes
      <3>3. CASE \E k \in 0 .. Len(buf) - 1 : WriteFails(k, Len(buf))
        <4>1. PICK k \in 0 .. Len(buf) - 1 : WriteFails(k, Len(buf))
          BY <3>3
        <4>2. Len(buf) \in 0 .. Len(buf) /\ k \in 0 .. Len(buf)
          BY <2>1
        <4> QED
          BY <1>3, <2>1, <4>1, <4>2, WriteFailsTypes DEF FinalFlush
      <3> QED
        BY <1>3, <3>1, <3>2, <3>3 DEF FinalFlush
    <2>3. PoolTypes'
      BY <1>3 DEF FinalFlush, pool, PoolTypes, Busy, Running
    <2>4. WriterExclusive'
      <3>1. Len(buf') \in Nat /\ Len(buf') <= BufCap
        BY <2>1, <2>2, LenProperties, BufCapAssumption DEF FileTypes
      <3> QED
        BY <1>3, <2>1, <3>1, BufCapAssumption DEF FinalFlush, pool, WriterExclusive, Critical,
                                                  AllExited, LineLen
    <2> QED
      BY <1>3, <2>2, <2>3, <2>4 DEF FinalFlush, history, pool, WriterTypes, HistoryTypes
  <1>4. CASE FinalSync
    <2>1. PoolTypes' /\ WriterExclusive'
      BY <1>4 DEF FinalSync, pool, writer, PoolTypes, WriterExclusive, Busy, Ended,
                  Critical, AllExited
    <2>2. FileTypes' /\ WriterTypes'
      BY <1>4, LenProperties DEF FinalSync, SyncFile, writer, FileTypes, WriterTypes
    <2>3. HistoryTypes'
      BY <1>4 DEF FinalSync, SyncFile, pool, history, HistoryTypes
    <2> QED
      BY <2>1, <2>2, <2>3
  <1> QED
    BY <1>1, <1>2, <1>3, <1>4 DEF Main

LEMMA WorkerWriterInv ==
    ASSUME WriterInv, NEW w \in Workers, Worker(w)
    PROVE  WriterInv'
  <1> USE DEF WriterInv, TypeOK
  <1>1. CASE Send(w)
    <2>1. PICK p \in todo : todo' = todo \ {p} /\ job' = [job EXCEPT ![w] = p]
      BY <1>1 DEF Send, Handed
    <2>2. PoolTypes'
      BY <1>1, <2>1 DEF Send, Goto, PoolTypes, PCs, Busy
    <2>3. WriterExclusive'
      BY <1>1, MoveExclusive DEF Send, writer, PCs
    <2> QED
      BY <1>1, <2>2, <2>3 DEF Send, machine, writer, history, FileTypes, WriterTypes, HistoryTypes
  <1>2. CASE Exit(w)
    <2>1. PoolTypes'
      BY <1>2 DEF Exit, JobsClosed, Goto, PoolTypes, PCs, Busy
    <2>2. WriterExclusive'
      BY <1>2, MoveExclusive DEF Exit, writer, PCs
    <2> QED
      BY <1>2, <2>1, <2>2 DEF Exit, machine, writer, history, FileTypes, WriterTypes, HistoryTypes
  <1>3. CASE HashOk(w)
    <2>1. PoolTypes' /\ WriterExclusive'
      BY <1>3, MoveTypes, MoveExclusive DEF HashOk, writer, PCs, Busy
    <2> QED
      BY <1>3, <2>1 DEF HashOk, machine, writer, history, FileTypes, WriterTypes, HistoryTypes
  <1>4. CASE HashError(w)
    <2>1. PoolTypes' /\ WriterExclusive'
      BY <1>4, MoveTypes, MoveExclusive DEF HashError, writer, PCs, Busy
    <2>2. HistoryTypes'
      BY <1>4 DEF HashError, PoolTypes, HistoryTypes, history, Busy
    <2> QED
      BY <1>4, <2>1, <2>2 DEF HashError, machine, writer, FileTypes, WriterTypes
  <1>5. CASE WriteFits(w)
    <2>1. Line(job[w]) \in Seq(Unit) /\ Len(Line(job[w])) = LineLen
      BY <1>5, LineType DEF WriteFits, PoolTypes, Busy
    <2>2. FileTypes' /\ Len(buf') <= BufCap
      BY <1>5, <2>1, ConcatProperties DEF WriteFits, FileTypes, machine
    <2>3. PoolTypes' /\ WriterTypes' /\ HistoryTypes' /\ WriterExclusive'
      BY <1>5, <2>2, AcceptInv DEF WriteFits, MayEnter
    <2> QED
      BY <2>2, <2>3
  <1>6. CASE WriteOverflows(w)
    <2>1. Line(job[w]) \in Seq(Unit) /\ Len(Line(job[w])) = LineLen
      BY <1>6, LineType DEF WriteOverflows, PoolTypes, Busy
    <2>2. FileTypes' /\ Len(buf') = Len(buf) + LineLen
      BY <1>6, <2>1, ConcatProperties DEF WriteOverflows, FileTypes, machine
    <2>3. PoolTypes'
      BY <1>6, MoveTypes DEF WriteOverflows, PCs, Busy
    <2>4. WriterExclusive'
      <3>1. \A v \in Workers : pc'[v] = IF v = w THEN "spill" ELSE pc[v]
        BY <1>6 DEF WriteOverflows, Goto, PoolTypes
      <3>2. Critical = {}
        BY <1>6, WorkersAssumption DEF WriteOverflows, MayEnter, WriterExclusive, Critical
      <3>3. \A v \in Critical' : v = w
        BY <3>1, <3>2 DEF Critical
      <3>4. phase \notin Ended \cup {"flush", "sync"}
        BY <1>6 DEF WriteOverflows, WriterExclusive, AllExited
      <3>5. Len(buf) \in Nat /\ Len(buf) <= BufCap
        BY <3>2, LenProperties, BufCapAssumption DEF FileTypes, WriterExclusive, Critical
      <3> QED
        BY <1>6, <2>2, <3>1, <3>3, <3>4, <3>5, BufCapAssumption
           DEF WriteOverflows, WriterExclusive, LineLen
    <2>5. WriterTypes' /\ HistoryTypes'
      BY <1>6 DEF WriteOverflows, history, WriterTypes, HistoryTypes
    <2> QED
      BY <2>2, <2>3, <2>4, <2>5
  <1>7. CASE Spill(w)
    <2>1. Len(buf) \in BufCap + 1 .. BufCap + LineLen
      <3>1. Len(buf) \in Nat
        BY LenProperties DEF FileTypes
      <3> QED
        BY <1>7, <3>1, BufCapAssumption DEF Spill, WriterExclusive, LineLen
    <2>2. SubSeq(buf, 1, BufCap) \in Seq(Unit)
      BY <2>1, PieceType, BufCapAssumption DEF FileTypes
    <2>3. buf' \in Seq(Unit) /\ Len(buf') = Len(buf) - BufCap
      BY <1>7, <2>1, PieceType, BufCapAssumption DEF FileTypes, Spill
    <2>4. FileTypes' /\ Len(buf') <= BufCap
      BY <1>7, <2>1, <2>2, <2>3, ConcatProperties, BufCapAssumption DEF FileTypes, Spill, LineLen
    <2>5. PoolTypes' /\ WriterTypes' /\ HistoryTypes' /\ WriterExclusive'
      BY <1>7, <2>4, AcceptInv DEF Spill
    <2> QED
      BY <2>4, <2>5
  <1>8. CASE SpillFails(w)
    <2>1. PICK k \in 0 .. BufCap - 1 : WriteFails(k, BufCap)
      BY <1>8 DEF SpillFails
    <2>2. Len(buf) \in BufCap + 1 .. BufCap + LineLen
      <3>1. Len(buf) \in Nat
        BY LenProperties DEF FileTypes
      <3> QED
        BY <1>8, <3>1, BufCapAssumption DEF SpillFails, WriterExclusive, LineLen
    <2>3. FileTypes' /\ werr' \in BOOLEAN /\ Len(buf') <= BufCap
      BY <1>8, <2>1, <2>2, WriteFailsTypes, BufCapAssumption DEF SpillFails
    <2>4. PoolTypes'
      BY <1>8, MoveTypes DEF SpillFails, PCs, Busy
    <2>5. WriterExclusive'
      BY <1>8, <2>3, CriticalMove DEF SpillFails, Critical
    <2> QED
      BY <1>8, <2>3, <2>4, <2>5 DEF SpillFails, history, WriterTypes, HistoryTypes
  <1>9. CASE WriteRefused(w)
    <2>1. PoolTypes' /\ WriterExclusive'
      BY <1>9, MoveTypes, MoveExclusive DEF WriteRefused, writer, PCs, Busy
    <2> QED
      BY <1>9, <2>1 DEF WriteRefused, machine, writer, history, FileTypes, WriterTypes, HistoryTypes
  <1>10. CASE Flush(w)
    <2>1. FileTypes' /\ Len(buf') <= BufCap
      BY <1>10, ConcatProperties, EmptySeq, BufCapAssumption DEF Flush, FileTypes
    <2>2. PoolTypes' /\ WriterExclusive'
      <3>1. mu = w
        BY <1>10 DEF Flush, WriterExclusive, Critical
      <3> QED
        BY <1>10, <2>1, <3>1, MoveTypes, CriticalMove DEF Flush, PCs, Busy, Critical
    <2> QED
      BY <1>10, <2>1, <2>2 DEF Flush, history, WriterTypes, HistoryTypes
  <1>11. CASE FlushFails(w)
    <2>1. PICK k \in 0 .. Len(buf) - 1 : WriteFails(k, Len(buf))
      BY <1>11 DEF FlushFails
    <2>2. Len(buf) \in 0 .. BufCap /\ mu = w
      <3>1. Len(buf) \in Nat /\ mu = w
        BY <1>11, LenProperties DEF FlushFails, FileTypes, WriterExclusive, Critical
      <3>2. \A v \in Workers : pc[v] # "spill"
        BY <1>11, <3>1 DEF FlushFails, WriterExclusive, Critical
      <3> QED
        BY <3>1, <3>2, BufCapAssumption DEF WriterExclusive
    <2>3. FileTypes' /\ werr' \in BOOLEAN /\ Len(buf') <= BufCap
      <3>1. Len(buf) \in 0 .. Len(buf) /\ k \in 0 .. Len(buf)
        BY <2>1, <2>2, BufCapAssumption
      <3> QED
        BY <1>11, <2>1, <2>2, <3>1, WriteFailsTypes, BufCapAssumption DEF FlushFails
    <2>4. PoolTypes' /\ WriterExclusive'
      BY <1>11, <2>2, <2>3, MoveTypes, CriticalMove DEF FlushFails, PCs, Busy, Critical
    <2> QED
      BY <1>11, <2>3, <2>4 DEF FlushFails, history, WriterTypes, HistoryTypes
  <1>12. CASE Sync(w)
    <2>1. FileTypes'
      BY <1>12, LenProperties DEF Sync, SyncFile, FileTypes
    <2>2. Len(buf) <= BufCap
      <3>1. \A v \in Workers : pc[v] # "spill"
        BY <1>12 DEF Sync, WriterExclusive, Critical
      <3> QED
        BY <3>1, LenProperties, BufCapAssumption DEF FileTypes, WriterExclusive
    <2>3. PoolTypes' /\ WriterExclusive'
      BY <1>12, <2>2, MoveTypes, CriticalMove DEF Sync, PCs, Busy, Critical
    <2> QED
      BY <1>12, <2>1, <2>3 DEF Sync, SyncFile, history, WriterTypes, HistoryTypes
  <1>13. CASE Count(w)
    <2>1. PoolTypes'
      BY <1>13 DEF Count, Goto, PoolTypes, PCs, Busy
    <2>2. WriterExclusive'
      BY <1>13, MoveExclusive DEF Count, writer, PCs
    <2> QED
      BY <1>13, <2>1, <2>2 DEF Count, machine, writer, history, FileTypes, WriterTypes, HistoryTypes
  <1> QED
    BY <1>1, <1>2, <1>3, <1>4, <1>5, <1>6, <1>7, <1>8, <1>9, <1>10, <1>11, <1>12, <1>13 DEF Worker

LEMMA NextWriterInv == WriterInv /\ [Next]_vars => WriterInv'
  <1> SUFFICES ASSUME WriterInv, [Next]_vars PROVE WriterInv'
    OBVIOUS
  <1>1. CASE Start \/ OpenFails \/ WalkFails \/ Kill \/ PowerLoss
    BY <1>1, EnvironmentWriterInv
  <1>2. CASE \E w \in Workers : Worker(w)
    BY <1>2, WorkerWriterInv
  <1>3. CASE Main
    BY <1>3, MainWriterInv
  <1>4. CASE Done \/ UNCHANGED vars
    BY <1>4 DEF Done, vars, machine, pool, writer, history, WriterInv, TypeOK, WriterExclusive,
                FileTypes, PoolTypes, WriterTypes, HistoryTypes, Busy, Critical, AllExited
  <1> QED
    BY <1>1, <1>2, <1>3, <1>4 DEF Next

\* Every run keeps its variables within their types: the list and the buffer
\* are sequences of units, and a worker in the loop holds a file of this run.
THEOREM TypeCorrect == Spec => []TypeOK
  <1>1. WriterInv => TypeOK
    BY DEF WriterInv
  <1> QED
    BY <1>1, InitWriterInv, NextWriterInv, PTL DEF Spec

\* The critical section excludes: one worker at a time writes, flushes and
\* syncs, the main goroutine only when no worker is left, and the buffer
\* stays within its capacity.
THEOREM WriterIsExclusive == Spec => []WriterExclusive
  <1>1. WriterInv => WriterExclusive
    BY DEF WriterInv
  <1> QED
    BY <1>1, InitWriterInv, NextWriterInv, PTL DEF Spec

-----------------------------------------------------------------------------
(* Every file once, and counted once.  The count is inductive in the form  *)
(* "as many as the files that no longer wait and are in nobody's hands";   *)
(* once the main goroutine is past its sends and the workers are gone,     *)
(* those are all the files.                                                *)

Counted == paths \ (todo \cup Held)

CountInv == processedCount = Cardinality(Counted)
Drained == phase \in {"wait", "flush", "sync", "ok"} => todo = {}
PoolInv == WriterInv /\ EachFileOnce /\ CountInv /\ Drained

LEMMA CountedFinite == PoolTypes => IsFiniteSet(Counted)
  BY PathsAssumption, FS_Subset DEF PoolTypes, Counted

LEMMA InitPoolInv == Init => PoolInv
  <1> SUFFICES ASSUME Init PROVE PoolInv
    OBVIOUS
  <1>1. Busy = {} /\ Held = {} /\ Undecided = {}
    BY DEF Init, Busy, Held, Undecided
  <1>2. EachFileOnce
    BY <1>1 DEF Init, EachFileOnce
  <1>3. CountInv
    BY <1>1, FS_EmptySet DEF Init, CountInv, Counted
  <1> QED
    BY <1>2, <1>3, InitWriterInv DEF Init, PoolInv, Drained

\* A new process, or none: all of its files wait, and none is in any hand.
LEMMA FreshPool ==
    ASSUME FreshProcess, NEW l \in {"recv", "exit"}, pc' = [w \in Workers |-> l],
           todo' = paths', phase' \in {"send", "failed", "killed"}
    PROVE  EachFileOnce' /\ CountInv' /\ Drained'
  <1>1. Busy' = {} /\ Held' = {} /\ Undecided' = {}
    BY DEF Busy, Held, Undecided
  <1>2. EachFileOnce'
    BY <1>1 DEF FreshProcess, EachFileOnce
  <1>3. CountInv'
    BY <1>1, FS_EmptySet DEF FreshProcess, CountInv, Counted
  <1> QED
    BY <1>2, <1>3 DEF Drained

\* A worker that keeps its file and decides nothing changes no account.
LEMMA KeepsFile ==
    ASSUME PoolInv, NEW w \in Busy, NEW l \in PCs \ {"recv", "exit"}, Goto(w, l),
           UNCHANGED <<phase, paths, todo, job, processedCount>>,
           accepted' = accepted, logged' = logged,
           pc[w] \in {"hash", "lock", "spill"} => l \in {"hash", "lock", "spill"} \/ werr',
           l \in {"hash", "lock", "spill"} => pc[w] \in {"hash", "lock", "spill"},
           ~werr' => ~werr
    PROVE  EachFileOnce' /\ CountInv' /\ Drained'
  <1>1. \A v \in Workers : pc'[v] = IF v = w THEN l ELSE pc[v]
    BY DEF PoolInv, WriterInv, TypeOK, PoolTypes, Goto
  <1>2. Busy' = Busy /\ Held' = Held
    BY <1>1 DEF Busy, Held
  <1>3. Undecided' \subseteq Undecided /\ (~werr' => Undecided' = Undecided)
    BY <1>1 DEF Undecided, Busy
  <1>4. EachFileOnce'
    BY <1>2, <1>3 DEF PoolInv, EachFileOnce
  <1>5. CountInv' /\ Drained'
    BY <1>2 DEF PoolInv, CountInv, Counted, Drained
  <1> QED
    BY <1>4, <1>5

\* A worker whose file is settled, by a line accepted or an error logged.
LEMMA SettlesFile ==
    ASSUME PoolInv, NEW w \in Workers, NEW l \in {"flush", "count"}, Goto(w, l),
           pc[w] \in {"hash", "lock", "spill"},
           UNCHANGED <<phase, paths, todo, job, processedCount>>,
           \/ accepted' = accepted \cup {job[w]} /\ logged' = logged
           \/ accepted' = accepted /\ logged' = logged \cup {job[w]},
           werr' = werr
    PROVE  EachFileOnce' /\ CountInv' /\ Drained'
  <1>1. \A v \in Workers : pc'[v] = IF v = w THEN l ELSE pc[v]
    BY DEF PoolInv, WriterInv, TypeOK, PoolTypes, Goto
  <1>2. Busy' = Busy /\ Held' = Held /\ w \in Busy
    BY <1>1 DEF Busy, Held
  <1>3. Undecided' = Undecided \ {job[w]} /\ job[w] \in Undecided
    <2>1. \A v \in Busy : job[v] = job[w] => v = w
      BY <1>2 DEF PoolInv, EachFileOnce
    <2> QED
      BY <1>1, <2>1 DEF Undecided, Busy
  <1>4. job[w] \in Held /\ job[w] \notin todo
    BY <1>2 DEF Held, PoolInv, EachFileOnce
  <1>5. EachFileOnce'
    BY <1>2, <1>3, <1>4 DEF PoolInv, EachFileOnce
  <1>6. CountInv' /\ Drained'
    BY <1>2 DEF PoolInv, CountInv, Counted, Drained
  <1> QED
    BY <1>5, <1>6

\* A file handed to a worker leaves the waiting files and nothing else changes.
LEMMA SendPool ==
    ASSUME PoolInv, NEW w \in Workers, Send(w)
    PROVE  EachFileOnce' /\ CountInv' /\ Drained'
  <1> USE DEF PoolInv, WriterInv, TypeOK
  <1>1. PICK p \in todo : todo' = todo \ {p} /\ job' = [job EXCEPT ![w] = p]
    BY DEF Send, Handed
  <1>2. \A v \in Workers : /\ pc'[v] = IF v = w THEN "hash" ELSE pc[v]
                           /\ job'[v] = IF v = w THEN p ELSE job[v]
    BY <1>1 DEF Send, Goto, PoolTypes
  <1>3. Busy' = Busy \cup {w} /\ w \notin Busy
    BY <1>2 DEF Send, Busy
  <1>4. Held' = Held \cup {p} /\ Undecided' = Undecided \cup {p}
    BY <1>2, <1>3 DEF Send, Held, Undecided, Busy
  <1>5. EachFileOnce'
    <2>1. p \notin Held \cup accepted \cup logged
      BY DEF EachFileOnce
    <2>2. \A v \in Busy : job[v] # p
      BY <2>1 DEF Held
    <2>3. \A u, v \in Busy' : job'[u] = job'[v] => u = v
      BY <1>2, <1>3, <2>2 DEF EachFileOnce, Busy
    <2> QED
      BY <1>1, <1>4, <2>1, <2>3 DEF Send, EachFileOnce, writer
  <1>6. Counted' = Counted
    BY <1>1, <1>4 DEF Send, Counted
  <1> QED
    BY <1>5, <1>6 DEF Send, CountInv, Drained

\* A worker that counts its file lets it go.
LEMMA CountPool ==
    ASSUME PoolInv, NEW w \in Workers, Count(w)
    PROVE  EachFileOnce' /\ CountInv' /\ Drained'
  <1> USE DEF PoolInv, WriterInv, TypeOK
  <1>1. \A v \in Workers : /\ pc'[v] = IF v = w THEN "recv" ELSE pc[v]
                           /\ job'[v] = IF v = w THEN NoPath ELSE job[v]
    BY DEF Count, Goto, PoolTypes
  <1>2. Busy' = Busy \ {w} /\ w \in Busy
    BY <1>1 DEF Count, Busy
  <1>3. Held' = Held \ {job[w]} /\ job[w] \in Held
    <2>1. \A v \in Busy : job[v] = job[w] => v = w
      BY <1>2 DEF EachFileOnce
    <2> QED
      BY <1>1, <1>2, <2>1 DEF Held, Busy
  <1>4. Undecided' = Undecided
    BY <1>1 DEF Undecided, Count
  <1>5. EachFileOnce'
    <2>1. \A u, v \in Busy' : job'[u] = job'[v] => u = v
      BY <1>1, <1>2 DEF EachFileOnce, Busy
    <2> QED
      BY <1>3, <1>4, <2>1 DEF Count, EachFileOnce, writer
  <1>6. CountInv'
    <2>1. job[w] \in paths /\ job[w] \notin todo
      BY <1>2, <1>3 DEF PoolTypes, EachFileOnce
    <2>2. Counted' = Counted \cup {job[w]} /\ job[w] \notin Counted
      BY <1>3, <2>1 DEF Counted, Count
    <2> QED
      BY <2>2, CountedFinite, FS_AddElement DEF CountInv, Count
  <1> QED
    BY <1>5, <1>6 DEF Count, Drained

LEMMA WorkerPool ==
    ASSUME PoolInv, NEW w \in Workers, Worker(w)
    PROVE  EachFileOnce' /\ CountInv' /\ Drained'
  <1>1. CASE Send(w)
    BY <1>1, SendPool
  <1>2. CASE Exit(w)
    <2>1. \A v \in Workers : pc'[v] = IF v = w THEN "exit" ELSE pc[v]
      BY <1>2 DEF PoolInv, WriterInv, TypeOK, PoolTypes, Exit, Goto
    <2>2. Busy' = Busy /\ Held' = Held /\ Undecided' = Undecided
      BY <1>2, <2>1 DEF Exit, Busy, Held, Undecided
    <2> QED
      BY <1>2, <2>2 DEF PoolInv, Exit, writer, EachFileOnce, CountInv, Counted, Drained
  <1>3. CASE HashOk(w)
    BY <1>3, KeepsFile DEF HashOk, writer, Busy, PCs
  <1>4. CASE HashError(w)
    BY <1>4, SettlesFile DEF HashError, writer
  <1>5. CASE WriteFits(w)
    BY <1>5, SettlesFile DEF WriteFits, Accept
  <1>6. CASE WriteOverflows(w)
    BY <1>6, KeepsFile DEF WriteOverflows, Busy, PCs
  <1>7. CASE Spill(w)
    BY <1>7, SettlesFile DEF Spill, Accept
  <1>8. CASE SpillFails(w)
    BY <1>8, KeepsFile DEF SpillFails, WriteFails, Busy, PCs
  <1>9. CASE WriteRefused(w)
    BY <1>9, KeepsFile DEF WriteRefused, writer, Busy, PCs
  <1>10. CASE Flush(w)
    BY <1>10, KeepsFile DEF Flush, Busy, PCs
  <1>11. CASE FlushFails(w)
    BY <1>11, KeepsFile DEF FlushFails, WriteFails, Busy, PCs
  <1>12. CASE Sync(w)
    BY <1>12, KeepsFile DEF Sync, Busy, PCs
  <1>13. CASE Count(w)
    BY <1>13, CountPool
  <1> QED
    BY <1>1, <1>2, <1>3, <1>4, <1>5, <1>6, <1>7, <1>8, <1>9, <1>10, <1>11, <1>12, <1>13 DEF Worker

LEMMA MainPool ==
    ASSUME PoolInv, Main
    PROVE  EachFileOnce' /\ CountInv' /\ Drained'
  <1>1. Busy' = Busy /\ Held' = Held /\ Undecided' = Undecided
    BY DEF Main, CloseJobs, WaitReturns, FinalFlush, FinalSync, pool, Busy, Held, Undecided
  <1>2. /\ UNCHANGED <<paths, todo, accepted, logged, processedCount>>
        /\ ~werr' => ~werr
    BY DEF Main, CloseJobs, WaitReturns, FinalFlush, FinalSync, pool, writer, WriteFails
  <1>3. Drained'
    BY DEF PoolInv, Main, CloseJobs, WaitReturns, FinalFlush, FinalSync, pool, Drained
  <1>4. EachFileOnce'
    <2>1. job' = job
      BY DEF Main, CloseJobs, WaitReturns, FinalFlush, FinalSync, pool
    <2> QED
      BY <1>1, <1>2, <2>1 DEF PoolInv, EachFileOnce
  <1>5. CountInv'
    BY <1>1, <1>2 DEF PoolInv, CountInv, Counted
  <1> QED
    BY <1>3, <1>4, <1>5

LEMMA NextPoolInv == PoolInv /\ [Next]_vars => PoolInv'
  <1> SUFFICES ASSUME PoolInv, [Next]_vars PROVE EachFileOnce' /\ CountInv' /\ Drained'
    BY NextWriterInv DEF PoolInv
  <1>1. CASE Start \/ OpenFails \/ WalkFails \/ Kill \/ PowerLoss
    BY <1>1, FreshPool DEF Start, OpenFails, WalkFails, Aborts, Kill, PowerLoss, Dies
  <1>2. CASE \E w \in Workers : Worker(w)
    BY <1>2, WorkerPool
  <1>3. CASE Main
    BY <1>3, MainPool
  <1>4. CASE Done \/ UNCHANGED vars
    BY <1>4 DEF Done, vars, pool, writer, PoolInv, EachFileOnce, CountInv, Drained, Counted,
                Busy, Held, Undecided
  <1> QED
    BY <1>1, <1>2, <1>3, <1>4 DEF Next

\* However the workers interleave and wherever hashing or writing fails, no
\* file of a run is taken twice, written twice or forgotten.
THEOREM FilesOnce == Spec => []EachFileOnce
  <1>1. PoolInv => EachFileOnce
    BY DEF PoolInv
  <1> QED
    BY <1>1, InitPoolInv, NextPoolInv, PTL DEF Spec

\* The count a run prints last is the number of its files.
THEOREM CountIsFinal == Spec => []FinalCount
  <1>1. PoolInv => FinalCount
    <2> SUFFICES ASSUME PoolInv, phase \in {"flush", "sync", "ok"}
                 PROVE  processedCount = Cardinality(paths)
      BY DEF FinalCount
    <2>1. AllExited
      BY DEF PoolInv, WriterInv, WriterExclusive, Ended
    <2>2. Held = {}
      BY <2>1 DEF AllExited, Held, Busy
    <2> QED
      BY <2>2 DEF PoolInv, CountInv, Drained, Counted
  <1> QED
    BY <1>1, InitPoolInv, NextPoolInv, PTL DEF Spec
=============================================================================
