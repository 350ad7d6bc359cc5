---------------------------- MODULE VerifyProofs ----------------------------
(***************************************************************************)
(* Proofs about Verify, for any list, any files and any number of workers. *)
(***************************************************************************)
EXTENDS Verify, FiniteSetTheorems, SequenceTheorems, TLAPS

-----------------------------------------------------------------------------
(* Type correctness.                                                       *)

LEMMA CapacityType == Capacity \in Nat \ {0}
  <1>1. Cardinality(Workers) \in Nat /\ Cardinality(Workers) # 0
    BY WorkersAssumption, FS_CardinalityType, FS_EmptySet
  <1> QED
    BY <1>1 DEF Capacity

LEMMA StatusType == \A i \in Places : Status[i] \in {"OK", "MISMATCH", "ERROR"}
  BY DEF Status

LEMMA JudgeType == \A i \in Places : Judge(i) \in {"OK", "MISMATCH", "ERROR"}
  BY DEF Judge

LEMMA InitTypeOK == Init => TypeOK
  <1> SUFFICES ASSUME Init PROVE TypeOK
    OBVIOUS
  <1>1. InputTypes
    <2>1. verbose \in BOOLEAN
      BY DEF Init
    <2> QED
      BY <2>1, ListsAssumption, ContentsAssumption DEF Init, InputTypes
  <1>2. Len(list) \in Nat
    BY <1>1, LenProperties DEF InputTypes
  <1>3. PoolTypes
    BY <1>2 DEF Init, PoolTypes, Phases, PCs
  <1>6. MapTypes
    BY <1>2 DEF Init, MapTypes
  <1>4. ChannelTypes
    <2>1. closed \in BOOLEAN
      BY DEF Init
    <2> QED
      BY <2>1, EmptySeq, CapacityType DEF Init, ChannelTypes
  <1>5. TallyTypes
    BY DEF Init, TallyTypes
  <1> QED
    BY <1>1, <1>3, <1>4, <1>5, <1>6 DEF TypeOK

\* The map holds for every file recorded a hash of the list, and for no other.
LEMMA SameMapTypes ==
    ASSUME MapTypes, UNCHANGED <<input, maps>>
    PROVE  MapTypes'
  BY DEF MapTypes, input, maps, File

LEMMA PrepareTypeOK ==
    ASSUME TypeOK, Prepare
    PROVE  TypeOK'
  <1> USE DEF TypeOK
  <1>1. /\ Len(list) \in Nat /\ prepared \in Nat /\ prepared + 1 \in 1 .. Len(list)
        /\ UNCHANGED <<input, phase, sent, workers, results, closed, collector,
                       tally, processedCount, report, printed>>
        /\ prepared' = prepared + 1 /\ expected' = Record(prepared + 1)
    BY LenProperties DEF Prepare, InputTypes, MapTypes
  <1>2. list[prepared + 1].hash \in Hashes
    <2>1. list[prepared + 1] \in Entry
      BY <1>1, ElementOfSeq DEF InputTypes
    <2> QED
      BY <2>1 DEF Entry
  <1>3. {File(i) : i \in 1 .. prepared'} = {File(i) : i \in 1 .. prepared} \cup {File(prepared + 1)}
    <2>1. 1 .. prepared' = (1 .. prepared) \cup {prepared + 1}
      BY <1>1
    <2> QED
      BY <2>1
  <1>4. expected' \in [{File(i) : i \in 1 .. prepared'} -> Hashes]
    BY <1>1, <1>2, <1>3 DEF Record, MapTypes
  <1>5. MapTypes'
    <2>1. list' = list
      BY <1>1 DEF input
    <2> QED
      BY <1>1, <1>4, <2>1 DEF MapTypes, File
  <1> QED
    BY <1>1, <1>5 DEF input, workers, tally, InputTypes, PoolTypes, ChannelTypes, TallyTypes,
                      Places, Result

\* One more line about one entry.
LEMMA PrintedType ==
    ASSUME printed \in [Places -> Nat], NEW i \in Places
    PROVE  [printed EXCEPT ![i] = @ + 1] \in [Places -> Nat]
  OBVIOUS

LEMMA WorkerTypeOK ==
    ASSUME TypeOK, NEW w \in Workers, Worker(w)
    PROVE  TypeOK'
  <1> USE DEF TypeOK
  <1>0. Len(list) \in Nat
    BY LenProperties DEF InputTypes
  <1>6. MapTypes'
    BY SameMapTypes DEF Worker, Take, Hash, Put, Count, Exit
  <1>1. CASE Take(w)
    <2>1. PoolTypes'
      BY <1>0, <1>1 DEF Take, Handed, Goto, PoolTypes, PCs, input
    <2> QED
      BY <1>1, <1>6, <2>1 DEF Take, input, tally, InputTypes, ChannelTypes, TallyTypes, Places, Result
  <1>2. CASE Hash(w)
    <2>1. PoolTypes'
      BY <1>2 DEF Hash, Goto, PoolTypes, PCs, input
    <2>2. job[w] \in Places
      BY <1>0, <1>2 DEF Hash, PoolTypes, Places
    <2>3. TallyTypes'
      BY <1>2, <2>2, PrintedType DEF Hash, TallyTypes, tally, input, Places
    <2> QED
      BY <1>2, <1>6, <2>1, <2>3 DEF Hash, input, InputTypes, ChannelTypes, Places, Result
  <1>3. CASE Put(w)
    <2>1. PoolTypes'
      BY <1>3 DEF Put, Goto, PoolTypes, PCs, input
    <2>2. job[w] \in Places
      BY <1>0, <1>3 DEF Put, PoolTypes, Places
    <2>3. [at |-> job[w], status |-> Judge(job[w])] \in Result
      BY <2>2, JudgeType DEF Result
    <2>4. ChannelTypes'
      BY <1>3, <2>3, AppendProperties, CapacityType DEF Put, HasRoom, ChannelTypes, input, Places, Result
    <2> QED
      BY <1>3, <1>6, <2>1, <2>4 DEF Put, input, tally, InputTypes, TallyTypes, Places
  <1>4. CASE Count(w)
    <2>1. PoolTypes'
      BY <1>4 DEF Count, Goto, PoolTypes, PCs, input
    <2> QED
      BY <1>4, <1>6, <2>1 DEF Count, input, tally, InputTypes, ChannelTypes, TallyTypes, Places, Result
  <1>5. CASE Exit(w)
    <2>1. PoolTypes'
      BY <1>5 DEF Exit, Goto, PoolTypes, PCs, input
    <2> QED
      BY <1>5, <1>6, <2>1 DEF Exit, input, tally, InputTypes, ChannelTypes, TallyTypes, Places, Result
  <1> QED
    BY <1>1, <1>2, <1>3, <1>4, <1>5 DEF Worker

LEMMA CollectorTypeOK ==
    ASSUME TypeOK, Collector
    PROVE  TypeOK'
  <1> USE DEF TypeOK
  <1>3. MapTypes'
    BY SameMapTypes DEF Collector, Collect, CollectorEnds
  <1>1. CASE Collect
    <2>1. Head(results) \in Result /\ Tail(results) \in Seq(Result) /\ Len(Tail(results)) = Len(results) - 1
      BY <1>1, HeadTailProperties DEF Collect, ChannelTypes
    <2>2. ChannelTypes'
      BY <1>1, <2>1, LenProperties, CapacityType DEF Collect, ChannelTypes, input, Places, Result
    <2>3. Head(results).at \in Places
      BY <2>1 DEF Result
    <2>4. TallyTypes'
      <3>1. printed' \in [Places -> Nat]
        BY <1>1, <2>3, PrintedType DEF Collect, TallyTypes
      <3>2. match' \in Nat /\ mismatch' \in Nat /\ counted' \in SUBSET Places
        BY <1>1, <2>3 DEF Collect, TallyTypes
      <3> QED
        BY <1>1, <3>1, <3>2 DEF Collect, TallyTypes, input, Places
    <2> QED
      BY <1>1, <1>3, <2>2, <2>4 DEF Collect, input, workers, InputTypes, PoolTypes
  <1>2. CASE CollectorEnds
    BY <1>2, <1>3 DEF CollectorEnds, input, workers, tally, InputTypes, PoolTypes, ChannelTypes,
                TallyTypes, Places, Result
  <1> QED
    BY <1>1, <1>2 DEF Collector

LEMMA NextTypeOK == TypeOK /\ [Next]_vars => TypeOK'
  <1> SUFFICES ASSUME TypeOK, [Next]_vars PROVE TypeOK'
    OBVIOUS
  <1> USE DEF TypeOK
  <1>1. CASE \E w \in Workers : Worker(w)
    BY <1>1, WorkerTypeOK
  <1>2. CASE Collector
    BY <1>2, CollectorTypeOK
  <1>3. CASE CloseResults
    <2>1. closed' \in BOOLEAN
      BY <1>3 DEF CloseResults
    <2>2. MapTypes'
      BY <1>3, SameMapTypes DEF CloseResults
    <2> QED
      BY <1>3, <2>1, <2>2 DEF CloseResults, input, workers, tally, InputTypes, PoolTypes, ChannelTypes,
                        TallyTypes, Places, Result
  <1>4. CASE Main /\ ~Prepare
    <2>1. MapTypes'
      BY <1>4, SameMapTypes DEF Main, Start, CloseJobs, WaitReturns, Rendezvous, Report
    <2> QED
      BY <1>4, <2>1 DEF Main, Start, CloseJobs, WaitReturns, Rendezvous, Report, input, workers, tally,
                        InputTypes, PoolTypes, ChannelTypes, TallyTypes, Places, Result, Phases
  <1>5. CASE Done \/ UNCHANGED vars
    <2>1. MapTypes'
      BY <1>5, SameMapTypes DEF Done, vars
    <2> QED
      BY <1>5, <2>1 DEF Done, vars, input, workers, tally, InputTypes, PoolTypes, ChannelTypes,
                        TallyTypes, Places, Result
  <1> QED
    BY <1>1, <1>2, <1>3, <1>4, <1>5, PrepareTypeOK DEF Next, Main

-----------------------------------------------------------------------------
(* The order in which the goroutines start and end.                        *)

\* What the ends of the goroutines have to do with each other, and that none
\* starts before the map is made.
EndOrder ==
    /\ phase = "prepare" => sent = 0 /\ \A w \in Workers : pc[w] = "recv"
    /\ phase # "prepare" => prepared = Len(list)
    /\ phase \notin {"prepare", "send"} => sent = Len(list)
    /\ \A w \in Workers : pc[w] = "exit" => phase \notin {"prepare", "send"}
    /\ NoSendOnClosed
    /\ phase \in {"rendezvous", "report", "done"} => AllExited
    /\ collector # "range" => Drained
    /\ phase \in {"report", "done"} => collector = "exit"
    /\ phase # "done" => report = {}

LEMMA InitEndOrder == Init => EndOrder
  BY WorkersAssumption DEF Init, EndOrder, NoSendOnClosed

LEMMA NextEndOrder == TypeOK /\ EndOrder /\ [Next]_vars => EndOrder'
  <1> SUFFICES ASSUME TypeOK, EndOrder, [Next]_vars PROVE EndOrder'
    OBVIOUS
  <1> USE DEF TypeOK
  <1>1. ASSUME NEW w \in Workers, Worker(w) PROVE EndOrder'
    <2>1. pc[w] # "exit" /\ ~AllExited
      BY <1>1 DEF Worker, Take, Hash, Put, Count, Exit, AllExited
    <2>2. phase # "prepare"
      BY <1>1 DEF Worker, Take, Hash, Put, Count, Exit, EndOrder
    <2>5. ~closed /\ collector = "range" /\ phase \in {"send", "wait"}
      BY <2>1, <2>2 DEF EndOrder, NoSendOnClosed, Drained, PoolTypes, Phases
    <2>3. /\ UNCHANGED <<phase, closed, collector, report, list, prepared>>
          /\ phase # "send" => sent' = sent
      BY <1>1 DEF Worker, Take, Hash, Put, Count, Exit, input, maps
    <2>4. \A v \in Workers : pc'[v] = "exit" => pc[v] = "exit" \/ phase \notin {"prepare", "send"}
      BY <1>1 DEF Worker, Take, Hash, Put, Count, Exit, Goto, PoolTypes
    <2> QED
      BY <2>2, <2>3, <2>4, <2>5 DEF EndOrder, NoSendOnClosed
  <1>2. CASE CloseResults
    <2>1. /\ AllExited /\ closed'
          /\ UNCHANGED <<phase, sent, pc, collector, results, report, list, prepared>>
      BY <1>2 DEF CloseResults, CloserWoken, workers, input, maps
    <2> QED
      BY <2>1 DEF EndOrder, NoSendOnClosed, AllExited, Drained
  <1>3. CASE Collector
    <2>1. collector = "range" /\ UNCHANGED <<phase, sent, pc, closed, report, list, prepared>>
      BY <1>3 DEF Collector, Collect, CollectorEnds, workers, input, maps
    <2>2. collector' # "range" => Drained'
      BY <1>3 DEF Collector, Collect, CollectorEnds, Drained
    <2>3. phase \notin {"report", "done"}
      BY <2>1 DEF EndOrder
    <2> QED
      BY <2>1, <2>2, <2>3 DEF EndOrder, NoSendOnClosed, AllExited
  <1>4. CASE Main
    <2>1. UNCHANGED <<pc, sent, closed, results, list>>
      BY <1>4 DEF Main, Prepare, Start, CloseJobs, WaitReturns, Rendezvous, Report, workers, input
    <2>5. prepared' = prepared \/ Prepare
      BY <1>4 DEF Main, Start, CloseJobs, WaitReturns, Rendezvous, Report, maps
    <2>6. CASE Prepare
      BY <2>1, <2>6 DEF Prepare, EndOrder, NoSendOnClosed, AllExited, Drained
    <2>7. CASE Start
      <3>1. prepared' = prepared /\ sent = 0 /\ ~AllExited /\ ~closed /\ collector = "range"
        BY <2>7, WorkersAssumption DEF Start, maps, EndOrder, AllExited, NoSendOnClosed, Drained
      <3> QED
        BY <2>1, <2>7, <3>1 DEF Start, EndOrder, NoSendOnClosed
    <2>2. CASE CloseJobs \/ WaitReturns
      BY <2>1, <2>2, <2>5 DEF Prepare, CloseJobs, WaitReturns, EndOrder, NoSendOnClosed, AllExited, Drained
    <2>3. CASE Rendezvous
      BY <2>1, <2>3, <2>5 DEF Prepare, Rendezvous, DoneSent, EndOrder, NoSendOnClosed, AllExited, Drained
    <2>4. CASE Report
      BY <2>1, <2>4, <2>5 DEF Prepare, Report, EndOrder, NoSendOnClosed, AllExited, Drained
    <2> QED
      BY <1>4, <2>2, <2>3, <2>4, <2>6, <2>7 DEF Main
  <1>5. CASE Done \/ UNCHANGED vars
    BY <1>5 DEF Done, vars, input, maps, workers, EndOrder, NoSendOnClosed, AllExited, Drained
  <1> QED
    BY <1>1, <1>2, <1>3, <1>4, <1>5 DEF Next

-----------------------------------------------------------------------------
(* The map.                                                                *)

\* The file of each entry prepared has the hash of the latest of them that is
\* about it.
LatestOf(f, i) ==
    i \in 1 .. prepared /\ File(i) = f /\ \A j \in 1 .. prepared : File(j) = f => j <= i
MapInv == \A f \in DOMAIN expected : \E i \in 1 .. prepared :
              LatestOf(f, i) /\ expected[f] = list[i].hash

LEMMA InitMap == Init => MapInv
  BY DEF Init, MapInv

LEMMA SameMap ==
    ASSUME MapInv, UNCHANGED <<input, maps>>
    PROVE  MapInv'
  BY DEF MapInv, LatestOf, File, input, maps

LEMMA NextMap == TypeOK /\ MapInv /\ [Next]_vars => MapInv'
  <1> SUFFICES ASSUME TypeOK, MapInv, [Next]_vars PROVE MapInv'
    OBVIOUS
  <1>1. CASE Prepare
    <2>1. /\ prepared \in Nat /\ prepared' = prepared + 1 /\ UNCHANGED list
          /\ expected' = Record(prepared + 1)
          /\ DOMAIN expected = {File(i) : i \in 1 .. prepared}
          /\ 1 .. prepared' = (1 .. prepared) \cup {prepared + 1}
      BY <1>1, LenProperties DEF Prepare, input, TypeOK, InputTypes, MapTypes
    <2>6. PICK n \in Nat : n = prepared + 1
      BY <2>1
    <2>2. \A i : File(i)' = File(i)
      BY <2>1 DEF File
    <2>3. SUFFICES ASSUME NEW f \in DOMAIN expected'
                   PROVE  \E i \in 1 .. prepared' : LatestOf(f, i)' /\ expected'[f] = list[i].hash
      BY <2>1 DEF MapInv
    <2>4. CASE f = File(n)
      <3>1. expected'[f] = list[n].hash
        BY <2>1, <2>4, <2>6 DEF Record
      <3>2. LatestOf(f, n)'
        BY <2>1, <2>2, <2>4, <2>6 DEF LatestOf
      <3> QED
        BY <2>1, <2>6, <3>1, <3>2
    <2>5. CASE f # File(n)
      <3>1. f \in DOMAIN expected /\ expected'[f] = expected[f]
        BY <2>1, <2>3, <2>5, <2>6 DEF Record
      <3>2. PICK i \in 1 .. prepared : LatestOf(f, i) /\ expected[f] = list[i].hash
        BY <3>1 DEF MapInv
      <3>3. LatestOf(f, i)'
        BY <2>1, <2>2, <2>5, <2>6, <3>2 DEF LatestOf
      <3> QED
        BY <2>1, <3>1, <3>2, <3>3
    <2> QED
      BY <2>4, <2>5
  <1>2. CASE ~Prepare
    <2>1. UNCHANGED <<input, maps>>
      BY <1>2 DEF Next, Worker, Take, Hash, Put, Count, Exit, CloseResults, Collector, Collect,
                  CollectorEnds, Main, Start, CloseJobs, WaitReturns, Rendezvous, Report, Done, vars
    <2> QED
      BY <2>1, SameMap
  <1> QED
    BY <1>1, <1>2

\* Once the map is made, what a worker makes of an entry is what the list says.
LEMMA JudgesRightly ==
    ASSUME TypeOK, MapInv, prepared = Len(list), NEW i \in Places
    PROVE  Judge(i) = Status[i]
  <1> DEFINE f == File(i)
  <1>1. f \in DOMAIN expected
    BY DEF TypeOK, MapTypes, Places
  <1>2. PICK m \in Places : LatestOf(f, m) /\ expected[f] = list[m].hash
    BY <1>1 DEF MapInv, Places
  <1>3. \A k \in Places : (File(k) = f /\ \A j \in Places : File(j) = f => j <= k) <=> k = m
    BY <1>2, LenProperties DEF LatestOf, Places, TypeOK, InputTypes
  <1>4. (CHOOSE k \in Places : File(k) = f /\ \A j \in Places : File(j) = f => j <= k) = m
    BY <1>2, <1>3
  <1>5. LastHash(f) = expected[f]
    BY <1>2, <1>4, Zenon DEF LastHash
  <1> HIDE DEF f
  <1> QED
    BY <1>1, <1>5 DEF Judge, Status, f

-----------------------------------------------------------------------------
(* Where the verdicts are.                                                 *)

LEMMA PlacesFinite == TypeOK => Len(list) \in Nat /\ IsFiniteSet(Places)
  BY LenProperties, FS_Interval DEF TypeOK, InputTypes, Places

LEMMA IntervalSize ==
    ASSUME NEW n \in Nat
    PROVE  Cardinality(1 .. n) = n
  BY FS_Interval

\* What an entry's status is depends on the list and the files alone.
LEMMA SameStatus ==
    ASSUME UNCHANGED input
    PROVE  Places' = Places /\ Right' = Right /\ Status' = Status
  BY DEF input, Places, Right, Status, LastHash, File

LEMMA InitVerdicts == Init => VerdictsConserved
  <1> SUFFICES ASSUME Init PROVE VerdictsConserved
    OBVIOUS
  <1>1. Holders = {} /\ InHand = {} /\ InChannel = {} /\ Len(results) = 0
    BY DEF Init, Holders, InHand, InChannel
  <1>2. counted = {} /\ 1 .. sent = {}
    BY DEF Init
  <1> QED
    BY <1>1, <1>2, FS_EmptySet DEF Init, VerdictsConserved

\* As many are counted by the progress counter as are sent and let go.
Finished == (1 .. sent) \ {job[w] : w \in Holders}
ProgressInv == processedCount = Cardinality(Finished)

AuditInv == TypeOK /\ EndOrder /\ MapInv /\ VerdictsConserved /\ ProgressInv

LEMMA FinishedFinite == TypeOK => IsFiniteSet(Finished)
  <1> SUFFICES ASSUME TypeOK PROVE IsFiniteSet(Finished)
    OBVIOUS
  <1>1. sent \in Int
    BY LenProperties DEF TypeOK, InputTypes, PoolTypes
  <1>2. IsFiniteSet(1 .. sent)
    BY <1>1, FS_Interval
  <1> QED
    BY <1>2, FS_Difference DEF Finished

\* A worker that holds an entry started after the map was made.
LEMMA HolderJudges ==
    ASSUME AuditInv, NEW w \in Holders
    PROVE  job[w] \in Places /\ Judge(job[w]) = Status[job[w]]
  <1>1. job[w] \in Places
    BY LenProperties DEF AuditInv, TypeOK, InputTypes, PoolTypes, Holders, Places
  <1>2. prepared = Len(list)
    BY DEF AuditInv, EndOrder, Holders
  <1> QED
    BY <1>1, <1>2, JudgesRightly DEF AuditInv

LEMMA InitProgress == Init => ProgressInv
  <1> SUFFICES ASSUME Init PROVE ProgressInv
    OBVIOUS
  <1>1. Finished = {}
    BY DEF Init, Finished
  <1> QED
    BY <1>1, FS_EmptySet DEF Init, ProgressInv

LEMMA TakeVerdicts ==
    ASSUME AuditInv, NEW w \in Workers, Take(w)
    PROVE  VerdictsConserved' /\ ProgressInv'
  <1> USE DEF AuditInv, TypeOK
  <1>1. sent \in Nat /\ 1 .. sent + 1 = (1 .. sent) \cup {sent + 1} /\ sent + 1 \notin 1 .. sent
    BY LenProperties DEF InputTypes, PoolTypes
  <1>2. \A v \in Workers : /\ pc'[v] = IF v = w THEN "hash" ELSE pc[v]
                           /\ job'[v] = IF v = w THEN sent + 1 ELSE job[v]
    BY DEF Take, Handed, Goto, PoolTypes
  <1>3. Holders' = Holders \cup {w} /\ w \notin Holders
    BY <1>2 DEF Take, Holders
  <1>4. InHand' = InHand \cup {sent + 1}
    BY <1>2, <1>3 DEF Take, InHand, Holders
  <1>5. InChannel' = InChannel /\ UNCHANGED <<results, counted, match, mismatch>>
    BY DEF Take, tally, InChannel
  <1>6. \A v \in Holders : job[v] # sent + 1
    BY <1>1 DEF PoolTypes, Holders
  <1>7. \A u, v \in Holders' : job'[u] = job'[v] => u = v
    BY <1>2, <1>3, <1>6 DEF VerdictsConserved, Holders
  <1>8. sent + 1 \notin InHand \cup InChannel \cup counted
    BY <1>1 DEF VerdictsConserved
  <1>9. Right' = Right /\ Status' = Status
    BY SameStatus DEF Take
  <1>10. VerdictsConserved'
    <2>1. \A k \in 1 .. Len(results') : results'[k].status = Status'[results'[k].at]
      BY <1>5, <1>9 DEF VerdictsConserved
    <2>2. \A j, k \in 1 .. Len(results') : results'[j].at = results'[k].at => j = k
      BY <1>5 DEF VerdictsConserved
    <2>3. /\ 1 .. sent' = InHand' \cup InChannel' \cup counted'
          /\ InHand' \cap (InChannel' \cup counted') = {} /\ InChannel' \cap counted' = {}
      BY <1>1, <1>4, <1>5, <1>8 DEF VerdictsConserved, Take
    <2>4. match' = Cardinality(counted' \cap Right') /\ mismatch' = Cardinality(counted' \ Right')
      BY <1>5, <1>9 DEF VerdictsConserved
    <2> QED
      BY <1>7, <2>1, <2>2, <2>3, <2>4 DEF VerdictsConserved
  <1>11. Finished' = Finished
    <2>1. {job'[v] : v \in Holders'} = {job[v] : v \in Holders} \cup {sent + 1}
      BY <1>2, <1>3 DEF Holders
    <2> QED
      BY <1>1, <2>1 DEF Finished, Take
  <1> QED
    BY <1>10, <1>11 DEF ProgressInv, Take

\* Hashing moves nothing, letting go of a counted entry only the progress.
LEMMA HashVerdicts ==
    ASSUME AuditInv, NEW w \in Workers, Hash(w)
    PROVE  VerdictsConserved' /\ ProgressInv'
  <1> USE DEF AuditInv, TypeOK
  <1>1. \A v \in Workers : pc'[v] = IF v = w THEN "put" ELSE pc[v]
    BY DEF Hash, Goto, PoolTypes
  <1>2. Holders' = Holders /\ InHand' = InHand
    BY <1>1 DEF Hash, Holders, InHand
  <1>3. InChannel' = InChannel /\ UNCHANGED <<results, job, sent, counted, match, mismatch, processedCount>>
    BY DEF Hash, tally, InChannel
  <1>4. Right' = Right /\ Status' = Status
    BY SameStatus DEF Hash
  <1>5. VerdictsConserved'
    <2>1. \A k \in 1 .. Len(results') : results'[k].status = Status'[results'[k].at]
      BY <1>3, <1>4 DEF VerdictsConserved
    <2> QED
      BY <1>2, <1>3, <1>4, <2>1 DEF VerdictsConserved
  <1>6. Finished' = Finished
    BY <1>2, <1>3 DEF Finished
  <1> QED
    BY <1>3, <1>5, <1>6 DEF ProgressInv

LEMMA PutVerdicts ==
    ASSUME AuditInv, NEW w \in Workers, Put(w)
    PROVE  VerdictsConserved' /\ ProgressInv'
  <1> USE DEF AuditInv, TypeOK
  <1>1. \A v \in Workers : pc'[v] = IF v = w THEN "count" ELSE pc[v]
    BY DEF Put, Goto, PoolTypes
  <1>2. Holders' = Holders /\ w \in Holders
    BY <1>1 DEF Put, Holders
  <1>3. UNCHANGED <<job, sent, counted, match, mismatch, processedCount>>
    BY DEF Put, tally
  <1>4. InHand' = InHand \ {job[w]} /\ job[w] \in InHand
    <2>1. \A v \in Holders : job[v] = job[w] => v = w
      BY <1>2 DEF VerdictsConserved
    <2> QED
      BY <1>1, <1>2, <1>3, <2>1 DEF Put, InHand, Holders
  <1> DEFINE r == [at |-> job[w], status |-> Status[job[w]]]
  <1>11. job[w] \in Places /\ r = [at |-> job[w], status |-> Judge(job[w])]
    BY <1>2, HolderJudges
  <1>5. /\ Len(results) \in Nat /\ Len(results') = Len(results) + 1
        /\ \A k \in 1 .. Len(results') : results'[k] = IF k = Len(results) + 1 THEN r ELSE results[k]
    <2>1. r \in Result
      BY <1>11, StatusType DEF Result
    <2>2. results' = Append(results, r)
      BY <1>11 DEF Put
    <2> QED
      BY <2>1, <2>2, AppendProperties, LenProperties DEF Put, ChannelTypes
  <1>6. InChannel' = InChannel \cup {job[w]}
    BY <1>5 DEF InChannel
  <1>7. job[w] \notin InChannel \cup counted
    BY <1>4 DEF VerdictsConserved
  <1>8. Right' = Right /\ Status' = Status
    BY SameStatus DEF Put
  <1>9. VerdictsConserved'
    <2>1. \A k \in 1 .. Len(results') : results'[k].status = Status'[results'[k].at]
      BY <1>5, <1>8 DEF VerdictsConserved
    <2>2. \A j, k \in 1 .. Len(results') : results'[j].at = results'[k].at => j = k
      <3>1. \A k \in 1 .. Len(results) : results[k].at # job[w]
        BY <1>7 DEF InChannel
      <3> QED
        BY <1>5, <3>1 DEF VerdictsConserved
    <2>3. /\ 1 .. sent' = InHand' \cup InChannel' \cup counted'
          /\ InHand' \cap (InChannel' \cup counted') = {} /\ InChannel' \cap counted' = {}
      BY <1>3, <1>4, <1>6, <1>7 DEF VerdictsConserved
    <2>4. match' = Cardinality(counted' \cap Right') /\ mismatch' = Cardinality(counted' \ Right')
      BY <1>3, <1>8 DEF VerdictsConserved
    <2>5. \A u, v \in Holders' : job'[u] = job'[v] => u = v
      BY <1>2, <1>3 DEF VerdictsConserved
    <2> QED
      BY <2>1, <2>2, <2>3, <2>4, <2>5 DEF VerdictsConserved
  <1>10. Finished' = Finished
    BY <1>2, <1>3 DEF Finished
  <1> QED
    BY <1>3, <1>9, <1>10 DEF ProgressInv

\* A worker lets go of an entry that is already in the channel or counted.
LEMMA CountVerdicts ==
    ASSUME AuditInv, NEW w \in Workers, Count(w)
    PROVE  VerdictsConserved' /\ ProgressInv'
  <1> USE DEF AuditInv, TypeOK
  <1>1. \A v \in Workers : /\ pc'[v] = IF v = w THEN "recv" ELSE pc[v]
                           /\ job'[v] = IF v = w THEN 0 ELSE job[v]
    BY DEF Count, Goto, PoolTypes
  <1>2. Holders' = Holders \ {w} /\ w \in Holders
    BY <1>1 DEF Count, Holders
  <1>3. InHand' = InHand
    BY <1>1, <1>2 DEF Count, InHand, Holders
  <1>4. InChannel' = InChannel /\ UNCHANGED <<results, sent, counted, match, mismatch>>
    BY DEF Count, tally, InChannel
  <1>5. Right' = Right /\ Status' = Status
    BY SameStatus DEF Count
  <1>6. VerdictsConserved'
    <2>1. \A u, v \in Holders' : job'[u] = job'[v] => u = v
      BY <1>1, <1>2 DEF VerdictsConserved, Holders
    <2>2. \A k \in 1 .. Len(results') : results'[k].status = Status'[results'[k].at]
      BY <1>4, <1>5 DEF VerdictsConserved
    <2> QED
      BY <1>3, <1>4, <1>5, <2>1, <2>2 DEF VerdictsConserved
  <1>7. Finished' = Finished \cup {job[w]} /\ job[w] \notin Finished
    <2>1. {job'[v] : v \in Holders'} = {job[v] : v \in Holders} \ {job[w]}
      <3>1. \A v \in Holders : job[v] = job[w] => v = w
        BY <1>2 DEF VerdictsConserved
      <3> QED
        BY <1>1, <1>2, <3>1 DEF Holders
    <2>2. job[w] \in 1 .. sent
      BY LenProperties DEF Count, PoolTypes, InputTypes
    <2> QED
      BY <1>2, <1>4, <2>1, <2>2 DEF Finished
  <1> QED
    BY <1>6, <1>7, FinishedFinite, FS_AddElement DEF ProgressInv, Count

\* The collector counts the head of the channel for what it is.
LEMMA CollectVerdicts ==
    ASSUME AuditInv, Collect
    PROVE  VerdictsConserved' /\ ProgressInv'
  <1> USE DEF AuditInv, TypeOK
  <1> DEFINE r == Head(results)
  <1>1. /\ r = results[1] /\ 1 \in 1 .. Len(results) /\ Len(results) \in Nat
        /\ Len(results') = Len(results) - 1
        /\ \A k \in 1 .. Len(results') : results'[k] = results[k + 1]
    BY HeadTailProperties, LenProperties DEF Collect, ChannelTypes
  <1>2. /\ UNCHANGED <<pc, job, sent, processedCount>>
        /\ counted' = counted \cup {r.at}
    BY DEF Collect, workers
  <1>3. Holders' = Holders /\ InHand' = InHand /\ Finished' = Finished
    BY <1>2 DEF Holders, InHand, Finished
  <1>4. r.at \in InChannel /\ r.at \notin counted /\ r.at \in Places
    <2>1. r.at \in InChannel /\ r.at \notin counted
      BY <1>1 DEF InChannel, VerdictsConserved
    <2>2. r \in Result
      BY <1>1, ElementOfSeq DEF ChannelTypes
    <2> QED
      BY <2>1, <2>2 DEF Result
  <1>5. InChannel' = InChannel \ {r.at}
    <2>1. \A k \in 2 .. Len(results) : results[k].at # r.at
      BY <1>1 DEF VerdictsConserved
    <2>2. ASSUME NEW k \in 1 .. Len(results')
          PROVE  results'[k].at \in InChannel \ {r.at}
      <3>1. k + 1 \in 2 .. Len(results) /\ k + 1 \in 1 .. Len(results) /\ results'[k] = results[k + 1]
        BY <1>1
      <3> QED
        BY <2>1, <3>1 DEF InChannel
    <2>3. ASSUME NEW k \in 1 .. Len(results), results[k].at # r.at
          PROVE  results[k].at \in InChannel'
      <3>1. k # 1
        BY <1>1, <2>3
      <3>2. k - 1 \in 1 .. Len(results') /\ results'[k - 1] = results[k]
        BY <1>1, <3>1
      <3> QED
        BY <3>2 DEF InChannel
    <2> QED
      BY <2>2, <2>3 DEF InChannel
  <1>6. Right' = Right /\ Status' = Status
    BY SameStatus DEF Collect
  <1>7. r.status = Status[r.at]
    BY <1>1 DEF VerdictsConserved
  <1>8. match' = Cardinality(counted' \cap Right') /\ mismatch' = Cardinality(counted' \ Right')
    <2>1. IsFiniteSet(counted \cap Right) /\ IsFiniteSet(counted \ Right)
      BY PlacesFinite, FS_Subset DEF TallyTypes
    <2>2. CASE r.status = "OK"
      <3>1. r.at \in Right
        BY <1>4, <1>7, <2>2 DEF Right
      <3>2. counted' \cap Right = (counted \cap Right) \cup {r.at} /\ counted' \ Right = counted \ Right
        BY <1>2, <3>1
      <3>3. Cardinality(counted' \cap Right) = Cardinality(counted \cap Right) + 1
        BY <1>4, <2>1, <3>2, FS_AddElement
      <3> QED
        BY <1>6, <2>2, <3>2, <3>3 DEF Collect, VerdictsConserved
    <2>3. CASE r.status # "OK"
      <3>1. r.at \notin Right
        BY <1>7, <2>3 DEF Right
      <3>2. counted' \cap Right = counted \cap Right /\ counted' \ Right = (counted \ Right) \cup {r.at}
        BY <1>2, <3>1
      <3>3. Cardinality(counted' \ Right) = Cardinality(counted \ Right) + 1
        BY <1>4, <2>1, <3>2, FS_AddElement
      <3> QED
        BY <1>6, <2>3, <3>2, <3>3 DEF Collect, VerdictsConserved
    <2> QED
      BY <2>2, <2>3
  <1>9. VerdictsConserved'
    <2>1. \A k \in 1 .. Len(results') : results'[k].status = Status'[results'[k].at]
      BY <1>1, <1>6 DEF VerdictsConserved
    <2>2. \A j, k \in 1 .. Len(results') : results'[j].at = results'[k].at => j = k
      BY <1>1 DEF VerdictsConserved
    <2>3. /\ 1 .. sent' = InHand' \cup InChannel' \cup counted'
          /\ InHand' \cap (InChannel' \cup counted') = {} /\ InChannel' \cap counted' = {}
      BY <1>2, <1>3, <1>4, <1>5 DEF VerdictsConserved
    <2>4. \A u, v \in Holders' : job'[u] = job'[v] => u = v
      BY <1>2, <1>3 DEF VerdictsConserved
    <2> QED
      BY <1>8, <2>1, <2>2, <2>3, <2>4 DEF VerdictsConserved
  <1> QED
    BY <1>2, <1>3, <1>9 DEF ProgressInv

\* The steps that only end a goroutine move no entry.
LEMMA EndVerdicts ==
    ASSUME AuditInv,
           \/ \E w \in Workers : Exit(w)
           \/ CloseResults \/ CollectorEnds \/ Main \/ Done \/ UNCHANGED vars
    PROVE  VerdictsConserved' /\ ProgressInv'
  <1> USE DEF AuditInv, TypeOK
  <1>1. /\ UNCHANGED <<input, job, sent, results, counted, match, mismatch, processedCount>>
        /\ Holders' = Holders /\ InHand' = InHand
    <2>1. CASE \E w \in Workers : Exit(w)
      <3>1. PICK w \in Workers : Exit(w)
        BY <2>1
      <3>2. \A v \in Workers : pc'[v] = IF v = w THEN "exit" ELSE pc[v]
        BY <3>1 DEF Exit, Goto, PoolTypes
      <3> QED
        BY <3>1, <3>2 DEF Exit, tally, input, Holders, InHand
    <2>2. CASE CloseResults \/ CollectorEnds \/ Main
      BY <2>2 DEF CloseResults, CollectorEnds, Main, Prepare, Start, CloseJobs, WaitReturns, Rendezvous, Report,
                  workers, tally, input, Holders, InHand
    <2>3. CASE Done \/ UNCHANGED vars
      BY <2>3 DEF Done, vars, workers, tally, input, Holders, InHand
    <2> QED
      BY <2>1, <2>2, <2>3
  <1>2. Right' = Right /\ Status' = Status
    BY <1>1, SameStatus
  <1>3. InChannel' = InChannel /\ Finished' = Finished
    BY <1>1 DEF InChannel, Finished
  <1>4. VerdictsConserved'
    <2>1. \A k \in 1 .. Len(results') : results'[k].status = Status'[results'[k].at]
      BY <1>1, <1>2 DEF VerdictsConserved
    <2> QED
      BY <1>1, <1>2, <1>3, <2>1 DEF VerdictsConserved
  <1> QED
    BY <1>1, <1>3, <1>4 DEF ProgressInv

LEMMA InitAuditInv == Init => AuditInv
  BY InitTypeOK, InitEndOrder, InitMap, InitVerdicts, InitProgress DEF AuditInv

LEMMA NextAuditInv == AuditInv /\ [Next]_vars => AuditInv'
  <1> SUFFICES ASSUME AuditInv, [Next]_vars PROVE VerdictsConserved' /\ ProgressInv'
    BY NextTypeOK, NextEndOrder, NextMap DEF AuditInv
  <1>1. CASE \E w \in Workers : Worker(w)
    BY <1>1, TakeVerdicts, HashVerdicts, PutVerdicts, CountVerdicts, EndVerdicts DEF Worker
  <1>2. CASE Collector
    BY <1>2, CollectVerdicts, EndVerdicts DEF Collector
  <1>3. CASE CloseResults \/ Main \/ Done \/ UNCHANGED vars
    BY <1>3, EndVerdicts
  <1> QED
    BY <1>1, <1>2, <1>3 DEF Next

-----------------------------------------------------------------------------
(* The theorems.                                                           *)

\* Every variable keeps its type: the channel never holds more results than
\* it has room for, and a worker works on an entry that was sent.
THEOREM TypeCorrect == Spec => []TypeOK
  BY InitTypeOK, NextTypeOK, PTL DEF Spec

\* No worker sends on a closed channel, so the run does not panic.
THEOREM NeverPanics == Spec => []NoSendOnClosed
  <1>1. AuditInv => NoSendOnClosed
    BY DEF AuditInv, EndOrder
  <1> QED
    BY <1>1, InitAuditInv, NextAuditInv, PTL DEF Spec

\* However workers, collector and main interleave, every verdict reaches the
\* counters once and for what it is.
THEOREM VerdictsAreConserved == Spec => []VerdictsConserved
  <1>1. AuditInv => VerdictsConserved
    BY DEF AuditInv
  <1> QED
    BY <1>1, InitAuditInv, NextAuditInv, PTL DEF Spec

\* Once all are sent, let go and out of the channel, all are counted.
LEMMA AllCounted ==
    AuditInv /\ phase \in {"report", "done"} =>
        collector = "exit" /\ results = <<>> /\ counted = Places
  <1> SUFFICES ASSUME AuditInv, phase \in {"report", "done"}
               PROVE  collector = "exit" /\ results = <<>> /\ counted = Places
    OBVIOUS
  <1>1. collector = "exit" /\ results = <<>> /\ AllExited /\ sent = Len(list)
    BY DEF AuditInv, EndOrder, Drained
  <1>2. InHand = {} /\ InChannel = {}
    BY <1>1, EmptySeq DEF AllExited, InHand, Holders, InChannel
  <1> QED
    BY <1>1, <1>2 DEF AuditInv, VerdictsConserved, Places

\* Main reads the collector's counters only after the collector has stopped.
THEOREM ReadsFollowCounts == Spec => []ReadAfterCount
  <1>1. AuditInv => ReadAfterCount
    BY AllCounted DEF ReadAfterCount
  <1> QED
    BY <1>1, InitAuditInv, NextAuditInv, PTL DEF Spec

\* The last progress line shows the number of entries.
THEOREM ProgressIsFinal == Spec => []FinalProgress
  <1>1. AuditInv => FinalProgress
    <2> SUFFICES ASSUME AuditInv, phase \in {"rendezvous", "report", "done"}
                 PROVE  processedCount = Len(list)
      BY DEF FinalProgress
    <2>1. AllExited /\ sent = Len(list) /\ Len(list) \in Nat
      BY PlacesFinite DEF AuditInv, EndOrder
    <2>2. Holders = {}
      BY <2>1 DEF AllExited, Holders
    <2>3. Finished = 1 .. Len(list)
      BY <2>1, <2>2 DEF Finished
    <2>4. Cardinality(1 .. Len(list)) = Len(list)
      BY <2>1, IntervalSize
    <2> QED
      BY <2>3, <2>4 DEF AuditInv, ProgressInv
  <1> QED
    BY <1>1, InitAuditInv, NextAuditInv, PTL DEF Spec

-----------------------------------------------------------------------------
(* The lines about an entry, printed in two places.                        *)

\* The entries whose hash a worker has looked at, and the lines there are by now.
Hashed == (1 .. sent) \ {job[w] : w \in {v \in Workers : pc[v] = "hash"}}
Lines(i) ==
    (IF i \in Hashed /\ Status[i] = "ERROR" THEN 1 ELSE 0)
        + (IF i \in counted /\ Prints(Status[i]) THEN 1 ELSE 0)
PrintedInv == printed = [i \in Places |-> Lines(i)]

LEMMA InitPrinted == Init => PrintedInv
  <1> SUFFICES ASSUME Init PROVE PrintedInv
    OBVIOUS
  <1>1. Hashed = {} /\ counted = {}
    BY DEF Init, Hashed
  <1>2. \A i \in Places : Lines(i) = 0
    BY <1>1 DEF Lines
  <1> QED
    BY <1>2 DEF Init, PrintedInv

\* Lines is about what has changed.
LEMMA SameLines ==
    ASSUME PrintedInv, UNCHANGED input, Hashed' = Hashed, UNCHANGED <<counted, printed>>
    PROVE  PrintedInv'
  <1>1. Places' = Places /\ Status' = Status /\ UNCHANGED verbose
    BY SameStatus DEF input
  <1>2. \A i \in Places : Lines(i)' = Lines(i)
    BY <1>1 DEF Lines, Prints
  <1> QED
    BY <1>1, <1>2 DEF PrintedInv

\* The worker prints the line of an error as the entry leaves its first step.
LEMMA HashPrinted ==
    ASSUME AuditInv, PrintedInv, NEW w \in Workers, Hash(w)
    PROVE  PrintedInv'
  <1> USE DEF AuditInv, TypeOK
  <1>1. /\ Places' = Places /\ Status' = Status
        /\ UNCHANGED <<verbose, counted, job, sent>>
    BY SameStatus DEF Hash, input, tally
  <1>2. \A v \in Workers : pc'[v] = IF v = w THEN "put" ELSE pc[v]
    BY DEF Hash, Goto, PoolTypes
  <1>3. job[w] \in 1 .. sent /\ job[w] \in Places
    BY LenProperties DEF Hash, PoolTypes, Places, InputTypes
  <1>4. Hashed' = Hashed \cup {job[w]} /\ job[w] \notin Hashed
    <2>1. \A v \in Workers : pc[v] = "hash" /\ job[v] = job[w] => v = w
      BY DEF Hash, VerdictsConserved, Holders
    <2>2. {job'[v] : v \in {u \in Workers : pc'[u] = "hash"}}
              = {job[v] : v \in {u \in Workers : pc[u] = "hash"}} \ {job[w]}
      BY <1>1, <1>2, <2>1
    <2> QED
      BY <1>1, <1>3, <2>2 DEF Hash, Hashed
  <1>5. \A i \in Places : Lines(i)' = IF i = job[w] /\ Status[i] = "ERROR"
                                      THEN Lines(i) + 1 ELSE Lines(i)
    BY <1>1, <1>4 DEF Lines, Prints
  <1>6. printed' = IF Status[job[w]] = "ERROR" THEN [printed EXCEPT ![job[w]] = @ + 1] ELSE printed
    <2>1. w \in Holders
      BY DEF Hash, Holders
    <2> QED
      BY <2>1, HolderJudges DEF Hash
  <1>7. printed' = [i \in Places |-> IF i = job[w] /\ Status[i] = "ERROR"
                                     THEN Lines(i) + 1 ELSE Lines(i)]
    BY <1>3, <1>6 DEF PrintedInv
  <1> QED
    BY <1>1, <1>5, <1>7 DEF PrintedInv

\* The collector prints its line as it counts the entry.
LEMMA CollectPrinted ==
    ASSUME AuditInv, PrintedInv, Collect
    PROVE  PrintedInv'
  <1> USE DEF AuditInv, TypeOK
  <1> DEFINE r == Head(results)
  <1>1. /\ Places' = Places /\ Status' = Status
        /\ UNCHANGED <<verbose, pc, job, sent>>
    BY SameStatus DEF Collect, input, workers
  <1>2. r = results[1] /\ 1 \in 1 .. Len(results)
    BY HeadTailProperties, LenProperties DEF Collect, ChannelTypes
  <1>3. r.at \in Places /\ r.at \notin counted /\ r.status = Status[r.at]
    <2>1. r \in Result
      BY <1>2, ElementOfSeq DEF ChannelTypes
    <2>2. r.at \in InChannel
      BY <1>2 DEF InChannel
    <2> QED
      BY <1>2, <2>1, <2>2 DEF VerdictsConserved, Result
  <1>4. Hashed' = Hashed /\ counted' = counted \cup {r.at}
    BY <1>1 DEF Collect, Hashed
  <1>5. \A i \in Places : Lines(i)' = IF i = r.at /\ Prints(Status[i])
                                      THEN Lines(i) + 1 ELSE Lines(i)
    BY <1>1, <1>3, <1>4 DEF Lines, Prints
  <1>6. printed' = IF Prints(Status[r.at]) THEN [printed EXCEPT ![r.at] = @ + 1] ELSE printed
    BY <1>3 DEF Collect
  <1>7. printed' = [i \in Places |-> IF i = r.at /\ Prints(Status[i])
                                     THEN Lines(i) + 1 ELSE Lines(i)]
    BY <1>3, <1>6 DEF PrintedInv
  <1> QED
    BY <1>1, <1>5, <1>7 DEF PrintedInv

LEMMA NextPrinted == AuditInv /\ PrintedInv /\ [Next]_vars => PrintedInv'
  <1> SUFFICES ASSUME AuditInv, PrintedInv, [Next]_vars PROVE PrintedInv'
    OBVIOUS
  <1> USE DEF AuditInv, TypeOK
  <1>1. ASSUME NEW w \in Workers, Take(w) PROVE PrintedInv'
    <2>1. \A v \in Workers : /\ pc'[v] = IF v = w THEN "hash" ELSE pc[v]
                             /\ job'[v] = IF v = w THEN sent + 1 ELSE job[v]
      BY <1>1 DEF Take, Handed, Goto, PoolTypes
    <2>2. sent \in Nat /\ 1 .. sent + 1 = (1 .. sent) \cup {sent + 1} /\ sent + 1 \notin 1 .. sent
      BY LenProperties DEF InputTypes, PoolTypes
    <2>3. {job'[v] : v \in {u \in Workers : pc'[u] = "hash"}}
              = {job[v] : v \in {u \in Workers : pc[u] = "hash"}} \cup {sent + 1}
      BY <1>1, <2>1 DEF Take
    <2>4. Hashed' = Hashed
      BY <1>1, <2>2, <2>3 DEF Take, Hashed
    <2> QED
      BY <1>1, <2>4, SameLines DEF Take, tally
  <1>2. ASSUME NEW w \in Workers, Put(w) \/ Count(w) \/ Exit(w) PROVE PrintedInv'
    <2>1. \A v \in Workers : (pc'[v] = "hash") <=> (pc[v] = "hash")
      BY <1>2 DEF Put, Count, Exit, Goto, PoolTypes
    <2>2. \A v \in Workers : pc[v] = "hash" => job'[v] = job[v]
      BY <1>2 DEF Put, Count, Exit, PoolTypes
    <2>3. Hashed' = Hashed
      BY <1>2, <2>1, <2>2 DEF Put, Count, Exit, Hashed
    <2> QED
      BY <1>2, <2>3, SameLines DEF Put, Count, Exit, tally
  <1>3. CASE CloseResults \/ CollectorEnds \/ Main \/ Done \/ UNCHANGED vars
    <2>1. UNCHANGED <<input, pc, job, sent, counted, printed>>
      BY <1>3 DEF CloseResults, CollectorEnds, Main, Prepare, Start, CloseJobs, WaitReturns,
                  Rendezvous, Report, Done, vars, workers, tally
    <2> QED
      BY <2>1, SameLines DEF Hashed
  <1> QED
    BY <1>1, <1>2, <1>3, HashPrinted, CollectPrinted DEF Next, Worker, Collector

\* A run prints one line about each entry that does not match, and none about
\* the others; with -verbose one about each, and one more about each error.
THEOREM LinesArePrinted == Spec => []LinesPrinted
  <1>1. AuditInv /\ PrintedInv => LinesPrinted
    <2> SUFFICES ASSUME AuditInv, PrintedInv, phase = "done", NEW i \in Places
                 PROVE  printed[i] = IF verbose THEN (IF Status[i] = "ERROR" THEN 2 ELSE 1)
                                     ELSE (IF Status[i] = "OK" THEN 0 ELSE 1)
      BY DEF LinesPrinted
    <2>1. counted = Places
      BY AllCounted
    <2>2. AllExited /\ sent = Len(list)
      BY DEF AuditInv, EndOrder
    <2>3. Hashed = Places
      BY <2>2 DEF Hashed, AllExited, Places
    <2>4. Status[i] \in {"OK", "MISMATCH", "ERROR"} /\ verbose \in BOOLEAN
      BY StatusType DEF AuditInv, TypeOK, InputTypes
    <2> QED
      BY <2>1, <2>3, <2>4 DEF PrintedInv, Lines, Prints
  <1> QED
    BY <1>1, InitAuditInv, NextAuditInv, InitPrinted, NextPrinted, PTL DEF Spec

-----------------------------------------------------------------------------
(* Refinement: a run of -verify is an audit of the list.                   *)

LEMMA InitImplements == Init => Implements!Init
  BY DEF Init, Implements!Init, Wrong

LEMMA StepImplements ==
    AuditInv /\ [Next]_vars => [Implements!Next]_(Implements!vars)
  <1> SUFFICES ASSUME AuditInv, [Next]_vars
               PROVE  Implements!Next \/ UNCHANGED Implements!vars
    OBVIOUS
  <1>1. UNCHANGED input
    BY DEF Next, Worker, Take, Hash, Put, Count, Exit, CloseResults, Collector, Collect,
           CollectorEnds, Main, Prepare, Start, CloseJobs, WaitReturns, Rendezvous, Report, Done, vars
  <1>2. Right' = Right /\ Wrong' = Wrong /\ Right \cup Wrong = Places
    BY <1>1, SameStatus DEF Wrong, Right
  <1>3. CASE Collect
    <2>1. \E e \in Places \ counted : counted' = counted \cup {e}
      <3>1. Head(results) = results[1] /\ 1 \in 1 .. Len(results)
        BY <1>3, HeadTailProperties, LenProperties DEF Collect, AuditInv, TypeOK, ChannelTypes
      <3>2. results[1] \in Result
        BY <3>1, ElementOfSeq DEF AuditInv, TypeOK, ChannelTypes
      <3>3. Head(results).at \in Places \ counted
        BY <3>1, <3>2 DEF AuditInv, VerdictsConserved, InChannel, Result
      <3> QED
        BY <1>3, <3>3 DEF Collect
    <2>2. report' = report
      BY <1>3 DEF Collect
    <2> QED
      BY <1>2, <2>1, <2>2 DEF Implements!Next, Implements!Judge
  <1>4. CASE Report
    <2>1. counted = Places /\ report = {}
      BY <1>4, AllCounted DEF Report, AuditInv, EndOrder
    <2>2. Cardinality(Places) = Len(list)
      BY PlacesFinite, IntervalSize DEF AuditInv, Places
    <2>3. match = Cardinality(Right) /\ mismatch = Cardinality(Wrong)
      <3>1. counted \cap Right = Right /\ counted \ Right = Wrong
        BY <2>1 DEF Right, Wrong
      <3> QED
        BY <3>1 DEF AuditInv, VerdictsConserved
    <2>4. (mismatch = 0) <=> (Wrong = {})
      <3>1. IsFiniteSet(Wrong)
        BY PlacesFinite, FS_Subset DEF AuditInv, Wrong
      <3> QED
        BY <2>3, <3>1, FS_EmptySet
    <2>5. report' = {Implements!Verdict(Right, Wrong)}
      <3>1. (mismatch = 0) = (Wrong = {})
        BY <2>4
      <3>2. Implements!Verdict(Right, Wrong) =
              [total |-> Cardinality(Places), match |-> Cardinality(Right),
               mismatch |-> Cardinality(Wrong), allMatch |-> Wrong = {}]
        <4>1. Right \cup Wrong = Places
          BY <1>2
        <4> QED
          BY <4>1, Zenon DEF Implements!Verdict
      <3>3. report' = {[total |-> Len(list), match |-> match, mismatch |-> mismatch,
                        allMatch |-> mismatch = 0]}
        BY <1>4 DEF Report
      <3> QED
        BY <2>2, <2>3, <3>1, <3>2, <3>3, Zenon
    <2>6. counted' = counted
      BY <1>4 DEF Report, tally
    <2> QED
      BY <1>2, <2>1, <2>5, <2>6 DEF Implements!Next, Implements!Publish
  <1>5. CASE ~Collect /\ ~Report
    <2>1. UNCHANGED <<counted, report>>
      BY <1>5 DEF Next, Worker, Take, Hash, Put, Count, Exit, CloseResults, Collector,
           CollectorEnds, Main, Prepare, Start, CloseJobs, WaitReturns, Rendezvous, Done, vars, tally
    <2> QED
      BY <1>2, <2>1 DEF Implements!vars
  <1> QED
    BY <1>3, <1>4, <1>5

\* A run of -verify implements the audit: nothing it counts or reports is
\* anything but a judgement of one entry or the one final report.  (That the
\* report comes is liveness, which the run of Verify_pool.cfg checks.)
THEOREM VerifyImplementsAudit == Spec => Implements!Safety
  <1>1. AuditInv /\ [Next]_vars => [Implements!Next]_(Implements!vars)
    BY StepImplements
  <1> QED
    BY <1>1, InitImplements, InitAuditInv, NextAuditInv, PTL DEF Spec, Implements!Safety
=============================================================================
