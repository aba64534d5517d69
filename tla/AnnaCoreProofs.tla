--------------------------- MODULE AnnaCoreProofs ---------------------------
(***************************************************************************)
(* For every batch size, workload, cluster size and latency: the types,    *)
(* the order of the pipeline and the order of the EFM of AnnaCore.         *)
(***************************************************************************)
EXTENDS AnnaCore, FiniteSetTheorems, TLAPS

(* A submission makes a natural number of requests.                        *)
LEMMA OffsetsFinite ==
  ASSUME NEW i, NEW n \in Nat
  PROVE  IsFiniteSet({i} \X {k \in 0 .. n : k * STRIDE < n})
<1>1. IsFiniteSet(0 .. n)
  BY FS_Interval, 0 \in Int, n \in Int
<1>2. {k \in 0 .. n : k * STRIDE < n} \in SUBSET (0 .. n)
  OBVIOUS
<1>3. IsFiniteSet({k \in 0 .. n : k * STRIDE < n})
  BY <1>1, <1>2, FS_Subset
<1> QED BY Zenon, <1>3, FS_Singleton, FS_Product

LEMMA RequestsCountable ==
  ASSUME NEW S, NEW q \in Seq(S), NEW len \in [S -> Nat]
  PROVE  Cardinality(ReadRequests(q, len)) \in Nat
<1> DEFINE Of(i) == {i} \X {k \in 0 .. len[q[i]] : k * STRIDE < len[q[i]]}
           All == {Of(i) : i \in DOMAIN q}
           f == [i \in DOMAIN q |-> Of(i)]
<1>1. \A i \in DOMAIN q : IsFiniteSet(Of(i))
  <2>1. \A i \in DOMAIN q : len[q[i]] \in Nat
    OBVIOUS
  <2> QED BY Zenon, <2>1, OffsetsFinite
<1>2. IsFiniteSet(DOMAIN q)
  <2>1. Len(q) \in Int /\ DOMAIN q = 1 .. Len(q)
    OBVIOUS
  <2> QED BY <2>1, 1 \in Int, FS_Interval
<1>3. f \in Surjection(DOMAIN q, All)
  <2> HIDE DEF Of
  <2>1. f \in [DOMAIN q -> All]
    OBVIOUS
  <2>2. \A t \in All : \E i \in DOMAIN q : f[i] = t
    OBVIOUS
  <2> QED BY <2>1, <2>2, Zenon DEF Surjection
<1>4. IsFiniteSet(All)
  <2> HIDE DEF All, f
  <2> QED BY <1>2, <1>3, FS_Surjection
<1>5. IsFiniteSet(UNION All)
  <2>1. \A T \in All : IsFiniteSet(T)
    BY <1>1
  <2> HIDE DEF All
  <2> QED BY <1>4, <2>1, FS_UNION
<1>6. ReadRequests(q, len) = UNION All
  BY DEF ReadRequests
<1> HIDE DEF All
<1> QED BY <1>5, <1>6, FS_CardinalityType

(* What the operations of a reader do to its counters.                     *)
LEMMA TickCounted ==
  ASSUME NEW r \in Reader, NEW res \in Nat, Counted(r, res)
  PROVE  /\ ReaderClockTick(r, res) \in Reader
         /\ Counted(ReaderClockTick(r, res), 0)
         /\ ReaderClockTick(r, res).finished = r.finished
BY ReadsPerTickAssumption DEF Reader, Counted, ReaderClockTick

LEMMA ResetCounted ==
  ASSUME NEW r \in Reader, Counted(r, 0)
  PROVE  /\ FinishAndReset(r) \in Reader
         /\ Counted(FinishAndReset(r), 0)
         /\ FinishAndReset(r).processing_num = r.processing_num
         /\ FinishAndReset(r).finished <=> r.processing_num = 0
         /\ JustFinished(r) <=> r.processing_num = 0 /\ ~ r.finished
BY Zenon DEF Reader, Counted, FinishAndReset, JustFinished

LEMMA SubmitCounted ==
  ASSUME NEW S, NEW r \in Reader, NEW q \in Seq(S), NEW len \in [S -> Nat], Counted(r, 0)
  PROVE  /\ SubmitReadRequests(r, q, len) \in Reader
         /\ Counted(SubmitReadRequests(r, q, len), 0)
         /\ q = << >> => SubmitReadRequests(r, q, len) = r
         /\ q # << >> => ~ SubmitReadRequests(r, q, len).finished
BY RequestsCountable DEF Reader, Counted, SubmitReadRequests
-----------------------------------------------------------------------------
(* Type correctness, with the reader counters it needs.                    *)
LEMMA ScmRoundsType ==
  ASSUME NEW n \in Nat
  PROVE  (ScmCycles * ScmRounds(n)) % WordSize \in Nat
<1>1. (n - 1) % WordSize \in Nat
  BY ScmAssumption
<1>2. ((n - 1) % WordSize) \div NScm \in Nat
  BY <1>1, ScmAssumption
<1>3. ScmRounds(n) \in Nat
  BY <1>2 DEF ScmRounds
<1>4. ScmCycles * ScmRounds(n) \in Nat
  BY <1>3, ScmAssumption
<1> QED BY <1>4, ScmAssumption

TypeInv == TypeOK /\ ReadersCounted

LEMMA InitTyped == Init => TypeInv
<1> SUFFICES ASSUME Init PROVE TypeInv
  OBVIOUS
<1>1. NewReader \in Reader /\ Counted(NewReader, 0)
  BY DEF NewReader, Reader, Counted
<1>2. CpmTypeOK
  BY <1>1, CpmAssumption DEF Init, CpmInit, CpmTypeOK
<1>3. EfmTypeOK /\ ScmTypeOK
  BY <1>1 DEF Init, EfmInit, EfmTypeOK, ScmInit, ScmTypeOK
<1>4. ReadersCounted
  BY <1>1 DEF Init, CpmInit, EfmInit, ReadersCounted, ReaderName
<1>5. /\ read_ready \in [ReaderName -> Nat]
      /\ started \in SUBSET (Nat \X Nat) /\ saved \in SUBSET (Nat \X Nat)
  BY DEF Init
<1>6. slice_queries \in Nat /\ efm_fetching_request_num \in Nat
  BY CoreAssumption DEF Init
<1> QED BY Zenon, <1>2, <1>3, <1>4, <1>5, <1>6 DEF Init, TypeInv, TypeOK, Index, NONE

LEMMA MemoryTyped == TypeInv /\ Memory => TypeInv'
<1> SUFFICES ASSUME TypeInv, Memory PROVE TypeInv'
  OBVIOUS
<1> USE DEF TypeInv, ReaderName
<1>1. PICK c \in 0 .. Outstanding("cpm"), m \in 0 .. Outstanding("metadata"),
           v \in 0 .. Outstanding("vector") :
        read_ready' = [read_ready EXCEPT !["cpm"] = @ + c, !["metadata"] = @ + m,
                                         !["vector"] = @ + v]
  BY Zenon DEF Memory
<1>2. /\ Outstanding("cpm") = cpm_reader.processing_num - cpm_reader.queued - read_ready["cpm"]
      /\ Outstanding("metadata") = metadata_reader.processing_num - metadata_reader.queued
                                     - read_ready["metadata"]
      /\ Outstanding("vector") = vector_reader.processing_num - vector_reader.queued
                                   - read_ready["vector"]
  BY DEF Outstanding, ReaderOf
<1>3. /\ cpm_reader \in Reader /\ metadata_reader \in Reader /\ vector_reader \in Reader
      /\ read_ready \in [{"cpm", "metadata", "vector"} -> Nat]
  BY DEF TypeOK, CpmTypeOK, EfmTypeOK
<1>4. /\ read_ready["cpm"] \in Nat /\ read_ready["metadata"] \in Nat
      /\ read_ready["vector"] \in Nat
      /\ c \in Nat /\ m \in Nat /\ v \in Nat
  BY <1>3
<1>5. read_ready' \in [{"cpm", "metadata", "vector"} -> Nat]
  BY <1>1, <1>3, <1>4
<1>6. /\ read_ready'["cpm"] = read_ready["cpm"] + c
      /\ read_ready'["metadata"] = read_ready["metadata"] + m
      /\ read_ready'["vector"] = read_ready["vector"] + v
  BY <1>1, <1>3, <1>4
<1>7. UNCHANGED << cpm_reader, metadata_reader, vector_reader >>
  BY DEF Memory, cpmVars, efmVars
<1>8. ReadersCounted'
  BY <1>2, <1>3, <1>4, <1>6, <1>7 DEF ReadersCounted, Counted, Reader
<1>9. TypeOK'
  BY Zenon, <1>5 DEF TypeOK, Memory, cpmVars, efmVars, coreVars, batchVars, indexVars, resultVars,
              CpmTypeOK, EfmTypeOK, ScmTypeOK
<1> QED BY <1>8, <1>9

LEMMA CpmTickTyped == TypeInv /\ CpmTick => TypeInv'
<1> SUFFICES ASSUME TypeInv, CpmTick PROVE TypeInv'
  OBVIOUS
<1> USE DEF TypeInv, ReaderName
<1> DEFINE ticked == ReaderClockTick(cpm_reader, read_ready["cpm"])
           reset == FinishAndReset(ticked)
           centroids == [i \in 1 .. Round |-> "centroid"]
           length == [centroid |-> VectorSize]
<1>1. /\ cpm_reader \in Reader
      /\ read_ready \in [{"cpm", "metadata", "vector"} -> Nat]
      /\ read_ready["cpm"] \in Nat
      /\ Counted(cpm_reader, read_ready["cpm"])
      /\ cpm_remind \in {INVALID} \cup 0 .. CpmCycles
      /\ wait_addr \in Nat
  BY DEF TypeOK, CpmTypeOK, ReadersCounted
<1>2. ticked \in Reader /\ Counted(ticked, 0)
  BY <1>1, TickCounted
<1>3. reset \in Reader /\ Counted(reset, 0)
  BY <1>2, ResetCounted
<1>4. Round \in Nat /\ wait_addr - Round \in Nat
  BY <1>1, CpmAssumption DEF Round
<1>5. SubmitReadRequests(reset, centroids, length) \in Reader
      /\ Counted(SubmitReadRequests(reset, centroids, length), 0)
  <2>1. centroids \in Seq({"centroid"})
    BY <1>4
  <2>2. length \in [{"centroid"} -> Nat]
    BY CpmAssumption
  <2> HIDE DEF reset, centroids, length
  <2> QED BY <1>3, <2>1, <2>2, SubmitCounted
<1>6. /\ cpm_reader' \in Reader /\ Counted(cpm_reader', 0)
      /\ cpm_remind' \in {INVALID} \cup 0 .. CpmCycles
      /\ wait_addr' \in Nat
  <2>1. CpmClockTick(read_ready["cpm"])
    BY DEF CpmTick
  <2> HIDE DEF ticked, reset, centroids, length
  <2>2. \/ /\ CpmComputing /\ cpm_reader' = ticked
           /\ cpm_remind' = cpm_remind - 1 /\ wait_addr' = wait_addr
        \/ cpm_reader' = reset /\ cpm_remind' = CpmCycles /\ wait_addr' = wait_addr
        \/ /\ cpm_reader' = SubmitReadRequests(reset, centroids, length)
           /\ cpm_remind' = INVALID /\ wait_addr' = wait_addr - Round
        \/ cpm_reader' = reset /\ cpm_remind' = cpm_remind /\ wait_addr' = wait_addr
    BY <2>1 DEF CpmClockTick, ticked, reset, centroids, length
  <2> QED BY <1>1, <1>2, <1>3, <1>4, <1>5, <2>2, CpmAssumption DEF CpmComputing, INVALID
<1>7. /\ read_ready' \in [{"cpm", "metadata", "vector"} -> Nat]
      /\ read_ready'["cpm"] = 0
      /\ read_ready'["metadata"] = read_ready["metadata"]
      /\ read_ready'["vector"] = read_ready["vector"]
  BY <1>1 DEF CpmTick
<1>8. ReadersCounted'
  BY <1>6, <1>7 DEF CpmTick, efmVars, ReadersCounted, Counted
<1>9. TypeOK'
  BY <1>6, <1>7 DEF TypeOK, CpmTick, efmVars, coreVars, batchVars, indexVars, resultVars,
                    CpmTypeOK, EfmTypeOK, ScmTypeOK
<1> QED BY <1>8, <1>9

(* What a tick of the EFM does, in terms of the reads left after the       *)
(* answers of the tick: a reader that has none left and reads nothing new  *)
(* is finished.                                                            *)
MetadataLeft == metadata_reader.processing_num - read_ready["metadata"]
VectorsLeft == vector_reader.processing_num - read_ready["vector"]
MoveOn == fetching_request_num' = submited_request_num - 1 /\ MetadataLeft = 0
ToRead == IF MoveOn THEN vector_queue \o cluster_queue ELSE vector_queue
ReadNow == fetched_request_num' = fetching_request_num' - 1 /\ VectorsLeft = 0

LEMMA EfmTickEffect ==
  ASSUME TypeInv, EfmTick
  PROVE  /\ metadata_reader' \in Reader /\ Counted(metadata_reader', 0)
         /\ vector_reader' \in Reader /\ Counted(vector_reader', 0)
         /\ fetching_request_num' = fetching_request_num
              + (IF ~ metadata_reader.finished /\ MetadataLeft = 0 THEN 1 ELSE 0)
         /\ fetched_request_num' = fetched_request_num
              + (IF ~ vector_reader.finished /\ VectorsLeft = 0 THEN 1 ELSE 0)
         /\ metadata_reader'.finished <=> MetadataLeft = 0 /\ ~ (MoveOn /\ metadata_queue # << >>)
         /\ vector_reader'.finished <=> VectorsLeft = 0 /\ ~ (ReadNow /\ ToRead # << >>)
         /\ metadata_queue' = IF MoveOn THEN << >> ELSE metadata_queue
         /\ cluster_queue' = IF MoveOn THEN metadata_queue ELSE cluster_queue
         /\ vector_queue' = IF ReadNow THEN << >> ELSE ToRead
         /\ submited_request_num' = submited_request_num
<1> USE DEF TypeInv
<1> DEFINE metaTicked == ReaderClockTick(metadata_reader, read_ready["metadata"])
           metaReset == FinishAndReset(metaTicked)
           vecTicked == ReaderClockTick(vector_reader, read_ready["vector"])
           vecReset == FinishAndReset(vecTicked)
<1>1. /\ metadata_reader \in Reader /\ vector_reader \in Reader
      /\ read_ready["metadata"] \in Nat /\ read_ready["vector"] \in Nat
      /\ Counted(metadata_reader, read_ready["metadata"])
      /\ Counted(vector_reader, read_ready["vector"])
      /\ metadata_queue \in Seq(Cluster) /\ ToRead \in Seq(Cluster)
  BY DEF TypeOK, EfmTypeOK, ReadersCounted, ReaderName, ToRead
<1>2. /\ metaTicked \in Reader /\ Counted(metaTicked, 0)
      /\ vecTicked \in Reader /\ Counted(vecTicked, 0)
      /\ metaTicked.finished = metadata_reader.finished
      /\ vecTicked.finished = vector_reader.finished
  BY <1>1, TickCounted
<1>3. metaTicked.processing_num = MetadataLeft /\ vecTicked.processing_num = VectorsLeft
  BY DEF ReaderClockTick, MetadataLeft, VectorsLeft
<1> HIDE DEF metaTicked, vecTicked
<1>4. /\ metaReset \in Reader /\ Counted(metaReset, 0)
      /\ vecReset \in Reader /\ Counted(vecReset, 0)
      /\ metaReset.processing_num = MetadataLeft /\ vecReset.processing_num = VectorsLeft
      /\ metaReset.finished <=> MetadataLeft = 0
      /\ vecReset.finished <=> VectorsLeft = 0
      /\ JustFinished(metaTicked) <=> ~ metadata_reader.finished /\ MetadataLeft = 0
      /\ JustFinished(vecTicked) <=> ~ vector_reader.finished /\ VectorsLeft = 0
  BY <1>2, <1>3, ResetCounted
<1> HIDE DEF metaReset, vecReset
<1> DEFINE metaSubmit == SubmitReadRequests(metaReset, metadata_queue, MetadataLen)
           vecSubmit == SubmitReadRequests(vecReset, ToRead, VectorLen)
<1>5. /\ metaSubmit \in Reader /\ Counted(metaSubmit, 0)
      /\ metadata_queue = << >> => metaSubmit = metaReset
      /\ metadata_queue # << >> => ~ metaSubmit.finished
      /\ vecSubmit \in Reader /\ Counted(vecSubmit, 0)
      /\ ToRead = << >> => vecSubmit = vecReset
      /\ ToRead # << >> => ~ vecSubmit.finished
  BY <1>1, <1>4, EfmAssumption, SubmitCounted
<1>6. /\ fetching_request_num' = fetching_request_num + (IF JustFinished(metaTicked) THEN 1 ELSE 0)
      /\ fetched_request_num' = fetched_request_num + (IF JustFinished(vecTicked) THEN 1 ELSE 0)
      /\ metadata_reader' = IF MoveOn THEN metaSubmit ELSE metaReset
      /\ cluster_queue' = IF MoveOn THEN metadata_queue ELSE cluster_queue
      /\ metadata_queue' = IF MoveOn THEN << >> ELSE metadata_queue
      /\ vector_reader' = IF ReadNow THEN vecSubmit ELSE vecReset
      /\ vector_queue' = IF ReadNow THEN << >> ELSE ToRead
      /\ submited_request_num' = submited_request_num
  <2>1. IsReady(metaReset) <=> MetadataLeft = 0
    BY <1>4 DEF IsReady
  <2>2. IsReady(vecReset) <=> VectorsLeft = 0
    BY <1>4 DEF IsReady
  <2>3. EfmClockTick(read_ready["metadata"], read_ready["vector"])
    BY DEF EfmTick
  <2> QED BY <2>1, <2>2, <2>3
          DEF EfmClockTick, NowReading, MoveOn, ReadNow, ToRead, metaTicked, vecTicked,
              metaReset, vecReset
<1> HIDE DEF metaSubmit, vecSubmit
<1> QED BY <1>4, <1>5, <1>6

LEMMA EfmTickTyped == TypeInv /\ EfmTick => TypeInv'
<1> SUFFICES ASSUME TypeInv, EfmTick PROVE TypeInv'
  OBVIOUS
<1> USE DEF TypeInv, ReaderName
<1>1. /\ read_ready \in [{"cpm", "metadata", "vector"} -> Nat]
      /\ metadata_queue \in Seq(Cluster) /\ cluster_queue \in Seq(Cluster)
      /\ ToRead \in Seq(Cluster)
      /\ fetching_request_num \in Nat /\ fetched_request_num \in Nat
      /\ submited_request_num \in Nat
  BY DEF TypeOK, EfmTypeOK, ToRead
<1>2. EfmTypeOK'
  <2>1. /\ metadata_queue' \in Seq(Cluster) /\ cluster_queue' \in Seq(Cluster)
        /\ vector_queue' \in Seq(Cluster)
    <3> << >> \in Seq(Cluster)
      OBVIOUS
    <3> HIDE DEF TypeInv
    <3> QED BY <1>1, EfmTickEffect, Zenon
  <2>2. /\ fetching_request_num' \in Nat /\ fetched_request_num' \in Nat
        /\ submited_request_num' \in Nat
    BY <1>1, EfmTickEffect
  <2> QED BY <2>1, <2>2, EfmTickEffect DEF EfmTypeOK
<1>3. /\ read_ready' \in [{"cpm", "metadata", "vector"} -> Nat]
      /\ read_ready'["metadata"] = 0 /\ read_ready'["vector"] = 0
      /\ read_ready'["cpm"] = read_ready["cpm"]
  BY <1>1 DEF EfmTick
<1>4. ReadersCounted'
  BY <1>3, EfmTickEffect DEF EfmTick, cpmVars, ReadersCounted
<1>5. TypeOK'
  BY <1>2, <1>3 DEF TypeOK, EfmTick, cpmVars, coreVars, batchVars, indexVars, resultVars,
                    CpmTypeOK, ScmTypeOK
<1> QED BY <1>4, <1>5

LEMMA ScmTickTyped == TypeInv /\ ScmTick => TypeInv'
<1> SUFFICES ASSUME TypeInv, ScmTick PROVE TypeInv'
  OBVIOUS
<1> USE DEF TypeInv
<1>1. ScmTypeOK'
  BY DEF TypeOK, ScmTick, ScmTypeOK, ScmClockTick
<1>2. ReadersCounted'
  BY DEF ScmTick, ReadersCounted, cpmVars, efmVars
<1>3. TypeOK'
  BY <1>1 DEF TypeOK, ScmTick, cpmVars, efmVars, coreVars, batchVars, indexVars, resultVars,
              CpmTypeOK, EfmTypeOK
<1> QED BY <1>2, <1>3

LEMMA SkipTyped == TypeInv /\ Skip => TypeInv'
BY DEF TypeInv, Skip, TypeOK, ReadersCounted, cpmVars, efmVars, coreVars, batchVars, indexVars,
       resultVars, CpmTypeOK, EfmTypeOK, ScmTypeOK
-----------------------------------------------------------------------------
(* The pipeline moves its batches in order.  The types of the four actions *)
(* that move a batch rest on the stages holding batches.                   *)
Pipeline == StagesHoldBatches /\ BatchesConsecutive

pipelineVars == << work, batchVars, indexVars >>

LEMMA WorkFacts ==
  ASSUME TypeInv
  PROVE  /\ work.num \in Nat
         /\ work.cluster \in [Slices -> Cluster]
         /\ work.size \in [Slices -> Nat \ {0}]
         /\ \A s \in Slices : s \in Nat /\ s < work.num
         /\ \A s \in Nat : s < work.num => s \in Slices
BY CoreAssumption DEF TypeInv, TypeOK, IsWork, Slices

LEMMA BatchType ==
  ASSUME NEW s \in Nat, NEW l \in Nat, NEW r \in Nat
  PROVE  Batch(s, l, r) \in SUBSET (Nat \X Nat)
BY DEF Batch

LEMMA ModulesKept ==
  /\ CpmTypeOK /\ UNCHANGED cpmVars => CpmTypeOK'
  /\ EfmTypeOK /\ UNCHANGED efmVars => EfmTypeOK'
  /\ ReadersCounted /\ UNCHANGED << cpmVars, efmVars, read_ready >> => ReadersCounted'
BY DEF CpmTypeOK, EfmTypeOK, ReadersCounted, cpmVars, efmVars

LEMMA PipelineStutters == Pipeline /\ UNCHANGED pipelineVars => Pipeline'
<1> SUFFICES ASSUME Pipeline, UNCHANGED pipelineVars PROVE Pipeline'
  OBVIOUS
<1> USE DEF pipelineVars, batchVars, indexVars
<1>1. UNCHANGED << FillStart, CpmStart, EfmStart >>
  BY DEF FillStart, CpmStart, EfmStart
<1>2. StagesHoldBatches'
  BY <1>1 DEF Pipeline, StagesHoldBatches, IsBatch, Slices
<1>3. BatchesConsecutive'
  BY <1>1 DEF Pipeline, BatchesConsecutive, After
<1> QED BY <1>2, <1>3 DEF Pipeline

LEMMA SaveTyped == TypeInv /\ Pipeline /\ Save => TypeInv'
<1> SUFFICES ASSUME TypeInv, Pipeline, Save PROVE TypeInv'
  OBVIOUS
<1>1. IsBatch(scm_index, saving_l, saving_r)
  BY Zenon DEF Save, CanSave, Pipeline, StagesHoldBatches
<1>2. saved' \in SUBSET (Nat \X Nat)
  <2>1. scm_index \in Nat /\ saving_l \in Nat /\ saving_r \in Nat
    BY <1>1, WorkFacts DEF IsBatch
  <2>2. Batch(scm_index, saving_l, saving_r) \in SUBSET (Nat \X Nat)
    BY <2>1, BatchType
  <2> QED BY <2>2 DEF TypeInv, TypeOK, Save, SavedBatch
<1>3. finished' \in BOOLEAN
  BY DEF Save
<1> QED BY <1>2, <1>3 DEF TypeInv, TypeOK, Save, ReadersCounted, cpmVars, efmVars, batchVars,
                          Index, CpmTypeOK, EfmTypeOK, ScmTypeOK

LEMMA SavePipeline == TypeInv /\ Pipeline /\ Save => Pipeline'
<1> SUFFICES ASSUME TypeInv, Pipeline, Save PROVE Pipeline'
  OBVIOUS
<1>1. UNCHANGED << work, batchVars, cpm_index, efm_index, pre_efm_index >> /\ scm_index' = NONE
  BY DEF Save
<1>2. UNCHANGED << FillStart, CpmStart, EfmStart >>
  BY <1>1 DEF batchVars, FillStart, CpmStart, EfmStart
<1>3. StagesHoldBatches'
  BY <1>1, <1>2 DEF Pipeline, StagesHoldBatches, IsBatch, Slices, batchVars
<1>4. BatchesConsecutive'
  BY <1>1, <1>2 DEF Pipeline, BatchesConsecutive, After, batchVars
<1> QED BY <1>3, <1>4 DEF Pipeline

LEMMA ProcessTyped == TypeInv /\ Pipeline /\ Process => TypeInv'
<1> SUFFICES ASSUME TypeInv, Pipeline, Process PROVE TypeInv'
  OBVIOUS
<1>1. IsBatch(efm_index, process_l, process_r)
  BY Zenon DEF Process, CanProcess, Pipeline, StagesHoldBatches
<1>2. VectorNum[efm_index] * work.size[efm_index] \in Nat
  <2>1. efm_index \in Cluster
    BY <1>1, CoreAssumption DEF IsBatch, IsWork, Slices, TypeInv, TypeOK
  <2>2. VectorNum[efm_index] \in Nat
    BY <2>1, CoreAssumption
  <2>3. work.size[efm_index] \in Nat
    BY <1>1, WorkFacts DEF IsBatch
  <2> QED BY <2>2, <2>3
<1>3. scm_remind' \in Nat
  BY <1>2, ScmRoundsType DEF Process, ScmSubmit
<1>4. UNCHANGED << read_ready, work, cpmVars, efmVars, resultVars >>
  BY DEF Process
<1>5. CpmTypeOK' /\ EfmTypeOK' /\ ScmTypeOK' /\ ReadersCounted'
  BY <1>3, <1>4, ModulesKept DEF TypeInv, TypeOK, ScmTypeOK
<1> QED BY <1>4, <1>5 DEF TypeInv, TypeOK, Process, resultVars, Index

LEMMA ProcessPipeline == TypeInv /\ Pipeline /\ Process => Pipeline'
<1> SUFFICES ASSUME TypeInv, Pipeline, Process PROVE Pipeline'
  OBVIOUS
<1>1. /\ UNCHANGED << work, slice, slice_changed, slice_queries, next_l, next_r, cpm_index,
                      pre_efm_index >>
      /\ scm_index' = efm_index /\ saving_l' = process_l /\ saving_r' = process_r
      /\ efm_index' = NONE /\ efm_index # NONE
  BY DEF Process, CanProcess
<1>2. UNCHANGED << FillStart, CpmStart >> /\ EfmStart' = CpmStart
  BY <1>1 DEF FillStart, CpmStart, EfmStart
<1>3. StagesHoldBatches'
  BY <1>1, <1>2 DEF Pipeline, StagesHoldBatches, IsBatch, Slices
<1>4. BatchesConsecutive'
  BY <1>1, <1>2 DEF Pipeline, BatchesConsecutive, After
<1> QED BY <1>3, <1>4 DEF Pipeline

LEMMA PrefetchTyped == TypeInv /\ Pipeline /\ Prefetch => TypeInv'
<1> SUFFICES ASSUME TypeInv, Pipeline, Prefetch PROVE TypeInv'
  OBVIOUS
<1>1. IsBatch(cpm_index, next_l, next_r)
  BY Zenon DEF Prefetch, CanPrefetch, Pipeline, StagesHoldBatches
<1>2. << work.cluster[cpm_index] >> \in Seq(Cluster)
  BY <1>1, WorkFacts DEF IsBatch
<1>3. EfmTypeOK' /\ efm_fetching_request_num' \in Nat
  <2>1. CASE UNCHANGED << efmVars, efm_fetching_request_num >>
    BY <2>1 DEF TypeInv, TypeOK, EfmTypeOK, efmVars
  <2>2. CASE /\ EfmSubmitRequest(<< work.cluster[cpm_index] >>)
             /\ efm_fetching_request_num' = EfmRequestNumber
    <3>1. metadata_queue' \in Seq(Cluster)
      BY <1>2, <2>2 DEF TypeInv, TypeOK, EfmTypeOK, EfmSubmitRequest
    <3> QED BY <2>2, <3>1 DEF TypeInv, TypeOK, EfmTypeOK, EfmSubmitRequest, EfmRequestNumber
  <2> QED BY <2>1, <2>2 DEF Prefetch
<1>4. UNCHANGED << metadata_reader, vector_reader >>
  BY DEF Prefetch, EfmSubmitRequest, efmVars
<1> QED BY <1>3, <1>4 DEF TypeInv, TypeOK, Prefetch, ReadersCounted, cpmVars, resultVars,
                          Index, CpmTypeOK, ScmTypeOK

LEMMA PrefetchPipeline == TypeInv /\ Pipeline /\ Prefetch => Pipeline'
<1> SUFFICES ASSUME TypeInv, Pipeline, Prefetch PROVE Pipeline'
  OBVIOUS
<1>1. /\ IsBatch(cpm_index, next_l, next_r)
      /\ After(cpm_index, next_r) = FillStart
  BY DEF Prefetch, CanPrefetch, Pipeline, StagesHoldBatches, BatchesConsecutive
<1>2. pre_efm_index' = IF CpmStart'[2] = 0 THEN CpmStart'[1] - 1 ELSE CpmStart'[1]
  <2>1. CpmStart' = After(cpm_index, next_r)
    BY <1>1 DEF Prefetch, CpmStart, FillStart
  <2>2. cpm_index \in Nat
    BY <1>1, WorkFacts DEF IsBatch
  <2> QED BY <1>1, <2>1, <2>2 DEF IsBatch, After, Prefetch
<1>3. /\ UNCHANGED << work, slice, slice_changed, slice_queries, saving_l, saving_r, scm_index >>
      /\ efm_index' = cpm_index /\ process_l' = next_l /\ process_r' = next_r
      /\ cpm_index' = NONE /\ cpm_index # NONE /\ efm_index = NONE
  BY DEF Prefetch, CanPrefetch
<1>4. /\ UNCHANGED << FillStart, EfmStart >> /\ CpmStart' = FillStart
      /\ EfmStart = CpmStart /\ CpmStart = << cpm_index, next_l >>
  BY <1>3 DEF FillStart, CpmStart, EfmStart
<1>5. StagesHoldBatches'
  BY <1>1, <1>2, <1>3 DEF Pipeline, StagesHoldBatches, IsBatch, Slices
<1>6. BatchesConsecutive'
  BY Zenon, <1>1, <1>3, <1>4 DEF Pipeline, BatchesConsecutive, After
<1> QED BY <1>5, <1>6 DEF Pipeline

(* The batch that Fill lets in: it begins where the last one ended, is not *)
(* empty, and FillStart moves to its end.                                  *)
LEMMA FillBatch ==
  ASSUME TypeInv, Pipeline, Fill
  PROVE  /\ cpm_index = NONE /\ cpm_index' = slice
         /\ FillStart = << slice, next_l' >>
         /\ IsBatch(slice, next_l', next_r')
         /\ FillStart' = After(slice, next_r')
         /\ slice' \in Nat /\ slice' <= work.num
         /\ ~ slice_changed' => slice' < work.num /\ slice_queries' + BatchSize < work.size[slice']
         /\ slice_queries' \in Nat
<1> DEFINE size == work.size[slice]
<1>1. /\ slice \in Slices /\ slice \in Nat /\ size \in Nat /\ size > 0
      /\ BatchSize \in Nat /\ BatchSize > 0
  <2>1. slice \in Nat /\ slice < work.num
    BY DEF TypeInv, TypeOK, Fill, CanFill
  <2>2. slice \in Slices /\ work.size \in [Slices -> Nat \ {0}]
    BY <2>1, WorkFacts
  <2> QED BY <2>1, <2>2, CoreAssumption
<1>0. /\ slice_queries' = IF slice_changed THEN 0 ELSE slice_queries + BatchSize
      /\ next_l' = slice_queries'
      /\ next_r' = IF next_l' + BatchSize < size THEN next_l' + BatchSize ELSE size
      /\ slice_changed' <=> next_r' = size
      /\ slice' = IF next_r' = size THEN slice + 1 ELSE slice
      /\ UNCHANGED work
  BY Zenon DEF Fill
<1>2. FillStart = << slice, next_l' >> /\ next_l' = slice_queries'
  BY <1>0 DEF FillStart
<1>3. next_l' \in Nat /\ next_l' < size
  <2>1. slice_queries \in Nat /\ (~ slice_changed => slice_queries + BatchSize < size)
    BY DEF TypeInv, TypeOK, Pipeline, StagesHoldBatches
  <2> HIDE DEF size
  <2> QED BY <1>0, <1>1, <2>1
<1>4. /\ next_r' \in Nat /\ next_l' < next_r' /\ next_r' <= size
      /\ next_r' # size => next_r' = next_l' + BatchSize
  <2> HIDE DEF size
  <2> QED BY <1>0, <1>1, <1>3
<1>5. FillStart' = After(slice, next_r')
  <2>1. CASE next_r' = size
    <3>1. FillStart' = << slice + 1, 0 >>
      BY <1>0, <2>1 DEF FillStart
    <3> QED BY <2>1, <3>1 DEF After
  <2>2. CASE next_r' # size
    <3>1. FillStart' = << slice, slice_queries' + BatchSize >>
      BY <1>0, <2>2 DEF FillStart
    <3> QED BY <1>2, <1>4, <2>2, <3>1 DEF After
  <2> QED BY <2>1, <2>2
<1>6. cpm_index = NONE /\ cpm_index' = slice /\ slice < work.num /\ work.num \in Nat
  BY WorkFacts DEF Fill, CanFill
<1>7. slice' \in Nat /\ slice' <= work.num
  <2> HIDE DEF size
  <2> QED BY <1>0, <1>1, <1>6
<1>8. ~ slice_changed' => slice' < work.num /\ slice_queries' + BatchSize < work.size[slice']
  <2> SUFFICES ASSUME ~ slice_changed'
               PROVE  slice' < work.num /\ slice_queries' + BatchSize < work.size[slice']
    OBVIOUS
  <2>1. slice' = slice /\ next_r' # size
    BY <1>0
  <2>2. slice_queries' + BatchSize = next_r'
    BY <1>2, <1>4, <2>1
  <2> QED BY <1>1, <1>4, <1>6, <2>1, <2>2
<1> QED BY <1>1, <1>2, <1>3, <1>4, <1>5, <1>6, <1>7, <1>8 DEF IsBatch

LEMMA FillTyped == TypeInv /\ Pipeline /\ Fill => TypeInv'
<1> SUFFICES ASSUME TypeInv, Pipeline, Fill PROVE TypeInv'
  OBVIOUS
<1>1. slice \in Nat /\ next_l' \in Nat /\ next_r' \in Nat
  BY FillBatch DEF IsBatch, TypeInv, TypeOK
<1>2. started' \in SUBSET (Nat \X Nat)
  BY <1>1, BatchType DEF TypeInv, TypeOK, Fill
<1>3. wait_addr' \in Nat
  BY SMTT(30) DEF TypeInv, TypeOK, CpmTypeOK, Fill, CpmSubmitClusterRequest
<1>4. slice_changed' \in BOOLEAN
  BY DEF Fill
<1>5. /\ UNCHANGED << read_ready, work, process_l, process_r, saving_l, saving_r, efm_index,
                      scm_index, pre_efm_index, efm_fetching_request_num, finished, saved,
                      efmVars, scm_remind, cpm_reader, cpm_remind >>
      /\ phase' = "memory" /\ cpm_index' = slice
  BY DEF Fill, CpmSubmitClusterRequest
<1>6. CpmTypeOK' /\ EfmTypeOK' /\ ScmTypeOK'
  BY <1>3, <1>5, ModulesKept DEF TypeInv, TypeOK, CpmTypeOK, ScmTypeOK
<1>7. ReadersCounted'
  BY <1>5 DEF TypeInv, ReadersCounted, efmVars
<1>8. slice' \in Nat /\ slice_queries' \in Nat
  BY Zenon, FillBatch
<1> QED BY <1>1, <1>2, <1>4, <1>5, <1>6, <1>7, <1>8 DEF TypeInv, TypeOK, Index

LEMMA FillPipeline == TypeInv /\ Pipeline /\ Fill => Pipeline'
<1> SUFFICES ASSUME TypeInv, Pipeline, Fill PROVE Pipeline'
  OBVIOUS
<1>1. CpmStart' = CpmStart /\ EfmStart' = EfmStart
  <2>1. slice # NONE
    BY DEF TypeInv, TypeOK, NONE
  <2> QED BY Zenon, <2>1, FillBatch DEF CpmStart, EfmStart, Fill
<1>2. StagesHoldBatches'
  BY Zenon, <1>1, FillBatch DEF Pipeline, StagesHoldBatches, IsBatch, Slices, Fill
<1>3. BatchesConsecutive'
  BY Zenon, <1>1, FillBatch DEF Pipeline, BatchesConsecutive, After, Fill
<1> QED BY <1>2, <1>3 DEF Pipeline

PipelineInv == TypeInv /\ Pipeline

LEMMA InitPipeline == Init => PipelineInv
<1> SUFFICES ASSUME Init PROVE PipelineInv
  OBVIOUS
<1>1. TypeInv
  BY InitTyped
<1>2. work.num \in Nat
  BY <1>1, WorkFacts
<1>3. /\ cpm_index = NONE /\ efm_index = NONE /\ scm_index = NONE /\ pre_efm_index = -1
      /\ slice = 0 /\ slice_changed = TRUE
  BY DEF Init, NONE
<1>4. CpmStart = << 0, 0 >>
  BY <1>3 DEF CpmStart, FillStart
<1>5. StagesHoldBatches
  <2>1. pre_efm_index = IF CpmStart[2] = 0 THEN CpmStart[1] - 1 ELSE CpmStart[1]
    BY <1>3, <1>4
  <2>2. slice <= work.num
    BY <1>2, <1>3
  <2> QED BY Zenon, <1>3, <2>1, <2>2 DEF StagesHoldBatches
<1>6. BatchesConsecutive
  BY Zenon, <1>3 DEF BatchesConsecutive
<1> QED BY <1>1, <1>5, <1>6 DEF PipelineInv, Pipeline

LEMMA NextPipeline == PipelineInv /\ [Next]_vars => PipelineInv'
<1> SUFFICES ASSUME PipelineInv, [Next]_vars PROVE PipelineInv'
  OBVIOUS
<1> USE DEF PipelineInv
<1>1. CASE Memory
  BY Zenon, <1>1, MemoryTyped, PipelineStutters DEF Memory, coreVars, pipelineVars
<1>2. CASE CpmTick
  BY <1>2, CpmTickTyped, PipelineStutters DEF CpmTick, coreVars, pipelineVars
<1>3. CASE EfmTick
  BY <1>3, EfmTickTyped, PipelineStutters DEF EfmTick, coreVars, pipelineVars
<1>4. CASE ScmTick
  BY <1>4, ScmTickTyped, PipelineStutters DEF ScmTick, coreVars, pipelineVars
<1>5. CASE Save
  BY <1>5, SaveTyped, SavePipeline
<1>6. CASE Process
  BY <1>6, ProcessTyped, ProcessPipeline
<1>7. CASE Prefetch
  BY <1>7, PrefetchTyped, PrefetchPipeline
<1>8. CASE Fill
  BY <1>8, FillTyped, FillPipeline
<1>9. CASE Skip
  BY <1>9, SkipTyped, PipelineStutters DEF Skip, coreVars, pipelineVars
<1>10. CASE UNCHANGED vars
  BY <1>10, PipelineStutters
     DEF vars, coreVars, pipelineVars, batchVars, indexVars, resultVars, cpmVars, efmVars,
         TypeInv, TypeOK, ReadersCounted, CpmTypeOK, EfmTypeOK, ScmTypeOK
<1> QED BY <1>1, <1>2, <1>3, <1>4, <1>5, <1>6, <1>7, <1>8, <1>9, <1>10 DEF Next, Core

(* Every state the core reaches is well typed: no reader counter, request  *)
(* counter or computing counter goes below zero, whatever the batch size,  *)
(* the workload and the order in which the memory answers.                 *)
THEOREM TypeCorrect == Spec => []TypeOK
<1>1. PipelineInv => TypeOK
  BY DEF PipelineInv, TypeInv
<1> QED BY <1>1, InitPipeline, NextPipeline, PTL DEF Spec

(* The batches in the CPM, the EFM and the SCM are consecutive, and the    *)
(* next one begins where the youngest ends: no pipeline register of the    *)
(* core is overwritten while the batch in it is still needed.              *)
THEOREM PipelineInOrder == Spec => []BatchesConsecutive
<1>1. PipelineInv => BatchesConsecutive
  BY DEF PipelineInv, Pipeline
<1> QED BY <1>1, InitPipeline, NextPipeline, PTL DEF Spec
-----------------------------------------------------------------------------
(* Every query is served once and in order.                                *)
LEMMA QueriesElements ==
  /\ \A q \in Queries : /\ q = << q[1], q[2] >>
                        /\ q[1] \in Slices /\ q[2] \in 0 .. work.size[q[1]] - 1
  /\ \A s \in Slices : \A k \in 0 .. work.size[s] - 1 : << s, k >> \in Queries
BY DEF Queries, Batch

LEMMA AheadElements ==
  ASSUME NEW s, NEW l
  PROVE  Ahead(<< s, l >>) = {q \in Queries : q[1] < s \/ (q[1] = s /\ q[2] < l)}
BY DEF Ahead

(* Past a batch, exactly its queries have been added to those ahead.       *)
LEMMA AheadGrows ==
  ASSUME TypeInv, NEW s, NEW l, NEW r, IsBatch(s, l, r)
  PROVE  Ahead(After(s, r)) = Ahead(<< s, l >>) \cup Batch(s, l, r)
<1>1. /\ s \in Slices /\ s \in Nat /\ l \in Nat /\ r \in Nat /\ l < r /\ r <= work.size[s]
      /\ work.size[s] \in Nat
      /\ \A t \in Slices : t \in Nat /\ work.size[t] \in Nat
  BY WorkFacts DEF IsBatch
<1>2. Batch(s, l, r) \subseteq Queries
  <2>1. \A b \in Batch(s, l, r) : \E k \in l .. r - 1 : b = << s, k >>
    BY DEF Batch
  <2>2. \A k \in l .. r - 1 : k \in 0 .. work.size[s] - 1
    BY <1>1
  <2> QED BY <1>1, <2>1, <2>2, QueriesElements
<1>3. \A q \in Queries : q \in Batch(s, l, r) <=> q[1] = s /\ l <= q[2] /\ q[2] < r
  <2> SUFFICES ASSUME NEW q \in Queries
               PROVE  q \in Batch(s, l, r) <=> q[1] = s /\ l <= q[2] /\ q[2] < r
    OBVIOUS
  <2>1. q = << q[1], q[2] >> /\ q[2] \in Int
    BY QueriesElements
  <2> QED BY <1>1, <2>1 DEF Batch
<1>4. \A q \in Queries : q[1] \in Nat /\ q[2] \in Nat /\ q[2] < work.size[q[1]]
  BY <1>1, QueriesElements
<1>5. CASE r = work.size[s]
  <2>1. Ahead(After(s, r)) = {q \in Queries : q[1] < s + 1 \/ (q[1] = s + 1 /\ q[2] < 0)}
    BY <1>5 DEF After, Ahead
  <2>2. \A q \in Queries : (q[1] < s + 1 \/ (q[1] = s + 1 /\ q[2] < 0))
                              <=> (q[1] < s \/ (q[1] = s /\ q[2] < l) \/ q \in Batch(s, l, r))
    BY <1>1, <1>3, <1>4, <1>5
  <2> QED BY SMTT(30), <1>2, <2>1, <2>2, AheadElements
<1>6. CASE r # work.size[s]
  <2>1. Ahead(After(s, r)) = {q \in Queries : q[1] < s \/ (q[1] = s /\ q[2] < r)}
    BY <1>6 DEF After, Ahead
  <2>2. \A q \in Queries : (q[1] < s \/ (q[1] = s /\ q[2] < r))
                              <=> (q[1] < s \/ (q[1] = s /\ q[2] < l) \/ q \in Batch(s, l, r))
    BY SMTT(30), <1>1, <1>3, <1>4
  <2> QED BY SMTT(30), <1>2, <2>1, <2>2, AheadElements
<1> QED BY <1>5, <1>6

(* All queries are ahead of a place exactly when it is past the last one.  *)
LEMMA AllAhead ==
  ASSUME TypeInv, NEW s, NEW l, NEW r, IsBatch(s, l, r)
  PROVE  /\ Ahead(<< s, l >>) # Queries
         /\ Ahead(After(s, r)) = Queries <=> s = work.num - 1 /\ r = work.size[s]
<1>1. /\ s \in Slices /\ s \in Nat /\ l \in Nat /\ r \in Nat /\ l < r /\ r <= work.size[s]
      /\ work.num \in Nat /\ s < work.num /\ work.size[s] \in Nat
      /\ \A t \in Slices : t \in Nat /\ t < work.num /\ work.size[t] \in Nat /\ work.size[t] > 0
      /\ \A t \in Nat : t < work.num => t \in Slices
  <2>1. s \in Slices /\ l \in Nat /\ r \in Nat /\ l < r /\ r <= work.size[s]
    BY DEF IsBatch
  <2>2. /\ work.num \in Nat
        /\ \A t \in Slices : t \in Nat /\ t < work.num
        /\ \A t \in Nat : t < work.num => t \in Slices
    BY WorkFacts
  <2>3. \A t \in Slices : work.size[t] \in Nat /\ work.size[t] > 0
    <3>1. \A t \in Slices : work.size[t] \in Nat \ {0}
      BY WorkFacts
    <3> QED BY <3>1
  <2> QED BY <2>1, <2>2, <2>3
<1>2. \A t \in Slices : \A k \in 0 .. work.size[t] - 1 : << t, k >> \in Queries
  BY Zenon, QueriesElements
<1>3. Ahead(<< s, l >>) # Queries
  <2>1. << s, l >> \in Queries
    BY <1>1, <1>2
  <2>2. << s, l >> \notin Ahead(<< s, l >>)
    BY <1>1, AheadElements
  <2> QED BY <2>1, <2>2
<1>4. CASE s = work.num - 1 /\ r = work.size[s]
  <2>1. Ahead(After(s, r)) = {q \in Queries : q[1] < s + 1 \/ (q[1] = s + 1 /\ q[2] < 0)}
    BY <1>4 DEF After, Ahead
  <2>2. \A q \in Queries : q[1] < s + 1
    BY <1>1, <1>4, QueriesElements
  <2> QED BY <1>3, <1>4, <2>1, <2>2
<1>5. CASE s # work.num - 1 /\ r = work.size[s]
  <2>1. << s + 1, 0 >> \in Queries
    <3>1. s + 1 \in Slices /\ 0 \in 0 .. work.size[s + 1] - 1
      BY <1>1, <1>5
    <3> QED BY <1>2, <3>1
  <2>2. Ahead(After(s, r)) = Ahead(<< s + 1, 0 >>)
    BY <1>5 DEF After
  <2>3. << s + 1, 0 >> \notin Ahead(<< s + 1, 0 >>)
    BY <1>1, AheadElements
  <2> QED BY <1>3, <1>5, <2>1, <2>2, <2>3
<1>6. CASE r # work.size[s]
  <2>1. << s, r >> \in Queries
    BY <1>1, <1>2, <1>6
  <2>2. Ahead(After(s, r)) = Ahead(<< s, r >>)
    BY <1>6 DEF After
  <2>3. << s, r >> \notin Ahead(<< s, r >>)
    BY <1>1, AheadElements
  <2> QED BY <1>3, <1>6, <2>1, <2>2, <2>3
<1> QED BY <1>4, <1>5, <1>6

Served == ServedInOrder /\ FinishedWhenAllSaved

LEMMA InitServed == Init => Served
<1> SUFFICES ASSUME Init PROVE Served
  OBVIOUS
<1>1. TypeInv
  BY InitTyped
<1>2. Ahead(<< 0, 0 >>) = {}
  <2>1. \A q \in Queries : q[1] \in Nat /\ q[2] \in Nat
    BY <1>1, WorkFacts, QueriesElements
  <2> QED BY <2>1, AheadElements
<1>3. FillStart = << 0, 0 >> /\ ScmStart = << 0, 0 >>
  BY DEF Init, FillStart, CpmStart, EfmStart, ScmStart
<1>4. work.num > 0 => Queries # {}
  <2> SUFFICES ASSUME work.num > 0 PROVE Queries # {}
    OBVIOUS
  <2>1. 0 \in Slices /\ 0 \in 0 .. work.size[0] - 1
    BY <1>1, WorkFacts
  <2> QED BY Zenon, <2>1, QueriesElements
<1> QED BY <1>2, <1>3, <1>4 DEF Init, Served, ServedInOrder, FinishedWhenAllSaved

LEMMA ServedStutters ==
  ASSUME Served, UNCHANGED << work, FillStart, ScmStart, resultVars >>
  PROVE  Served'
<1>1. Queries' = Queries /\ (Ahead(FillStart))' = Ahead(FillStart)
      /\ (Ahead(ScmStart))' = Ahead(ScmStart)
  BY DEF Ahead, Queries, Slices
<1> QED BY <1>1 DEF Served, ServedInOrder, FinishedWhenAllSaved, resultVars

LEMMA ServedIdle ==
  ASSUME Served, UNCHANGED << work, coreVars >>
  PROVE  Served'
BY ServedStutters DEF coreVars, batchVars, indexVars, FillStart, CpmStart, EfmStart, ScmStart

LEMMA SaveServed == PipelineInv /\ Served /\ Save => Served'
<1> SUFFICES ASSUME TypeInv, Pipeline, Served, Save PROVE Served'
  BY DEF PipelineInv
<1>1. /\ scm_index # NONE
      /\ IsBatch(scm_index, saving_l, saving_r)
      /\ After(scm_index, saving_r) = EfmStart
  BY Zenon DEF Save, CanSave, Pipeline, StagesHoldBatches, BatchesConsecutive
<1>2. /\ FillStart' = FillStart /\ ScmStart' = EfmStart
      /\ ScmStart = << scm_index, saving_l >>
  BY <1>1 DEF Save, batchVars, FillStart, CpmStart, EfmStart, ScmStart
<1>3. /\ Queries' = Queries /\ work' = work /\ started' = started
      /\ (Ahead(FillStart))' = Ahead(FillStart)
      /\ (Ahead(ScmStart))' = Ahead(EfmStart)
  BY Zenon, <1>2 DEF Save, Ahead, Queries, Slices
<1>4. saved' = Ahead(After(scm_index, saving_r))
  BY <1>1, <1>2, AheadGrows DEF Save, SavedBatch, Served, ServedInOrder
<1>5. ~ finished
  BY Zenon, <1>1, <1>2, AllAhead DEF Served, ServedInOrder, FinishedWhenAllSaved
<1>6. finished' <=> saved' = Queries
  <2>1. finished' <=> IsLastBatch
    BY Zenon, <1>5 DEF Save
  <2>2. Ahead(After(scm_index, saving_r)) = Queries <=> IsLastBatch
    BY Zenon, <1>1, AllAhead DEF IsLastBatch
  <2> QED BY <1>4, <2>1, <2>2
<1>7. work.num > 0
  BY <1>1, WorkFacts DEF IsBatch
<1> QED BY <1>1, <1>3, <1>4, <1>6, <1>7 DEF Served, ServedInOrder, FinishedWhenAllSaved

LEMMA FillServed == PipelineInv /\ Served /\ Fill => Served'
<1> SUFFICES ASSUME TypeInv, Pipeline, Served, Fill PROVE Served'
  BY DEF PipelineInv
<1>1. /\ FillStart = << slice, next_l' >> /\ IsBatch(slice, next_l', next_r')
      /\ FillStart' = After(slice, next_r')
  BY FillBatch
<1>2. ScmStart' = ScmStart
  <2>1. slice # NONE
    BY DEF TypeInv, TypeOK, NONE
  <2> QED BY Zenon, <2>1, FillBatch DEF CpmStart, EfmStart, ScmStart, Fill
<1>3. /\ Queries' = Queries /\ work' = work /\ saved' = saved /\ finished' = finished
      /\ (Ahead(FillStart))' = Ahead(After(slice, next_r'))
      /\ (Ahead(ScmStart))' = Ahead(ScmStart)
  BY Zenon, <1>1, <1>2 DEF Fill, Ahead, Queries, Slices
<1>4. started' = Ahead(After(slice, next_r'))
  <2>1. started' = started \cup Batch(slice, next_l', next_r')
    BY Zenon DEF Fill
  <2>2. started = Ahead(<< slice, next_l' >>)
    BY <1>1 DEF Served, ServedInOrder
  <2> QED BY <1>1, <2>1, <2>2, AheadGrows
<1> QED BY <1>3, <1>4 DEF Served, ServedInOrder, FinishedWhenAllSaved

LEMMA NextServed == PipelineInv /\ Served /\ [Next]_vars => Served'
<1> SUFFICES ASSUME PipelineInv, Served, [Next]_vars PROVE Served'
  OBVIOUS
<1>1. CASE Memory
  BY <1>1, ServedIdle DEF Memory
<1>2. CASE CpmTick
  BY <1>2, ServedIdle DEF CpmTick
<1>3. CASE EfmTick
  BY <1>3, ServedIdle DEF EfmTick
<1>4. CASE ScmTick
  BY <1>4, ServedIdle DEF ScmTick
<1>5. CASE Save
  BY <1>5, SaveServed
<1>6. CASE Process
  <2>1. UNCHANGED << work, FillStart, ScmStart, resultVars >>
    BY <1>6 DEF Process, CanProcess, FillStart, CpmStart, EfmStart, ScmStart
  <2> QED BY <2>1, ServedStutters
<1>7. CASE Prefetch
  <2>1. UNCHANGED << work, FillStart, ScmStart, resultVars >>
    BY <1>7 DEF Prefetch, CanPrefetch, FillStart, CpmStart, EfmStart, ScmStart
  <2> QED BY <2>1, ServedStutters
<1>8. CASE Fill
  BY <1>8, FillServed
<1>9. CASE Skip
  BY <1>9, ServedIdle DEF Skip
<1>10. CASE UNCHANGED vars
  BY <1>10, ServedIdle DEF vars
<1> QED BY <1>1, <1>2, <1>3, <1>4, <1>5, <1>6, <1>7, <1>8, <1>9, <1>10 DEF Next, Core

(* Each place of each query set is given its start clock and its end clock *)
(* in the order of the slices, whatever the sizes of slices and batches    *)
(* and the latency of the memory.                                          *)
THEOREM QueriesServedInOrder == Spec => []ServedInOrder
<1>1. Served => ServedInOrder
  BY DEF Served
<1> QED BY <1>1, InitPipeline, NextPipeline, InitServed, NextServed, PTL DEF Spec

(* Finished is set by the save of the last batch and by no other: the core *)
(* stops neither before nor after all its queries have an end clock.       *)
THEOREM FinishedExactly == Spec => []FinishedWhenAllSaved
<1>1. Served => FinishedWhenAllSaved
  BY DEF Served
<1> QED BY <1>1, InitPipeline, NextPipeline, InitServed, NextServed, PTL DEF Spec
-----------------------------------------------------------------------------
(* The EFM reads one cluster per slice, in step with the pipeline.         *)
LEMMA EfmTypes ==
  ASSUME TypeInv
  PROVE  /\ metadata_reader.finished \in BOOLEAN /\ vector_reader.finished \in BOOLEAN
         /\ fetching_request_num \in Nat /\ fetched_request_num \in Nat
         /\ submited_request_num \in Nat /\ MetadataAsked \in Nat /\ VectorsAsked \in Nat
         /\ metadata_reader.finished => MetadataLeft = 0
         /\ vector_reader.finished => VectorsLeft = 0
         /\ pre_efm_index \in Int /\ efm_index \in Int /\ scm_index \in Int
<1>1. /\ metadata_reader \in Reader /\ vector_reader \in Reader
      /\ read_ready["metadata"] \in Nat /\ read_ready["vector"] \in Nat
      /\ Counted(metadata_reader, read_ready["metadata"])
      /\ Counted(vector_reader, read_ready["vector"])
  BY DEF TypeInv, TypeOK, EfmTypeOK, ReadersCounted, ReaderName
<1>2. /\ metadata_reader.finished => MetadataLeft = 0
      /\ vector_reader.finished => VectorsLeft = 0
  BY <1>1 DEF Counted, Reader, MetadataLeft, VectorsLeft
<1>3. metadata_reader.finished \in BOOLEAN /\ vector_reader.finished \in BOOLEAN
  BY <1>1 DEF Reader
<1> QED BY <1>2, <1>3
        DEF TypeInv, TypeOK, EfmTypeOK, MetadataAsked, VectorsAsked, Index, NONE

(* The slice in the EFM is the last one requested.                         *)
LEMMA EfmHoldsLast ==
  ASSUME TypeInv, Pipeline, efm_index # NONE
  PROVE  pre_efm_index = efm_index
<1>1. /\ IsBatch(efm_index, process_l, process_r)
      /\ After(efm_index, process_r) = CpmStart
      /\ pre_efm_index = IF CpmStart[2] = 0 THEN CpmStart[1] - 1 ELSE CpmStart[1]
  BY DEF Pipeline, StagesHoldBatches, BatchesConsecutive
<1>2. efm_index \in Nat
  BY <1>1, WorkFacts DEF IsBatch
<1> QED BY <1>1, <1>2 DEF After, IsBatch

LEMMA EfmIdle ==
  ASSUME EfmInStep, UNCHANGED << work, efmVars, pre_efm_index, efm_fetching_request_num >>,
         UNCHANGED efm_index, scm_index' = scm_index \/ scm_index' = NONE
  PROVE  EfmInStep'
BY Zenon DEF EfmInStep, efmVars, MetadataAsked, VectorsAsked

LEMMA EfmTickInStep == TypeInv /\ EfmInStep /\ EfmTick => EfmInStep'
<1> SUFFICES ASSUME TypeInv, EfmInStep, EfmTick PROVE EfmInStep'
  OBVIOUS
<1> DEFINE m == MetadataAsked
           v == VectorsAsked
           S == submited_request_num
           c == work.cluster
<1>1. /\ S = pre_efm_index + 1
      /\ S > 0 => efm_fetching_request_num = S - 1
      /\ m \in {S - 1, S}
      /\ metadata_queue = IF m = S THEN << >> ELSE << c[m] >>
      /\ cluster_queue = IF m = 0 THEN << >> ELSE << c[m - 1] >>
      /\ vector_queue = << >>
      /\ v = IF m = 0 THEN 0 ELSE m - 1
      /\ m # S => vector_reader.finished
      /\ S > 0 /\ efm_index = NONE => fetched_request_num = S - 1
      /\ scm_index # NONE => fetched_request_num >= scm_index
  BY DEF EfmInStep
<1>2. /\ m \in Nat /\ v \in Nat /\ S \in Nat
      /\ m = fetching_request_num + (IF metadata_reader.finished THEN 0 ELSE 1)
      /\ v = fetched_request_num + (IF vector_reader.finished THEN 0 ELSE 1)
  BY EfmTypes DEF MetadataAsked, VectorsAsked
<1>3. UNCHANGED << work, pre_efm_index, efm_fetching_request_num, efm_index, scm_index, S >>
  BY EfmTickEffect DEF EfmTick, coreVars, indexVars
<1>4. /\ MetadataLeft = 0 => fetching_request_num' = m
      /\ MetadataLeft # 0 => fetching_request_num' = m - 1 /\ ~ metadata_reader'.finished
      /\ VectorsLeft = 0 => fetched_request_num' = v
      /\ VectorsLeft # 0 => fetched_request_num' = v - 1 /\ ~ vector_reader'.finished
  <2>1. /\ fetching_request_num \in Nat
        /\ metadata_reader.finished => MetadataLeft = 0
        /\ fetching_request_num' = fetching_request_num
              + (IF ~ metadata_reader.finished /\ MetadataLeft = 0 THEN 1 ELSE 0)
        /\ MetadataLeft # 0 => ~ metadata_reader'.finished
    BY EfmTypes, EfmTickEffect
  <2>2. /\ fetched_request_num \in Nat
        /\ vector_reader.finished => VectorsLeft = 0
        /\ fetched_request_num' = fetched_request_num
              + (IF ~ vector_reader.finished /\ VectorsLeft = 0 THEN 1 ELSE 0)
        /\ VectorsLeft # 0 => ~ vector_reader'.finished
    BY EfmTypes, EfmTickEffect
  <2> HIDE DEF m, v
  <2>3. /\ MetadataLeft = 0 => fetching_request_num' = m
        /\ MetadataLeft # 0 => fetching_request_num' = m - 1
    BY <1>2, <2>1
  <2>4. /\ VectorsLeft = 0 => fetched_request_num' = v
        /\ VectorsLeft # 0 => fetched_request_num' = v - 1
    BY <1>2, <2>2
  <2> QED BY <2>1, <2>2, <2>3, <2>4
<1>5. MoveOn => m = S - 1 /\ metadata_queue = << c[m] >>
  <2>1. MoveOn => fetching_request_num' = S - 1 /\ MetadataLeft = 0
    BY DEF MoveOn
  <2> HIDE DEF m
  <2>2. MoveOn => m = S - 1 /\ m # S
    BY <1>2, <1>4, <2>1
  <2> QED BY <1>1, <2>2
<1>6. MetadataAsked' = IF MoveOn THEN m + 1 ELSE m
  <2>1. MetadataAsked' = fetching_request_num' + (IF metadata_reader'.finished THEN 0 ELSE 1)
    BY DEF MetadataAsked
  <2>2. CASE MoveOn
    <3>1. MetadataLeft = 0
      BY <2>2 DEF MoveOn
    <3>2. metadata_queue # << >>
      BY <1>5, <2>2
    <3>3. ~ metadata_reader'.finished
      BY <2>2, <3>2, EfmTickEffect
    <3> QED BY <1>4, <2>1, <2>2, <3>1, <3>3
  <2>3. CASE ~ MoveOn /\ MetadataLeft = 0
    <3>1. metadata_reader'.finished
      BY <2>3, EfmTickEffect
    <3> HIDE DEF m
    <3> QED BY <1>2, <1>4, <2>1, <2>3, <3>1
  <2>4. CASE ~ MoveOn /\ MetadataLeft # 0
    <3> HIDE DEF m
    <3> QED BY <1>2, <1>4, <2>1, <2>4
  <2> QED BY <2>2, <2>3, <2>4
<1>7. ToRead = IF MoveOn /\ m > 0 THEN << c[m - 1] >> ELSE << >>
  BY SMTT(30), <1>1, <1>2 DEF ToRead
<1>8. MoveOn => /\ fetching_request_num' = m /\ vector_reader.finished
                /\ VectorsLeft = 0 /\ fetched_request_num' = v
                /\ m > 0 => ReadNow
  <2> SUFFICES ASSUME MoveOn
               PROVE  /\ fetching_request_num' = m /\ vector_reader.finished
                      /\ VectorsLeft = 0 /\ fetched_request_num' = v
                      /\ m > 0 => ReadNow
    OBVIOUS
  <2>1. fetching_request_num' = m
    BY <1>4 DEF MoveOn
  <2> HIDE DEF m, v
  <2>2. vector_reader.finished
    BY <1>1, <1>2, <1>5
  <2>3. VectorsLeft = 0 /\ fetched_request_num' = v
    BY <1>4, <2>2, EfmTypes
  <2>4. m > 0 => v = m - 1
    BY <1>1
  <2> QED BY <2>1, <2>2, <2>3, <2>4 DEF ReadNow
<1>9. VectorsAsked' = IF MoveOn /\ m > 0 THEN v + 1 ELSE v
  <2>1. VectorsAsked' = fetched_request_num' + (IF vector_reader'.finished THEN 0 ELSE 1)
    BY DEF VectorsAsked
  <2>2. vector_reader'.finished <=> VectorsLeft = 0 /\ ~ (ReadNow /\ ToRead # << >>)
    BY EfmTickEffect
  <2>3. ToRead # << >> <=> MoveOn /\ m > 0
    BY <1>7
  <2> HIDE DEF m, v
  <2>4. CASE MoveOn /\ m > 0
    BY <1>2, <1>8, <2>1, <2>2, <2>3, <2>4
  <2>5. CASE ~ (MoveOn /\ m > 0)
    BY <1>2, <1>4, <2>1, <2>2, <2>3, <2>5
  <2> QED BY <2>4, <2>5
<1>10. vector_queue' = << >>
  BY <1>7, <1>8, EfmTickEffect
<1>11. /\ metadata_queue' = IF MetadataAsked' = S THEN << >> ELSE << c[MetadataAsked'] >>
       /\ cluster_queue' = IF MetadataAsked' = 0 THEN << >> ELSE << c[MetadataAsked' - 1] >>
  <2>1. CASE MoveOn
    <3>1. metadata_queue' = << >> /\ cluster_queue' = << c[m] >>
      BY <1>5, <2>1, EfmTickEffect
    <3>2. MetadataAsked' = S /\ MetadataAsked' # 0 /\ MetadataAsked' - 1 = m
      BY <1>2, <1>5, <1>6, <2>1
    <3> QED BY <3>1, <3>2
  <2>2. CASE ~ MoveOn
    <3>1. metadata_queue' = metadata_queue /\ cluster_queue' = cluster_queue
      BY <2>2, EfmTickEffect
    <3>2. MetadataAsked' = m
      BY <1>6, <2>2
    <3> HIDE DEF m
    <3> QED BY <1>1, <3>1, <3>2
  <2> QED BY <2>1, <2>2
<1>12. MetadataAsked' # S => vector_reader'.finished
  <2> SUFFICES ASSUME MetadataAsked' # S PROVE vector_reader'.finished
    OBVIOUS
  <2>1. ~ MoveOn /\ m # S
    BY <1>2, <1>5, <1>6
  <2>2. VectorsLeft = 0 /\ ToRead = << >>
    BY <1>1, <1>7, <2>1, EfmTypes
  <2> QED BY <2>2, EfmTickEffect
<1>13. VectorsAsked' = IF MetadataAsked' = 0 THEN 0 ELSE MetadataAsked' - 1
  <2> HIDE DEF m, v
  <2> QED BY SMTT(30), <1>1, <1>2, <1>6, <1>9
<1>14. S > 0 /\ efm_index = NONE => fetched_request_num' = S - 1
  <2> SUFFICES ASSUME S > 0, efm_index = NONE PROVE fetched_request_num' = S - 1
    OBVIOUS
  <2>1. fetched_request_num = S - 1
    BY <1>1
  <2> HIDE DEF m, v
  <2>2. v <= S - 1
    BY SMTT(30), <1>1, <1>2
  <2>3. vector_reader.finished
    BY <1>2, <2>1, <2>2
  <2> QED BY <1>2, <1>4, <2>1, <2>3, EfmTypes
<1>15. scm_index # NONE => fetched_request_num' >= scm_index
  <2>1. fetched_request_num' >= fetched_request_num /\ fetched_request_num' \in Nat
    BY EfmTypes, EfmTickEffect
  <2>2. fetched_request_num \in Nat /\ scm_index \in Int
    BY EfmTypes
  <2> QED BY <1>1, <2>1, <2>2
<1>16. MetadataAsked' \in {S - 1, S}
  BY <1>1, <1>5, <1>6
<1> HIDE DEF m, v
<1> QED BY Zenon, <1>1, <1>3, <1>10, <1>11, <1>12, <1>13, <1>14, <1>15, <1>16 DEF EfmInStep

LEMMA ProcessInStep == PipelineInv /\ EfmInStep /\ Process => EfmInStep'
<1> SUFFICES ASSUME TypeInv, Pipeline, EfmInStep, Process PROVE EfmInStep'
  BY DEF PipelineInv
<1>1. /\ efm_index \in Nat /\ pre_efm_index = efm_index
      /\ fetched_request_num = efm_fetching_request_num
  <2>1. efm_index # NONE /\ fetched_request_num = efm_fetching_request_num
    BY Zenon DEF Process, CanProcess
  <2>2. efm_index \in Nat
    BY <2>1 DEF TypeInv, TypeOK, Index
  <2> QED BY <2>1, <2>2, EfmHoldsLast
<1>2. fetched_request_num = efm_index /\ submited_request_num = efm_index + 1
  BY <1>1 DEF EfmInStep
<1>3. UNCHANGED << work, efmVars, pre_efm_index, efm_fetching_request_num, MetadataAsked,
                   VectorsAsked >>
  BY DEF Process, efmVars, MetadataAsked, VectorsAsked
<1>4. scm_index' = efm_index
  BY DEF Process
<1>5. fetched_request_num' = fetched_request_num /\ submited_request_num' = submited_request_num
  BY <1>3 DEF efmVars
<1>6. /\ submited_request_num' > 0 /\ efm_index' = NONE =>
            fetched_request_num' = submited_request_num' - 1
      /\ scm_index' # NONE => fetched_request_num' >= scm_index'
  BY <1>1, <1>2, <1>4, <1>5
<1> QED BY <1>3, <1>6 DEF EfmInStep, efmVars

LEMMA PrefetchInStep == PipelineInv /\ EfmInStep /\ Prefetch => EfmInStep'
<1> SUFFICES ASSUME TypeInv, Pipeline, EfmInStep, Prefetch PROVE EfmInStep'
  BY DEF PipelineInv
<1>1. /\ cpm_index \in Nat /\ next_l \in Nat
      /\ efm_index = NONE /\ metadata_queue = << >>
      /\ pre_efm_index = IF next_l = 0 THEN cpm_index - 1 ELSE cpm_index
  <2>1. cpm_index # NONE /\ efm_index = NONE /\ metadata_queue = << >>
    BY DEF Prefetch, CanPrefetch, EfmIsReadySubmit
  <2>2. IsBatch(cpm_index, next_l, next_r) /\ CpmStart = << cpm_index, next_l >>
    BY <2>1 DEF Pipeline, StagesHoldBatches, CpmStart
  <2> QED BY <2>1, <2>2, WorkFacts DEF IsBatch, Pipeline, StagesHoldBatches
<1>2. efm_index' # NONE
  BY SMTT(30), <1>1 DEF Prefetch, NONE
<1>3. CASE UNCHANGED << efmVars, efm_fetching_request_num >> /\ cpm_index = pre_efm_index
  BY Zenon, <1>2, <1>3 DEF Prefetch, EfmInStep, efmVars, MetadataAsked, VectorsAsked
<1>4. CASE /\ cpm_index # pre_efm_index
           /\ EfmSubmitRequest(<< work.cluster[cpm_index] >>)
           /\ efm_fetching_request_num' = EfmRequestNumber
  <2>1. /\ MetadataAsked = submited_request_num /\ submited_request_num = cpm_index
        /\ submited_request_num \in Nat
    <3>1. << work.cluster[MetadataAsked] >> # << >>
      OBVIOUS
    <3>2. /\ submited_request_num = pre_efm_index + 1 /\ pre_efm_index = cpm_index - 1
          /\ submited_request_num \in Nat
      BY <1>1, <1>4, EfmTypes DEF EfmInStep
    <3>3. MetadataAsked = submited_request_num
      BY <1>1, <3>1 DEF EfmInStep
    <3> QED BY <1>1, <3>2, <3>3
  <2>2. /\ submited_request_num' = submited_request_num + 1
        /\ efm_fetching_request_num' = submited_request_num' - 1
        /\ metadata_queue' = << work.cluster[cpm_index] >>
        /\ UNCHANGED << metadata_reader, vector_reader, vector_queue, cluster_queue,
                        fetched_request_num, fetching_request_num >>
    BY SMTT(30), <1>1, <1>4 DEF EfmSubmitRequest, EfmRequestNumber
  <2>3. UNCHANGED << MetadataAsked, VectorsAsked, work, scm_index >>
    BY <2>2 DEF MetadataAsked, VectorsAsked, Prefetch
  <2>4. vector_reader.finished
    <3>1. /\ VectorsAsked = IF MetadataAsked = 0 THEN 0 ELSE MetadataAsked - 1
          /\ submited_request_num > 0 => fetched_request_num = submited_request_num - 1
          /\ fetched_request_num \in Nat
      BY <1>1, EfmTypes DEF EfmInStep
    <3>2. VectorsAsked = fetched_request_num + (IF vector_reader.finished THEN 0 ELSE 1)
      BY DEF VectorsAsked
    <3> QED BY <2>1, <3>1, <3>2
  <2>5. pre_efm_index' = cpm_index
    BY DEF Prefetch
  <2>6. /\ MetadataAsked' = submited_request_num' - 1
        /\ MetadataAsked' = cpm_index
    BY SMTT(30), <2>1, <2>2, <2>3
  <2>7. metadata_queue' = IF MetadataAsked' = submited_request_num'
                          THEN << >> ELSE << work'.cluster[MetadataAsked'] >>
    BY <2>1, <2>2, <2>3, <2>6
  <2>8. /\ submited_request_num' = pre_efm_index' + 1
        /\ MetadataAsked' \in {submited_request_num' - 1, submited_request_num'}
        /\ vector_reader'.finished
    BY <2>1, <2>2, <2>4, <2>5, <2>6
  <2> QED BY Zenon, <1>2, <2>2, <2>3, <2>7, <2>8 DEF EfmInStep
<1> QED BY <1>3, <1>4 DEF Prefetch

LEMMA InitInStep == Init => EfmInStep
<1> SUFFICES ASSUME Init PROVE EfmInStep
  OBVIOUS
<1>1. /\ metadata_queue = << >> /\ cluster_queue = << >> /\ vector_queue = << >>
      /\ submited_request_num = 0 /\ pre_efm_index = -1 /\ scm_index = NONE
  BY DEF Init, EfmInit, NONE
<1>2. metadata_reader.finished /\ vector_reader.finished
  BY DEF Init, EfmInit, NewReader
<1>3. MetadataAsked = 0 /\ VectorsAsked = 0
  BY <1>2 DEF Init, EfmInit, MetadataAsked, VectorsAsked
<1> QED BY SMTT(30), <1>1, <1>2, <1>3 DEF EfmInStep

LEMMA NextInStep == PipelineInv /\ EfmInStep /\ [Next]_vars => EfmInStep'
<1> SUFFICES ASSUME PipelineInv, EfmInStep, [Next]_vars PROVE EfmInStep'
  OBVIOUS
<1>1. CASE Memory
  BY <1>1, EfmIdle DEF Memory, coreVars, indexVars
<1>2. CASE CpmTick
  BY <1>2, EfmIdle DEF CpmTick, coreVars, indexVars
<1>3. CASE EfmTick
  BY <1>3, EfmTickInStep DEF PipelineInv
<1>4. CASE ScmTick
  BY <1>4, EfmIdle DEF ScmTick, coreVars, indexVars
<1>5. CASE Save
  BY <1>5, EfmIdle DEF Save
<1>6. CASE Process
  BY <1>6, ProcessInStep
<1>7. CASE Prefetch
  BY <1>7, PrefetchInStep
<1>8. CASE Fill
  BY <1>8, EfmIdle DEF Fill
<1>9. CASE Skip
  BY <1>9, EfmIdle DEF Skip, coreVars, indexVars
<1>10. CASE UNCHANGED vars
  BY <1>10, EfmIdle DEF vars, coreVars, indexVars
<1> QED BY <1>1, <1>2, <1>3, <1>4, <1>5, <1>6, <1>7, <1>8, <1>9, <1>10 DEF Next, Core

(* The EFM reads the vectors of one cluster per slice, in the order of the *)
(* slices: its queues and counters never drop, repeat or reorder one.      *)
THEOREM EfmFetchesInOrder == Spec => []FetchInOrder
<1>1. PipelineInv /\ EfmInStep => FetchInOrder
  <2> SUFFICES ASSUME TypeInv, EfmInStep PROVE FetchInOrder
    BY DEF PipelineInv
  <2> DEFINE m == MetadataAsked
             v == VectorsAsked
             S == submited_request_num
             c == work.cluster
             rest == [i \in 1 .. S - v |-> c[v + i - 1]]
  <2>1. /\ m \in Nat /\ S \in Nat /\ m \in {S - 1, S}
        /\ v = IF m = 0 THEN 0 ELSE m - 1
        /\ metadata_queue = IF m = S THEN << >> ELSE << c[m] >>
        /\ cluster_queue = IF m = 0 THEN << >> ELSE << c[m - 1] >>
        /\ vector_queue = << >>
    BY EfmTypes DEF EfmInStep
  <2> HIDE DEF m, v, c
  <2>2. vector_queue \o cluster_queue \o metadata_queue = rest
    <3>1. CASE m = 0 /\ S = 0
      <4>1. rest = << >>
        BY <2>1, <3>1
      <4> QED BY <2>1, <3>1, <4>1
    <3>2. CASE m = 0 /\ S = 1
      <4>1. rest = << c[0] >>
        BY <2>1, <3>2
      <4> QED BY <2>1, <3>2, <4>1
    <3>3. CASE m > 0 /\ m = S
      <4>1. rest = << c[m - 1] >>
        BY <2>1, <3>3
      <4> QED BY <2>1, <3>3, <4>1
    <3>4. CASE m > 0 /\ m = S - 1
      <4>1. rest = << c[m - 1], c[m] >>
        BY <2>1, <3>4
      <4> QED BY <2>1, <3>4, <4>1
    <3>5. \/ m = 0 /\ S = 0
          \/ m = 0 /\ S = 1
          \/ m > 0 /\ m = S
          \/ m > 0 /\ m = S - 1
      <4>1. m \in Nat /\ S \in Nat /\ (m = S - 1 \/ m = S)
        BY <2>1
      <4>2. m = 0 \/ m > 0
        BY <4>1
      <4>3. ASSUME m = 0, m = S - 1 PROVE S = 1
        <5>1. S - 1 = 0
          BY <4>3
        <5> QED BY <4>1, <5>1
      <4> QED BY <4>1, <4>2, <4>3
    <3> HIDE DEF rest
    <3> QED BY SMTT(30), <3>1, <3>2, <3>3, <3>4, <3>5
  <2> QED BY <2>2 DEF FetchInOrder, VectorsAsked, v, c
<1> QED BY <1>1, InitPipeline, NextPipeline, InitInStep, NextInStep, PTL DEF Spec

(* While the SCM computes on a slice, the EFM has fetched the vectors of   *)
(* all earlier slices and of none beyond this one: the encoded-vector      *)
(* buffer never has to hold more than two clusters.                        *)
THEOREM TwoBuffersSuffice == Spec => []DoubleBuffered
<1>1. PipelineInv /\ EfmInStep => DoubleBuffered
  <2> SUFFICES ASSUME TypeInv, Pipeline, EfmInStep, scm_index # NONE
               PROVE  fetched_request_num \in {scm_index, scm_index + 1}
    BY DEF PipelineInv, DoubleBuffered
  <2>1. /\ After(scm_index, saving_r) = EfmStart
        /\ pre_efm_index = IF CpmStart[2] = 0 THEN CpmStart[1] - 1 ELSE CpmStart[1]
        /\ scm_index \in Nat
    BY WorkFacts DEF Pipeline, StagesHoldBatches, BatchesConsecutive, IsBatch
  <2>2. pre_efm_index <= scm_index + 1
    <3>1. EfmStart[1] \in {scm_index, scm_index + 1}
      BY <2>1 DEF After
    <3>2. CASE efm_index # NONE
      BY <2>1, <3>1, <3>2, EfmHoldsLast DEF EfmStart
    <3>3. CASE efm_index = NONE
      BY <2>1, <3>1, <3>3 DEF EfmStart
    <3> QED BY <3>2, <3>3
  <2>3. fetched_request_num <= VectorsAsked /\ fetched_request_num \in Nat
    BY EfmTypes DEF VectorsAsked
  <2>4. /\ VectorsAsked = IF MetadataAsked = 0 THEN 0 ELSE MetadataAsked - 1
        /\ MetadataAsked <= pre_efm_index + 1
        /\ fetched_request_num >= scm_index
    BY SMTT(30), EfmTypes DEF EfmInStep
  <2> QED BY <2>1, <2>2, <2>3, <2>4, EfmTypes
<1> QED BY <1>1, InitPipeline, NextPipeline, InitInStep, NextInStep, PTL DEF Spec
=============================================================================
