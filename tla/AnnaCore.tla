------------------------------ MODULE AnnaCore ------------------------------
(***************************************************************************)
(* One ANNACore (multi_anna/multi_anna.hpp): a three-stage pipeline that   *)
(* takes the queries of one slice (a cluster and the queries that probe    *)
(* it) through the CPM, the EFM and the SCM, batch_size queries at a time. *)
(*                                                                         *)
(* A clock tick is a fixed round of steps, in the order of the code:       *)
(*   memory    MultiMemoryInterface answers some outstanding reads         *)
(*   cpm efm scm      the ClockTick of each module                         *)
(*   save      results of the batch in the SCM are recorded                *)
(*   process   the batch in the EFM enters the SCM                         *)
(*   prefetch  the batch in the CPM enters the EFM                         *)
(*   fill      the next batch enters the CPM                               *)
(* Only the memory step is nondeterministic: how many of a reader's        *)
(* outstanding reads are answered in a tick is left open.                  *)
(***************************************************************************)
EXTENDS ClusterCodebookProcessing, EncodedVectorFetch, SimilarityComputation

CONSTANTS BatchSize,     \* batch_size
          VectorNum,     \* VectorNum[i] is cluster_addr[i].vector_num
          Work,          \* the arguments Setup may get
          Garbage        \* values an uninitialised member may hold

(* cluster_list and query_set_list as Setup gets them: num slices, and for *)
(* each slice its cluster and how many queries its set holds.  MultiANNA   *)
(* only makes slices with a nonempty query set, and no more of them for a  *)
(* core than there are clusters: 64 groups of queries, 2048 clusters in a  *)
(* group and 8 cores make 16384, CLUSTER_NUM.                              *)
IsWork(w) == /\ w = [num |-> w.num, cluster |-> w.cluster, size |-> w.size]
             /\ w.num \in Nat
             /\ 0 .. w.num - 1 \subseteq Cluster
             /\ w.cluster \in [0 .. w.num - 1 -> Cluster]
             /\ w.size \in [0 .. w.num - 1 -> Nat \ {0}]

ASSUME CoreAssumption == /\ BatchSize \in Nat \ {0}
                         /\ VectorNum \in [Cluster -> Nat]
                         /\ \A w \in Work : IsWork(w)
                         /\ Garbage \subseteq Nat

VARIABLES phase,                     \* the step of the tick that comes next
          read_ready,                \* answers waiting for each reader
          work,                      \* cluster_list, query_set_list
          slice, slice_changed, slice_queries,
          next_l, next_r,            \* next_queries_l, _r: the batch in the CPM
          process_l, process_r,      \* process_queries_l, _r: the batch in the EFM
          saving_l, saving_r,        \* saving_queries_l, _r: the batch in the SCM
          cpm_index, efm_index, scm_index,   \* *_processing_index
          pre_efm_index,             \* pre_efm_processing_index
          efm_fetching_request_num,
          finished,                  \* Finished
          started,                   \* places <<slice, query>> given a start clock
          saved                      \* places <<slice, query>> given an end clock

batchVars == << slice, slice_changed, slice_queries, next_l, next_r, process_l, process_r,
                saving_l, saving_r >>
indexVars == << cpm_index, efm_index, scm_index, pre_efm_index, efm_fetching_request_num >>
resultVars == << finished, started, saved >>
coreVars == << batchVars, indexVars, resultVars >>

vars == << phase, read_ready, work, coreVars, cpmVars, efmVars, scm_remind >>

NONE == -1

ReaderName == {"cpm", "metadata", "vector"}

ReaderOf(n) == CASE n = "cpm" -> cpm_reader
                 [] n = "metadata" -> metadata_reader
                 [] n = "vector" -> vector_reader

Slices == 0 .. work.num - 1

(* The queries of slice s from l up to r.                                  *)
Batch(s, l, r) == {s} \X (l .. r - 1)

Init ==
  /\ CpmInit /\ EfmInit /\ ScmInit
  /\ phase = "memory"
  /\ read_ready = [n \in ReaderName |-> 0]
  /\ work \in Work
  /\ slice = 0
  /\ slice_changed = TRUE
  /\ slice_queries \in Garbage
  /\ next_l = NONE /\ next_r = NONE
  /\ process_l = NONE /\ process_r = NONE
  /\ saving_l = NONE /\ saving_r = NONE
  /\ cpm_index = NONE /\ efm_index = NONE /\ scm_index = NONE
  /\ pre_efm_index = NONE
  /\ efm_fetching_request_num \in Garbage
  /\ finished = FALSE
  /\ started = {} /\ saved = {}
-----------------------------------------------------------------------------
(* Reads a reader has sent that the memory has not answered.               *)
Outstanding(n) == ReaderOf(n).processing_num - ReaderOf(n).queued - read_ready[n]

Memory ==
  /\ phase = "memory"
  /\ \E c \in 0 .. Outstanding("cpm"), m \in 0 .. Outstanding("metadata"),
        v \in 0 .. Outstanding("vector") :
       read_ready' = [read_ready EXCEPT !["cpm"] = @ + c, !["metadata"] = @ + m,
                                        !["vector"] = @ + v]
  /\ phase' = "cpm"
  /\ UNCHANGED << work, coreVars, cpmVars, efmVars, scm_remind >>

CpmTick ==
  /\ phase = "cpm"
  /\ CpmClockTick(read_ready["cpm"])
  /\ read_ready' = [read_ready EXCEPT !["cpm"] = 0]
  /\ phase' = "efm"
  /\ UNCHANGED << work, coreVars, efmVars, scm_remind >>

EfmTick ==
  /\ phase = "efm"
  /\ EfmClockTick(read_ready["metadata"], read_ready["vector"])
  /\ read_ready' = [read_ready EXCEPT !["metadata"] = 0, !["vector"] = 0]
  /\ phase' = "scm"
  /\ UNCHANGED << work, coreVars, cpmVars, scm_remind >>

ScmTick ==
  /\ phase = "scm"
  /\ ScmClockTick
  /\ phase' = "save"
  /\ UNCHANGED << read_ready, work, coreVars, cpmVars, efmVars >>

(* "save": the batch in the SCM is done.                                   *)
CanSave == scm_index # NONE /\ ScmIsReady

(* Mutant: the save takes the batch of the stage before.                   *)
ProcessedBatch == Batch(scm_index, process_l, process_r)

SavedBatch == Batch(scm_index, saving_l, saving_r)

(* Mutant: the first batch of the last slice ends the run.                 *)
InLastSlice == scm_index = work.num - 1

IsLastBatch == scm_index = work.num - 1 /\ saving_r = work.size[scm_index]

Save ==
  /\ phase = "save"
  /\ CanSave
  /\ saved' = saved \cup SavedBatch
  /\ finished' = (finished \/ IsLastBatch)
  /\ scm_index' = NONE
  /\ phase' = "process"
  /\ UNCHANGED << read_ready, work, batchVars, cpm_index, efm_index, pre_efm_index,
                  efm_fetching_request_num, started, cpmVars, efmVars, scm_remind >>

(* Mutant: a batch enters the SCM whatever has been fetched.               *)
CanProcessUnfetched == efm_index # NONE /\ scm_index = NONE /\ ScmIsReady

(* "scm process": the batch in the EFM enters the SCM.  The code indexes   *)
(* cluster_addr with the number of the slice.                              *)
CanProcess == /\ efm_index # NONE
              /\ scm_index = NONE
              /\ fetched_request_num = efm_fetching_request_num
              /\ ScmIsReady

Process ==
  /\ phase = "process"
  /\ CanProcess
  /\ ScmSubmit(VectorNum[efm_index] * work.size[efm_index])
  /\ scm_index' = efm_index
  /\ saving_l' = process_l
  /\ saving_r' = process_r
  /\ efm_index' = NONE
  /\ phase' = "prefetch"
  /\ UNCHANGED << read_ready, work, slice, slice_changed, slice_queries, next_l, next_r,
                  process_l, process_r, cpm_index, pre_efm_index, efm_fetching_request_num,
                  resultVars, cpmVars, efmVars >>

(* Mutant: a batch enters the EFM while another one is in it.              *)
CanPrefetchOccupied == cpm_index # NONE /\ CpmIsFinished /\ EfmIsReadySubmit

(* "pre fetch": the batch in the CPM enters the EFM; the cluster is        *)
(* requested only when the slice is a new one.                             *)
CanPrefetch == /\ cpm_index # NONE
               /\ efm_index = NONE
               /\ CpmIsFinished
               /\ EfmIsReadySubmit

Prefetch ==
  /\ phase = "prefetch"
  /\ CanPrefetch
  /\ \/ /\ cpm_index # pre_efm_index
        /\ EfmSubmitRequest(<< work.cluster[cpm_index] >>)
        /\ efm_fetching_request_num' = EfmRequestNumber
     \/ /\ cpm_index = pre_efm_index
        /\ UNCHANGED << efmVars, efm_fetching_request_num >>
  /\ efm_index' = cpm_index
  /\ pre_efm_index' = cpm_index
  /\ process_l' = next_l
  /\ process_r' = next_r
  /\ cpm_index' = NONE
  /\ phase' = "fill"
  /\ UNCHANGED << read_ready, work, slice, slice_changed, slice_queries, next_l, next_r,
                  saving_l, saving_r, scm_index, resultVars, cpmVars, scm_remind >>

(* Mutant: a batch enters the CPM while another one is in it.              *)
CanFillOccupied == CpmIsReadySubmit /\ slice < work.num

(* The last part of ClockTick: the next batch of the current slice, or the *)
(* first one of the next slice, enters the CPM.                            *)
CanFill == cpm_index = NONE /\ CpmIsReadySubmit /\ slice < work.num

Fill ==
  /\ phase = "fill"
  /\ CanFill
  /\ cpm_index' = slice
  /\ slice_queries' = IF slice_changed THEN 0 ELSE slice_queries + BatchSize
  /\ next_l' = slice_queries'
  /\ next_r' = IF next_l' + BatchSize < work.size[slice] THEN next_l' + BatchSize
                                                         ELSE work.size[slice]
  /\ started' = started \cup Batch(slice, next_l', next_r')
  /\ slice_changed' = (next_r' = work.size[slice])
  /\ slice' = IF next_r' = work.size[slice] THEN slice + 1 ELSE slice
  /\ CpmSubmitClusterRequest
  /\ phase' = "memory"
  /\ UNCHANGED << read_ready, work, process_l, process_r, saving_l, saving_r, efm_index,
                  scm_index, pre_efm_index, efm_fetching_request_num, finished, saved,
                  efmVars, scm_remind >>

(* A stage of the pipeline whose condition does not hold is passed over.   *)
Skip ==
  /\ \/ phase = "save" /\ ~ CanSave /\ phase' = "process"
     \/ phase = "process" /\ ~ CanProcess /\ phase' = "prefetch"
     \/ phase = "prefetch" /\ ~ CanPrefetch /\ phase' = "fill"
     \/ phase = "fill" /\ ~ CanFill /\ phase' = "memory"
  /\ UNCHANGED << read_ready, work, coreVars, cpmVars, efmVars, scm_remind >>
-----------------------------------------------------------------------------
Core == CpmTick \/ EfmTick \/ ScmTick \/ Save \/ Process \/ Prefetch \/ Fill \/ Skip

Next == Memory \/ Core

Spec == Init /\ [][Next]_vars

(* The memory answers something to reader n in this tick.                  *)
Answers(n) == Memory /\ read_ready'[n] > read_ready[n]

(* MultiANNA's loop keeps ticking, and the memory answers every read in    *)
(* the end (what MemoryInterface shows of it).                             *)
FairSpec == Spec /\ WF_vars(Next) /\ \A n \in ReaderName : SF_vars(Answers(n))
-----------------------------------------------------------------------------
Index == {NONE} \cup Nat

TypeOK ==
  /\ CpmTypeOK /\ EfmTypeOK /\ ScmTypeOK
  /\ phase \in {"memory", "cpm", "efm", "scm", "save", "process", "prefetch", "fill"}
  /\ read_ready \in [ReaderName -> Nat]
  /\ work \in Work
  /\ slice \in Nat /\ slice_changed \in BOOLEAN /\ slice_queries \in Nat
  /\ next_l \in Index /\ next_r \in Index
  /\ process_l \in Index /\ process_r \in Index
  /\ saving_l \in Index /\ saving_r \in Index
  /\ cpm_index \in Index /\ efm_index \in Index /\ scm_index \in Index
  /\ pre_efm_index \in Index
  /\ efm_fetching_request_num \in Nat
  /\ finished \in BOOLEAN
  /\ started \in SUBSET (Nat \X Nat)
  /\ saved \in SUBSET (Nat \X Nat)

(* The place after the first r queries of slice s, in the order in which   *)
(* the core is to serve its queries: a slice and a query of it.            *)
After(s, r) == IF r = work.size[s] THEN << s + 1, 0 >> ELSE << s, r >>

(* The queries ahead of a place.                                           *)
Queries == UNION {Batch(s, 0, work.size[s]) : s \in Slices}
Ahead(p) == {q \in Queries : q[1] < p[1] \/ (q[1] = p[1] /\ q[2] < p[2])}

(* Where the next batch begins that enters the CPM, and the oldest batch   *)
(* in the CPM or behind it, in the EFM or behind it, in the SCM or behind. *)
FillStart == << slice, IF slice_changed THEN 0 ELSE slice_queries + BatchSize >>
CpmStart == IF cpm_index # NONE THEN << cpm_index, next_l >> ELSE FillStart
EfmStart == IF efm_index # NONE THEN << efm_index, process_l >> ELSE CpmStart
ScmStart == IF scm_index # NONE THEN << scm_index, saving_l >> ELSE EfmStart

(* The batches in the three stages are consecutive: the pipeline registers *)
(* next_*, process_* and saving_* are never overwritten before the batch   *)
(* in them has moved on, and no batch is skipped or entered twice.         *)
BatchesConsecutive ==
  /\ cpm_index # NONE => After(cpm_index, next_r) = FillStart
  /\ efm_index # NONE => After(efm_index, process_r) = CpmStart
  /\ scm_index # NONE => After(scm_index, saving_r) = EfmStart

(* Every place of every query set is given its start clock and its end     *)
(* clock, in order: started are exactly the places that entered the CPM,   *)
(* and those saved are exactly the ones ahead of the oldest batch in       *)
(* flight.                                                                 *)
ServedInOrder == started = Ahead(FillStart) /\ saved = Ahead(ScmStart)

(* Finished, on which MultiANNA::Run stops, is set exactly when every      *)
(* place of the core's query sets has its end clock.                       *)
FinishedWhenAllSaved == finished <=> work.num > 0 /\ saved = Queries

(* The clusters the EFM still has to read the vectors of are those of the  *)
(* latest slices requested, in order: its three queues and two counters    *)
(* never drop, repeat or reorder a cluster.                                *)
FetchInOrder ==
  LET reading == fetched_request_num + (IF vector_reader.finished THEN 0 ELSE 1)
  IN  vector_queue \o cluster_queue \o metadata_queue
        = [i \in 1 .. submited_request_num - reading |-> work.cluster[reading + i - 1]]

(* While the SCM works on a slice, the vectors of all earlier slices have  *)
(* been fetched and at most those of this slice besides: two buffers for   *)
(* encoded vectors are enough.                                             *)
DoubleBuffered == scm_index # NONE => fetched_request_num \in {scm_index, scm_index + 1}

(* The core implements CoreService: all MultiANNA needs to know of it is   *)
(* how many places it has started and saved, and whether it is finished.   *)
Service == INSTANCE CoreService WITH total <- Cardinality(Queries),
                                     started <- Cardinality(started),
                                     saved <- Cardinality(saved)
ImplementsCoreService == Service!ServiceSpec

(* A core that has any slice to serve sets Finished in the end.            *)
Terminates == work.num > 0 => <> finished

(* The SCM computes on vectors that have been fetched: the vectors of the  *)
(* slice it works on have been read from memory.                           *)
VectorsFetchedFirst == scm_index # NONE => fetched_request_num > scm_index

(* The SCM is busy for as long as it takes to compare the queries of the   *)
(* slice with the vectors of the slice's own cluster.                      *)
ChargesOwnCluster ==
  [][Process => ScmSubmit(VectorNum[work.cluster[efm_index]] * work.size[efm_index])]_vars
-----------------------------------------------------------------------------
(* What makes the properties above inductive.                              *)

(* No reader has more answers and unsent requests than unanswered ones,    *)
(* and one that reported its completion has nothing to wait for.           *)
Counted(r, answers) == /\ answers + r.queued <= r.processing_num
                       /\ r.finished => r.processing_num = 0

ReadersCounted == /\ Counted(cpm_reader, read_ready["cpm"])
                  /\ Counted(metadata_reader, read_ready["metadata"])
                  /\ Counted(vector_reader, read_ready["vector"])

IsBatch(s, l, r) == /\ s \in Slices
                    /\ l \in Nat /\ r \in Nat
                    /\ l < r /\ r <= work.size[s]

(* The occupied stages hold batches, and the next one is not empty.        *)
StagesHoldBatches ==
  /\ cpm_index # NONE => IsBatch(cpm_index, next_l, next_r)
  /\ efm_index # NONE => IsBatch(efm_index, process_l, process_r)
  /\ scm_index # NONE => IsBatch(scm_index, saving_l, saving_r)
  /\ slice <= work.num
  /\ ~ slice_changed => /\ slice < work.num
                        /\ slice_queries + BatchSize < work.size[slice]
  /\ pre_efm_index = IF CpmStart[2] = 0 THEN CpmStart[1] - 1 ELSE CpmStart[1]

(* Requests whose metadata, and whose vectors, have been asked for.        *)
MetadataAsked == fetching_request_num + (IF metadata_reader.finished THEN 0 ELSE 1)
VectorsAsked == fetched_request_num + (IF vector_reader.finished THEN 0 ELSE 1)

(* One request per slice; its metadata is asked for only when the previous *)
(* slice has been passed to the SCM, and then the vectors of the previous  *)
(* slice are asked for at once.                                            *)
EfmInStep ==
  /\ submited_request_num = pre_efm_index + 1
  /\ submited_request_num > 0 => efm_fetching_request_num = submited_request_num - 1
  /\ MetadataAsked \in {submited_request_num - 1, submited_request_num}
  /\ metadata_queue = IF MetadataAsked = submited_request_num
                      THEN << >> ELSE << work.cluster[MetadataAsked] >>
  /\ cluster_queue = IF MetadataAsked = 0 THEN << >> ELSE << work.cluster[MetadataAsked - 1] >>
  /\ vector_queue = << >>
  /\ VectorsAsked = IF MetadataAsked = 0 THEN 0 ELSE MetadataAsked - 1
  /\ MetadataAsked # submited_request_num => vector_reader.finished
  /\ submited_request_num > 0 /\ efm_index = NONE => fetched_request_num = submited_request_num - 1
  /\ scm_index # NONE => fetched_request_num >= scm_index
=============================================================================
