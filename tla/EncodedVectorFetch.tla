------------------------- MODULE EncodedVectorFetch -------------------------
(***************************************************************************)
(* EncodedVectorFetchModule, the EFM: it reads the metadata and then the   *)
(* encoded vectors of the clusters it is asked for                         *)
(* (multi_anna/encoded_vector_fetch_module.hpp).  metaRes and vecRes are   *)
(* the answers the memory holds for its two readers.                       *)
(***************************************************************************)
EXTENDS MemoryReader

CONSTANTS Cluster,       \* the clusters of the database
          MetadataLen,   \* metadata_addr[c].second, bytes of the metadata of c
          VectorLen      \* cluster_addr[c].bytes, bytes of the vectors of c

ASSUME EfmAssumption == /\ MetadataLen \in [Cluster -> Nat]
                        /\ VectorLen \in [Cluster -> Nat]

VARIABLES metadata_reader,
          vector_reader,
          metadata_queue,        \* "to read for metadata"
          vector_queue,          \* "to read for vector data"
          cluster_queue,         \* "reading for metadata so that now cannot read for vector data"
          fetched_request_num,   \* vector reads completed
          submited_request_num,  \* requests submitted
          fetching_request_num   \* metadata reads completed

efmVars == << metadata_reader, vector_reader, metadata_queue, vector_queue, cluster_queue,
              fetched_request_num, submited_request_num, fetching_request_num >>

EfmTypeOK == /\ metadata_reader \in Reader
             /\ vector_reader \in Reader
             /\ metadata_queue \in Seq(Cluster)
             /\ vector_queue \in Seq(Cluster)
             /\ cluster_queue \in Seq(Cluster)
             /\ fetched_request_num \in Nat
             /\ submited_request_num \in Nat
             /\ fetching_request_num \in Nat

EfmInit == /\ metadata_reader = NewReader
           /\ vector_reader = NewReader
           /\ metadata_queue = << >>
           /\ vector_queue = << >>
           /\ cluster_queue = << >>
           /\ fetched_request_num = 0
           /\ submited_request_num = 0
           /\ fetching_request_num = 0

(* Mutant: the clusters that move on stay in cluster_queue.                *)
NowReadingKept == cluster_queue \o metadata_queue

(* cluster_queue, cleared and filled anew when its clusters move on.       *)
NowReading == metadata_queue

(* ClockTick.  A completed metadata read is counted; once all but the last *)
(* request have their metadata, the queued clusters move on.  A completed  *)
(* vector read is counted; once all but the last of the counted metadata   *)
(* have their vectors, the clusters that moved on are read.  In the two    *)
(* guards 0 - 1 is 2^64 - 1 in the code and -1 here: no counter equals     *)
(* either.                                                                 *)
EfmClockTick(metaRes, vecRes) ==
  LET metaTicked == ReaderClockTick(metadata_reader, metaRes)
      metaReset  == FinishAndReset(metaTicked)
      fetching   == fetching_request_num + (IF JustFinished(metaTicked) THEN 1 ELSE 0)
      moveOn     == fetching = submited_request_num - 1 /\ IsReady(metaReset)
      toRead     == IF moveOn THEN vector_queue \o cluster_queue ELSE vector_queue
      vecTicked  == ReaderClockTick(vector_reader, vecRes)
      vecReset   == FinishAndReset(vecTicked)
      fetched    == fetched_request_num + (IF JustFinished(vecTicked) THEN 1 ELSE 0)
      readNow    == fetched = fetching - 1 /\ IsReady(vecReset)
  IN  /\ fetching_request_num' = fetching
      /\ metadata_reader' = IF moveOn
                            THEN SubmitReadRequests(metaReset, metadata_queue, MetadataLen)
                            ELSE metaReset
      /\ cluster_queue' = IF moveOn THEN NowReading ELSE cluster_queue
      /\ metadata_queue' = IF moveOn THEN << >> ELSE metadata_queue
      /\ fetched_request_num' = fetched
      /\ vector_reader' = IF readNow
                          THEN SubmitReadRequests(vecReset, toRead, VectorLen)
                          ELSE vecReset
      /\ vector_queue' = IF readNow THEN << >> ELSE toRead
      /\ UNCHANGED submited_request_num

EfmIsReadySubmit == metadata_queue = << >>

(* SubmitRequest(clusters); it returns EfmRequestNumber.                   *)
EfmSubmitRequest(clusters) ==
  /\ metadata_queue' = metadata_queue \o clusters
  /\ submited_request_num' = submited_request_num + 1
  /\ UNCHANGED << metadata_reader, vector_reader, vector_queue, cluster_queue,
                  fetched_request_num, fetching_request_num >>

(* Mutant: the number of the request itself, one too high.                 *)
EfmRequestNumberOwn == submited_request_num'

EfmRequestNumber == submited_request_num' - 1
=============================================================================
