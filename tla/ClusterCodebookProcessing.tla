--------------------- MODULE ClusterCodebookProcessing ---------------------
(***************************************************************************)
(* ClusterCodebookProcessingModule, the CPM: it reads the centroids queued *)
(* in wait_addr from memory, N_cu at a time, and then computes for         *)
(* CpmCycles cycles (multi_anna/cluster_codebook_processing_module.hpp).   *)
(* res is the number of answers the memory holds for the CPM's reader.     *)
(***************************************************************************)
EXTENDS MemoryReader

CONSTANTS CpmCycles,     \* COMPUTING_CYCLE_NUM
          NCu,           \* N_cu, centroids fetched in one round
          VectorSize     \* VECTOR_SIZE, bytes of a centroid

ASSUME CpmAssumption == /\ CpmCycles \in Nat \ {0}
                        /\ NCu \in Nat \ {0}
                        /\ VectorSize \in Nat

VARIABLES cpm_reader,    \* memory_reader
          cpm_remind,    \* computing_remind
          wait_addr      \* length of wait_addr

cpmVars == << cpm_reader, cpm_remind, wait_addr >>

(* COMPUTING_INVALID_NUM: the reads of a round are in flight.              *)
INVALID == -1

CpmTypeOK == /\ cpm_reader \in Reader
             /\ cpm_remind \in {INVALID} \cup 0 .. CpmCycles
             /\ wait_addr \in Nat

CpmInit == /\ cpm_reader = NewReader
           /\ cpm_remind = 0
           /\ wait_addr = 0

(* The centroids one round takes from wait_addr.                           *)
Round == IF wait_addr < NCu THEN wait_addr ELSE NCu

CpmComputing == cpm_remind \in 1 .. CpmCycles

CpmClockTick(res) ==
  LET ticked == ReaderClockTick(cpm_reader, res)
      reset  == FinishAndReset(ticked)
  IN  \/ /\ CpmComputing
         /\ cpm_reader' = ticked
         /\ cpm_remind' = cpm_remind - 1
         /\ UNCHANGED wait_addr
      \/ /\ ~ CpmComputing
         /\ IsReady(reset)
         /\ cpm_remind = INVALID
         /\ cpm_reader' = reset
         /\ cpm_remind' = CpmCycles
         /\ UNCHANGED wait_addr
      \/ /\ ~ CpmComputing
         /\ IsReady(reset)
         /\ cpm_remind # INVALID
         /\ wait_addr > 0
         /\ cpm_reader' = SubmitReadRequests(reset, [i \in 1 .. Round |-> "centroid"],
                                             [centroid |-> VectorSize])
         /\ cpm_remind' = INVALID
         /\ wait_addr' = wait_addr - Round
      \/ /\ ~ CpmComputing
         /\ ~ IsReady(reset) \/ (cpm_remind # INVALID /\ wait_addr = 0)
         /\ cpm_reader' = reset
         /\ UNCHANGED << cpm_remind, wait_addr >>

CpmIsReadySubmit == wait_addr = 0

CpmIsFinished == wait_addr = 0 /\ cpm_remind = 0

(* SubmitClusterRequest with the one centroid the core passes.             *)
CpmSubmitClusterRequest ==
  /\ wait_addr' = wait_addr + 1
  /\ UNCHANGED << cpm_reader, cpm_remind >>
=============================================================================
