----------------------- MODULE SimilarityComputation -----------------------
(***************************************************************************)
(* SimilarityComputationModule, the SCM: busy for a number of cycles that  *)
(* depends on the vectors to compare                                       *)
(* (multi_anna/similarity_computation_module.hpp).                         *)
(***************************************************************************)
EXTENDS Integers

CONSTANTS NScm,          \* N_scm, vectors compared in one round
          ScmCycles,     \* COMPUTING_CYCLE_NUM, cycles of one round
          WordSize       \* values of a uint64_t; 2^64 in the code

ASSUME ScmAssumption == /\ NScm \in Nat \ {0}
                        /\ ScmCycles \in Nat \ {0}
                        /\ WordSize \in Nat \ {0}

VARIABLE scm_remind      \* computing_remind

ScmTypeOK == scm_remind \in Nat

ScmInit == scm_remind = 0

(* Mutant: counts down past zero.                                          *)
ScmClockTickUnguarded == scm_remind' = scm_remind - 1

ScmClockTick == scm_remind' = IF scm_remind > 0 THEN scm_remind - 1 ELSE 0

ScmIsReady == scm_remind = 0

(* vector_num - 1 wraps around when there is nothing to compare.           *)
ScmRounds(vector_num) == 1 + ((vector_num - 1) % WordSize) \div NScm

ScmSubmit(vector_num) == scm_remind' = (ScmCycles * ScmRounds(vector_num)) % WordSize
=============================================================================
