------------------------------ MODULE SimpleStats ------------------------------
(***************************************************************************)
(* The statistics of a channel (simple_stats.cc): counters and histograms  *)
(* of the current epoch, added into the overall ones at the end of every   *)
(* epoch and at the end of the run. A vector counter is one counter per    *)
(* index. Energies and averages are functions of what is modelled; their   *)
(* arithmetic and their printing are left out.                             *)
(***************************************************************************)
EXTENDS Naturals, FiniteSetsExt

CONSTANTS Counter, Value,              \* the names of counters; the values of the histogram
          start_val, end_val, num_bins,
          MaxEvents                    \* bound on the events recorded

ASSUME StatsAssumption == /\ Value \subseteq Nat /\ {start_val, end_val, num_bins, MaxEvents} \subseteq Nat
                          /\ num_bins > 0 /\ (end_val - start_val) \div num_bins > 0

VARIABLES counters, epoch_counters, histo_counts, epoch_histo_counts,
          histo_bins, epoch_histo_bins,
          done,            \* PrintFinalStats was called, which ends the run
          seen             \* what was recorded since the start or the last Reset

statsVars == <<counters, epoch_counters, histo_counts, epoch_histo_counts, histo_bins, epoch_histo_bins, done, seen>>

Bin == 0 .. num_bins + 1
NoCounts == [c \in Counter |-> 0]
NoValues == [v \in Value |-> 0]
NoBins == [b \in Bin |-> 0]

StatsInit == /\ counters = NoCounts /\ epoch_counters = NoCounts
             /\ histo_counts = NoValues /\ epoch_histo_counts = NoValues
             /\ histo_bins = NoBins /\ epoch_histo_bins = NoBins
             /\ done = FALSE /\ seen = [counts |-> NoCounts, values |-> NoValues]

Total(f) == MapThenSumSet(LAMBDA x : f[x], DOMAIN f)
Events == Total(seen.counts) + Total(epoch_histo_counts) + Total(histo_bins)

Increment(name) ==
  /\ ~done /\ Events < MaxEvents
  /\ epoch_counters' = [epoch_counters EXCEPT ![name] = @ + 1]
  /\ seen' = [seen EXCEPT !.counts[name] = @ + 1]
  /\ UNCHANGED <<counters, histo_counts, epoch_histo_counts, histo_bins, epoch_histo_bins, done>>

AddValue(value) ==
  /\ ~done /\ Events < MaxEvents
  /\ epoch_histo_counts' = [epoch_histo_counts EXCEPT ![value] = @ + 1]
  /\ seen' = [seen EXCEPT !.values[value] = @ + 1]
  /\ UNCHANGED <<counters, epoch_counters, histo_counts, histo_bins, epoch_histo_bins, done>>

(* The bins: one before start_val, num_bins of equal width, one after.     *)
(* Mutant: the first bin of the range is that of the values below it.      *)
Plus(f, g) == [x \in DOMAIN f |-> f[x] + g[x]]
bin_idx_from_zero(value) == (value - start_val) \div ((end_val - start_val) \div num_bins)
bin_idx(value) == CASE value < start_val -> 0
                    [] value > end_val -> num_bins + 1
                    [] value \in start_val .. end_val ->
                         (value - start_val) \div ((end_val - start_val) \div num_bins) + 1
Binned(counts) == [b \in Bin |-> MapThenSumSet(LAMBDA v : counts[v], {v \in Value : bin_idx(v) = b})]

(* UpdateCounters and UpdateHistoBins.                                     *)
Update == /\ counters' = Plus(counters, epoch_counters)
          /\ epoch_histo_bins' = Binned(epoch_histo_counts)
          /\ histo_counts' = Plus(histo_counts, epoch_histo_counts)
          /\ histo_bins' = Plus(histo_bins, epoch_histo_bins')

(* Mutant: the counters of the epoch that ends are kept for the next.      *)
EpochKept == epoch_counters
EpochAfter == NoCounts

PrintEpochStats ==
  /\ ~done
  /\ Update
  /\ epoch_counters' = EpochAfter /\ epoch_histo_counts' = NoValues
  /\ UNCHANGED <<done, seen>>

PrintFinalStats ==
  /\ ~done /\ done' = TRUE
  /\ Update
  /\ UNCHANGED <<epoch_counters, epoch_histo_counts, seen>>

Reset ==
  /\ ~done
  /\ counters' = NoCounts /\ epoch_counters' = NoCounts
  /\ histo_counts' = NoValues /\ epoch_histo_counts' = NoValues
  /\ seen' = [counts |-> NoCounts, values |-> NoValues]
  /\ UNCHANGED <<histo_bins, epoch_histo_bins, done>>

StatsNext == \/ \E name \in Counter : Increment(name)
             \/ \E value \in Value : AddValue(value)
             \/ PrintEpochStats \/ PrintFinalStats \/ Reset

StatsSpec == StatsInit /\ [][StatsNext]_statsVars

-----------------------------------------------------------------------------
(* Nothing is counted twice or lost between the epochs and the total: at   *)
(* any time the two add up to what was recorded since the last Reset, and  *)
(* the final total is all of it.                                           *)
TotalsExact ==
  /\ IF done THEN counters = seen.counts ELSE Plus(counters, epoch_counters) = seen.counts
  /\ IF done THEN histo_counts = seen.values ELSE Plus(histo_counts, epoch_histo_counts) = seen.values

(* The bin of every value is the one whose header (InitHistoStat) has it:  *)
(* below start_val, from start_val + (i - 1) * width up to the next, or    *)
(* from end_val on.                                                        *)
BinsOfHeaders ==
  LET width == (end_val - start_val) \div num_bins
      header(b) == CASE b = 0 -> {v \in Value : v < start_val}
                     [] b = num_bins + 1 -> {v \in Value : v >= end_val}
                     [] b \in 1 .. num_bins -> {v \in Value : /\ start_val + (b - 1) * width <= v
                                                              /\ v <= start_val + b * width - 1}
  IN  done => epoch_histo_bins = [b \in Bin |-> MapThenSumSet(LAMBDA v : epoch_histo_counts[v], header(b))]
=============================================================================
