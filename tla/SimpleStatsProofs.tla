--------------------------- MODULE SimpleStatsProofs ---------------------------
(***************************************************************************)
(* The statistics count everything once, for any number of counters and    *)
(* epochs: the bound on the events of a run is not used.                   *)
(***************************************************************************)
EXTENDS SimpleStats, TLAPS

StatsInv ==
  /\ counters \in [Counter -> Nat] /\ epoch_counters \in [Counter -> Nat]
  /\ histo_counts \in [Value -> Nat] /\ epoch_histo_counts \in [Value -> Nat]
  /\ seen \in [counts : [Counter -> Nat], values : [Value -> Nat]]
  /\ done \in BOOLEAN
  /\ TotalsExact

(* Plus adds pointwise.                                                    *)
LEMMA PlusType ==
  ASSUME NEW S, NEW f \in [S -> Nat], NEW g \in [S -> Nat]
  PROVE  Plus(f, g) \in [S -> Nat] /\ Plus(f, [x \in S |-> 0]) = f
BY DEF Plus

LEMMA StatsInvInit ==
  StatsInit => StatsInv
<1> SUFFICES ASSUME StatsInit PROVE StatsInv
  OBVIOUS
<1>1. NoCounts \in [Counter -> Nat] /\ NoValues \in [Value -> Nat]
  BY DEF NoCounts, NoValues
<1>2. Plus(NoCounts, NoCounts) = NoCounts /\ Plus(NoValues, NoValues) = NoValues
  BY DEF Plus, NoCounts, NoValues
<1> QED BY <1>1, <1>2 DEF StatsInit, StatsInv, TotalsExact

LEMMA StatsInvNext ==
  StatsInv /\ [StatsNext]_statsVars => StatsInv'
<1> SUFFICES ASSUME StatsInv, [StatsNext]_statsVars PROVE StatsInv'
  OBVIOUS
<1>1. /\ counters \in [Counter -> Nat] /\ epoch_counters \in [Counter -> Nat]
      /\ histo_counts \in [Value -> Nat] /\ epoch_histo_counts \in [Value -> Nat]
      /\ seen \in [counts : [Counter -> Nat], values : [Value -> Nat]]
      /\ seen.counts \in [Counter -> Nat] /\ seen.values \in [Value -> Nat]
  BY DEF StatsInv
<1>2. ~done => /\ Plus(counters, epoch_counters) = seen.counts
               /\ Plus(histo_counts, epoch_histo_counts) = seen.values
  BY DEF StatsInv, TotalsExact
<1>3. /\ NoCounts \in [Counter -> Nat] /\ NoValues \in [Value -> Nat]
      /\ Plus(NoCounts, NoCounts) = NoCounts /\ Plus(NoValues, NoValues) = NoValues
  BY DEF Plus, NoCounts, NoValues
<1>4. ASSUME NEW name \in Counter, Increment(name) PROVE StatsInv'
  <2>1. /\ epoch_counters' = [epoch_counters EXCEPT ![name] = @ + 1]
        /\ seen' = [seen EXCEPT !.counts[name] = @ + 1]
        /\ UNCHANGED <<counters, histo_counts, epoch_histo_counts, done>>
        /\ ~done
    BY <1>4 DEF Increment
  <2>2. /\ seen'.counts = [seen.counts EXCEPT ![name] = @ + 1]
        /\ seen'.values = seen.values
        /\ seen' \in [counts : [Counter -> Nat], values : [Value -> Nat]]
    BY <1>1, <2>1
  <2>3. Plus(counters, epoch_counters') = seen'.counts
    <3>1. \A x \in Counter : counters[x] + epoch_counters[x] = seen.counts[x]
      BY <1>1, <1>2, <2>1 DEF Plus
    <3>2. \A x \in Counter : counters[x] + epoch_counters'[x] = seen'.counts[x]
      BY <1>1, <2>1, <2>2, <3>1
    <3>3. epoch_counters' \in [Counter -> Nat] /\ seen'.counts \in [Counter -> Nat]
      BY <1>1, <2>1, <2>2
    <3> QED BY <1>1, <3>2, <3>3 DEF Plus
  <2>4. epoch_counters' \in [Counter -> Nat]
    BY <1>1, <2>1
  <2> QED BY <1>1, <1>2, <2>1, <2>2, <2>3, <2>4 DEF StatsInv, TotalsExact
<1>5. ASSUME NEW value \in Value, AddValue(value) PROVE StatsInv'
  <2>1. /\ epoch_histo_counts' = [epoch_histo_counts EXCEPT ![value] = @ + 1]
        /\ seen' = [seen EXCEPT !.values[value] = @ + 1]
        /\ UNCHANGED <<counters, epoch_counters, histo_counts, done>>
        /\ ~done
    BY <1>5 DEF AddValue
  <2>2. /\ seen'.values = [seen.values EXCEPT ![value] = @ + 1]
        /\ seen'.counts = seen.counts
        /\ seen' \in [counts : [Counter -> Nat], values : [Value -> Nat]]
    BY <1>1, <2>1
  <2>3. Plus(histo_counts, epoch_histo_counts') = seen'.values
    <3>1. \A x \in Value : histo_counts[x] + epoch_histo_counts[x] = seen.values[x]
      BY <1>1, <1>2, <2>1 DEF Plus
    <3>2. \A x \in Value : histo_counts[x] + epoch_histo_counts'[x] = seen'.values[x]
      BY <1>1, <2>1, <2>2, <3>1
    <3>3. epoch_histo_counts' \in [Value -> Nat] /\ seen'.values \in [Value -> Nat]
      BY <1>1, <2>1, <2>2
    <3> QED BY <1>1, <3>2, <3>3 DEF Plus
  <2>4. epoch_histo_counts' \in [Value -> Nat]
    BY <1>1, <2>1
  <2> QED BY <1>1, <1>2, <2>1, <2>2, <2>3, <2>4 DEF StatsInv, TotalsExact
<1>6. ASSUME Update, ~done, seen' = seen
      PROVE  /\ counters' \in [Counter -> Nat] /\ histo_counts' \in [Value -> Nat]
             /\ counters' = seen'.counts /\ histo_counts' = seen'.values
  BY <1>1, <1>2, <1>6 DEF Update
<1>7. CASE PrintEpochStats
  <2>1. /\ epoch_counters' = NoCounts /\ epoch_histo_counts' = NoValues
        /\ Update /\ ~done /\ seen' = seen /\ done' = done
    BY <1>7 DEF PrintEpochStats, EpochAfter
  <2>2. Plus(counters', NoCounts) = counters' /\ Plus(histo_counts', NoValues) = histo_counts'
    BY <1>6, <2>1, PlusType DEF NoCounts, NoValues
  <2> QED BY <1>1, <1>3, <1>6, <2>1, <2>2 DEF StatsInv, TotalsExact
<1>8. CASE PrintFinalStats
  <2>1. Update /\ ~done /\ done' = TRUE /\ UNCHANGED <<epoch_counters, epoch_histo_counts, seen>>
    BY <1>8 DEF PrintFinalStats
  <2> QED BY <1>1, <1>6, <2>1 DEF StatsInv, TotalsExact
<1>9. CASE Reset
  BY <1>3, <1>9 DEF Reset, StatsInv, TotalsExact
<1>10. CASE UNCHANGED statsVars
  BY <1>10 DEF statsVars, StatsInv, TotalsExact
<1> QED BY <1>4, <1>5, <1>7, <1>8, <1>9, <1>10 DEF StatsNext

(* Whatever the events, epochs and resets: the epoch and the total add up  *)
(* to what was recorded since the last Reset, and the final total is it.   *)
THEOREM StatsCountOnce == StatsSpec => []TotalsExact
<1>1. StatsInit => StatsInv
  BY StatsInvInit
<1>2. StatsInv /\ [StatsNext]_statsVars => StatsInv'
  BY StatsInvNext
<1>3. StatsInv => TotalsExact
  BY DEF StatsInv
<1> QED BY <1>1, <1>2, <1>3, PTL DEF StatsSpec
=============================================================================
