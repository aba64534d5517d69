----------------------------- MODULE MultiAnna -----------------------------
(***************************************************************************)
(* MultiANNA (multi_anna/multi_anna.hpp): Run groups the queries, makes a  *)
(* slice of every cluster a group probes, deals the slices to the cores    *)
(* and ticks all cores until every one is finished.  A core is known by    *)
(* CoreService; the clocks of the queries (TestValue, config.hpp) are what *)
(* the cores share.                                                        *)
(***************************************************************************)
EXTENDS Integers, Sequences, SequencesExt, FiniteSets, FiniteSetsExt

CONSTANTS ClusterNum,    \* CLUSTER_NUM
          CoreNum,       \* core_num
          BatchSize,     \* batch_size
          Inputs         \* what queries may be: sequences of sequences of clusters

ASSUME MultiAssumption == /\ ClusterNum \in Nat \ {0}
                          /\ CoreNum \in Nat \ {0}
                          /\ BatchSize \in Nat \ {0}
                          /\ Inputs \subseteq Seq(Seq(0 .. ClusterNum - 1))

VARIABLES queries,
          places,                \* per core: the places of the slices dealt to it
          turn,                  \* the core whose ClockTick comes next
          moved,                 \* a core started or saved something in this tick
          clock,                 \* ticks in which something was started or saved
          started, saved,        \* per core: places started and saved
          finished,              \* per core: Finished
          queries_start_clock, queries_end_clock,
          run_done,              \* the loop of Run is left
          start_clocks, save_clocks    \* history, per core: when each place was started and saved

historyVars == << start_clocks, save_clocks >>
multiVars == << queries, places, turn, moved, clock, started, saved, finished, queries_start_clock,
                queries_end_clock, run_done, historyVars >>

Core == 0 .. CoreNum - 1
Query == DOMAIN queries
NEVER == -1
-----------------------------------------------------------------------------
(* Mutant: the groups overlap in one query.                                *)
GroupOverlapping(l) == SelectSeq([i \in Query |-> i], LAMBDA i : i >= l /\ i <= l + BatchSize)

(* The queries l, l + 1, ... of one group.                                 *)
Group(l) == SelectSeq([i \in Query |-> i], LAMBDA i : i >= l /\ i < l + BatchSize)

(* now[c]: the queries of the group that probe c, once for every probe.    *)
Probing(l, c) ==
  LET Probes(i) == SelectSeq(queries[i], LAMBDA d : d = c)
      group     == Group(l)
  IN  FlattenSeq([k \in DOMAIN group |-> [j \in DOMAIN Probes(group[k]) |-> group[k]]])

(* The slices of a group, those of the clusters that are probed, and all   *)
(* slices (cluster_list with query_set_list), in order.                    *)
GroupSlices(l) ==
  LET all == [c \in 1 .. ClusterNum |-> [cluster |-> c - 1, query_set |-> Probing(l, c - 1)]]
  IN  SelectSeq(all, LAMBDA s : s.query_set # << >>)

SliceList ==
  FlattenSeq([g \in Query |-> IF (g - 1) % BatchSize = 0 THEN GroupSlices(g) ELSE << >>])

(* core_cluster_list[k] with core_query_set_list[k]: every core_num-th     *)
(* slice; and its places one by one, in the order the core serves them.    *)
CoreSlices(k) ==
  LET list == SliceList
      mine == SelectSeq([i \in DOMAIN list |-> i], LAMBDA i : (i - 1) % CoreNum = k)
  IN  [j \in DOMAIN mine |-> list[mine[j]]]

Places(k) ==
  LET slices == CoreSlices(k)
      Of(s)  == [j \in DOMAIN s.query_set |-> << s.cluster, s.query_set[j] >>]
  IN  FlattenSeq([j \in DOMAIN slices |-> Of(slices[j])])
-----------------------------------------------------------------------------
MultiInit ==
  /\ queries \in Inputs
  /\ places = [k \in Core |-> Places(k)]
  /\ turn = 0
  /\ moved = FALSE
  /\ clock = 0
  /\ started = [k \in Core |-> 0]
  /\ saved = [k \in Core |-> 0]
  /\ finished = [k \in Core |-> FALSE]
  /\ queries_start_clock = [i \in Query |-> NEVER]
  /\ queries_end_clock = [i \in Query |-> NEVER]
  /\ run_done = FALSE
  /\ start_clocks = [k \in Core |-> << >>]
  /\ save_clocks = [k \in Core |-> << >>]

Service == INSTANCE CoreService WITH total <- 0, started <- 0, saved <- 0, finished <- FALSE

(* The queries at the places m + 1 .. n of core k.                         *)
QueriesAt(k, m, n) == {places[k][j][2] : j \in m + 1 .. n}

(* Mutant: the end clock is set by the first slice only.                   *)
EndClockFirst(qs) ==
  [i \in Query |-> IF i \in qs /\ queries_end_clock[i] = NEVER THEN clock ELSE queries_end_clock[i]]

(* The start clock is set by the first slice to start a query, the end     *)
(* clock by every slice that saves it.                                     *)
StartClock(qs) ==
  [i \in Query |-> IF i \in qs /\ queries_start_clock[i] = NEVER
                   THEN clock ELSE queries_start_clock[i]]
EndClock(qs) == [i \in Query |-> IF i \in qs THEN clock ELSE queries_end_clock[i]]

(* The history of a core when its first n places are done.                 *)
ClocksUpTo(clocks, n) == clocks \o [j \in 1 .. n - Len(clocks) |-> clock]

(* ClockTick of core k: it may save a batch, and it may start one.         *)
CoreTick(k) ==
  /\ ~ run_done
  /\ turn = k
  /\ \E n \in {saved[k]} \cup Service!Saves(started[k], saved[k]) :
       /\ saved' = [saved EXCEPT ![k] = n]
       /\ queries_end_clock' = EndClock(QueriesAt(k, saved[k], n))
       /\ finished' = [finished EXCEPT ![k] = @ \/ (n > saved[k] /\ n = Len(places[k]))]
  /\ \E n \in {started[k]} \cup Service!Starts(Len(places[k]), started[k], saved'[k]) :
       /\ started' = [started EXCEPT ![k] = n]
       /\ queries_start_clock' = StartClock(QueriesAt(k, started[k], n))
  /\ start_clocks' = [start_clocks EXCEPT ![k] = ClocksUpTo(@, started'[k])]
  /\ save_clocks' = [save_clocks EXCEPT ![k] = ClocksUpTo(@, saved'[k])]
  /\ moved' = (moved \/ << started', saved' >> # << started, saved >>)
  /\ turn' = turn + 1
  /\ UNCHANGED << queries, places, clock, run_done >>

(* Mutant: one finished core is enough to leave the loop.                  *)
AnyFinished == \E k \in Core : finished[k]

AllFinished == \A k \in Core : finished[k]

(* The end of a turn of Run's loop.                                        *)
LoopEnd ==
  /\ ~ run_done
  /\ turn = CoreNum
  /\ run_done' = AllFinished
  /\ turn' = 0
  /\ moved' = FALSE
  /\ clock' = IF moved THEN clock + 1 ELSE clock
  /\ UNCHANGED << queries, places, started, saved, finished, queries_start_clock, queries_end_clock,
                  historyVars >>

MultiNext == LoopEnd \/ \E k \in Core : CoreTick(k)

MultiSpec == MultiInit /\ [][MultiNext]_multiVars
-----------------------------------------------------------------------------
(* The clocks recorded for the places of query i, and its places that are  *)
(* not saved.                                                              *)
ClocksOf(i, clocks) ==
  UNION {{clocks[k][j] : j \in {n \in DOMAIN clocks[k] : places[k][n][2] = i}} : k \in Core}
Unsaved(i) == UNION {{k} \X {j \in DOMAIN places[k] : j > saved[k] /\ places[k][j][2] = i} : k \in Core}

(* When Run leaves its loop, every probe of every query has been saved by  *)
(* exactly one core: the grouping by cluster and the dealing of the slices *)
(* lose none and repeat none.                                              *)
EveryProbeServedOnce ==
  run_done => \A i \in Query, c \in 0 .. ClusterNum - 1 :
                Cardinality({j \in DOMAIN queries[i] : queries[i][j] = c})
                  = Cardinality(UNION {{k} \X {j \in 1 .. saved[k] : places[k][j] = << c, i >>}
                                         : k \in Core})

(* The latency test.cpp reports of a query, its end clock minus its start  *)
(* clock, is the time from the first start to the last save of its probes  *)
(* on all cores: at any time the two clocks are the least clock at which   *)
(* one was started and the greatest at which one was saved, and Run leaves *)
(* its loop only when all of them are.                                     *)
LatencySpansProbes ==
  \A i \in Query :
    LET starts == ClocksOf(i, start_clocks)
        saves  == ClocksOf(i, save_clocks)
    IN  /\ queries_start_clock[i] = IF starts = {} THEN NEVER ELSE Min(starts)
        /\ queries_end_clock[i] = IF saves = {} THEN NEVER ELSE Max(saves)
        /\ saves # {} => Min(starts) < Max(saves)
        /\ run_done => Unsaved(i) = {}

(* Run ends exactly when every core was dealt a slice: Finished of a core  *)
(* is only set by a save, so Run loops for good when there are fewer       *)
(* slices than cores.                                                      *)
AllBusy == \A k \in Core : places[k] # << >>
RunEndsIfAllBusy == <>(AllBusy => run_done) /\ [](run_done => AllBusy)
=============================================================================
