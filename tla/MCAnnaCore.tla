----------------------------- MODULE MCAnnaCore -----------------------------
(* Small instances of AnnaCore: slices of one to three batches, a cluster  *)
(* without bytes and vectors, and the same cluster twice.                  *)
EXTENDS AnnaCore

MCCluster == 0 .. 3
MCMetadataLen == [k \in MCCluster |-> 64]
MCVectorLen == [k \in MCCluster |-> 64 * k + (k % 2)]
MCVectorNum == [k \in MCCluster |-> k]

Workload(clusters, sizes) ==
  [num |-> Len(clusters),
   cluster |-> [i \in 0 .. Len(clusters) - 1 |-> clusters[i + 1]],
   size |-> [i \in 0 .. Len(clusters) - 1 |-> sizes[i + 1]]]

MCWork == { Workload(<< >>, << >>),
            Workload(<< 3 >>, << 1 >>),
            Workload(<< 1, 0 >>, << 5, 2 >>),
            Workload(<< 1, 3, 1 >>, << 1, 3, 2 >>),
            Workload(<< 2, 0, 1, 1 >>, << 2, 1, 1, 4 >>) }
=============================================================================
