# Verification of the ANNA simulator

TLA+ specifications, model-checking configurations and machine-checked proofs
for the cycle simulator in `src/multi_anna/`, eight search cores that share
eight memory stacks, and for the DRAM simulator in `src/dramsim3/` that the
stacks are made of.

## The system and its parts

A query probes some clusters of a vector database. `MultiANNA::Run` groups the
queries, makes a *slice* of every cluster that a group probes (the cluster and
the queries of the group that probe it), deals the slices round robin to the
cores, and ticks memory and cores until every core is finished.

An `ANNACore` is a pipeline of three stages through which the queries of a
slice pass in batches of `batch_size`:

| stage | code | does |
|---|---|---|
| CPM | `cluster_codebook_processing_module.hpp` | reads centroids, computes lookup tables |
| EFM | `encoded_vector_fetch_module.hpp` | reads a cluster's metadata, then its vectors |
| SCM | `similarity_computation_module.hpp` | compares vectors with queries |

CPM and EFM read through `MemoryReader`s, which send addresses to the one
`MultiMemoryInterface`. `AddressStackMaper` splits an address into a stack and
an address in it; a read of another core's stack crosses the `MemorySwitch`
there and back. Each stack is a `dramsim3::MemorySystem`.

A `MemorySystem` is a `JedecDRAMSystem`, one `Controller` per channel, or an
`HMCMemorySystem`, a crossbar in front of such controllers. A controller merges
and schedules transactions into a `CommandQueue`, which picks the first ready
command of a queue per bank or rank; `Refresh` requests refreshes by a timer.
`ChannelState` keeps a `BankState` per bank: a state machine and, for every
command, the cycle from which it may be issued, taken from the tables of
`Timing`. `Config` derives sizes and the address mapping, `SimpleStats` counts,
and `cpu.cc` has three drivers for the simulator on its own.

`PROJECT.json` lists every part, modelled or not, with its source files, the
lines behind every definition, and the hazards with the properties on them.

## Modules

| module | models | state and actions |
|---|---|---|
| `MemoryReader` | `memory_reader.hpp` | a reader as a record of counters; operators, one per method |
| `ClusterCodebookProcessing` | CPM | reader, remaining cycles, length of `wait_addr` |
| `EncodedVectorFetch` | EFM | two readers, the three queues, the three request counters |
| `SimilarityComputation` | SCM | remaining cycles, with the unsigned wrap of the round computation |
| `AnnaCore` | `ANNACore` | composes the four above; one action per part of `ClockTick`, `phase` fixes their order; `Init` is `Setup` |
| `CoreService` | abstract | what a core promises `MultiANNA`: places are started and saved in batches, `Finished` comes with the last |
| `MultiAnna` | `MultiANNA` | grouping and dealing as operators; `CoreTick` per core, `LoopEnd` per turn of `Run`'s loop; clocks of the queries, and as history the clock of every start and save |
| `AddressStackMaper` | `utils.hpp` | `map` in arithmetic form |
| `MemorySwitch` | `memory_switch.hpp` | four vectors of queues; operators, one per method |
| `MemoryInterface` | `MultiMemoryInterface` and the loop of `MemoryReader::ClockTick` | `id_map`, request and ready queues, per-stack progress, readers' address queues |
| `ReadService` | abstract | what the memory promises a reader: each read is answered to it once |
| `Timing` | `timing.cc` and the derived parameters of `configuration.cc` | the tables as functions from command to command to cycles |
| `BankState` | `bankstate.cc` | a bank as a record; operators, one per method |
| `ChannelState` | `channel_state.cc` | banks, `refresh_q_`, sleeping ranks, activation windows; operators, one per method |
| `CommandProtocol` | any user of a channel | `Issue` of what `GetReadyCommand` answers to a read, a write, the first refresh that waits, or a request to sleep or to wake up; `NeedRefresh`; `Tick`; in any order |
| `DeviceTiming` | external: the device | `CommandProtocol` with the history a device judges: transfers on the bus, activations, recovery, row cycle and refresh of every bank |
| `Refresh` | `refresh.cc` | the timer, the next rank and bank |
| `CommandQueue` | `command_queue.cc` | queues, the arbitration pointer, `rank_q_empty`, the queues held for a refresh |
| `Controller` | `controller.cc`, and `JedecDRAMSystem` for a channel | composes the six above; one action per part of `ClockTick`, `phase` fixes their order |
| `MemoryService` | abstract | what a memory promises: each transaction is answered, once |
| `HMCMemorySystem` | `hmc.cc` | queues of links and quadrants, ages, busy times, the response table; a vault is a `MemoryService` |
| `IdealDRAMSystem` | `dram_system.cc` | the buffer, with the cycles left |
| `AddressMapping` | `configuration.cc` | the sizes as operators; one step per field that `SetAddressMapping` places |
| `CPU` | `cpu.cc` | one action per driver, against a memory that refuses as it likes |
| `SimpleStats` | `simple_stats.cc` | counters, histograms and bins of the epoch and of the run |
| `*Proofs` | | theorems about the module they are named after |
| `MC*` | | instances for TLC |

The modules meet in four abstract specifications.

- `AnnaCore` assumes a memory that answers some outstanding reads in each tick;
  this is `ReadService`, and `MemoryInterface` is shown to implement it.
- `MultiAnna` is built on the starts and saves `CoreService` allows, and
  `AnnaCore` is shown to implement it.
- `MemoryInterface` and `HMCMemorySystem` use memories that answer every
  transaction once; this is `MemoryService`, and `Controller` is shown to
  implement it (`AnswersOnce`, `AnswersAll`). Their own steps for that memory
  are written out, and not an instance of `MemoryService`.
- `Controller` is shown to use its channel as `CommandProtocol` says
  (`FollowsProtocol`), so what is checked and proved of `CommandProtocol` and
  `DeviceTiming` holds of a controller.

The refinements are checked separately; there is no single model of eight
cores with their memory, which would be far too large for TLC.

What is abstracted: a queue of equal-sized reads is its length where only its
length matters; addresses appear only in `MemoryInterface`; statistics in
`TestValue` other than the two query clocks, debug output and printing are
left out. `multimap::find` returns the oldest of equal entries, as libstdc++
does. `MultiAnna` counts only ticks in which some core starts or saves a
batch, so `clock` is the code's clock up to idle ticks: order and equality of
two recorded clocks are kept. `slice_queries` and `efm_fetching_request_num`,
which `Setup` does not set, start with any value of `Garbage`.

In dramsim3, a time at which something becomes possible is kept as the cycles
left, which `Tick` counts down: the tables only ever add to the current cycle
and compare with it. The limits 4, 32 and 8 of the code (activations in a
window, low mark of the write buffer) are parameters of `config`, so that small
instances reach them. A row, a column and a bank are kept where they are
compared; the payload of a transaction does not exist in the code either.

## Runs

| run | configuration | shows |
|---|---|---|
| `core` | `MCAnnaCore.cfg` | batches stay consecutive, places are served in order, `Finished` is exact, the EFM keeps its order, two buffers suffice, `CoreService` is implemented, and a core with work finishes |
| `core_fetch` | `MCAnnaCoreFetch.cfg` | **violated**: the SCM starts before the slice's vectors are read |
| `core_charge` | `MCAnnaCoreCharge.cfg` | **violated**: the SCM is charged for the wrong cluster |
| `memory` | `MCMemoryInterface.cfg` | `id_map` entries and reads match, `processing_num` is exact, `ReadService` is implemented, every submission is answered in full |
| `device` | `MCDeviceTiming.cfg` | any use of a rank with two banks keeps to the rules of the device; the state machines meet a command they have no case for only while a rank sleeps |
| `device_ranks` | `MCDeviceRanks.cfg` | two ranks with auto-precharge, per-bank refreshes and a negative `write_to_read_o` share the data bus |
| `controller` | `MCController.cfg` | queues and pending maps agree, refreshes keep up, writes wait for earlier reads, answers come once, `CommandProtocol` is implemented |
| `controller_live` | `MCControllerLive.cfg` | one location is accessed in order, every transaction is answered, refreshes of every rank are issued again and again |
| `controller_split` | `MCControllerSplit.cfg` | **violated**: a full write buffer stops the controller for good |
| `controller_sleep` | `MCControllerSleep.cfg` | **violated**: a request for a rank that sleeps ends the process |
| `hmc` | `MCHMC.cfg` | every answer of a vault finds a response; ages say where packets wait; links, quadrants and vaults never all wait for one another |
| `periphery` | `MCPeriphery.cfg` | six parts, one at a time: each probe is served once, the clocks of a query run from its first start to its last save, and `Run` ends exactly when every core has a slice; every request has one place, the stack mapping is that of the shifts and masks, the drivers complete every element and feed a trace in order, totals are exact and bins are those of their headers, the ideal memory answers everything |

Bounds, and why they are enough:

- *Core.* Batches of two; slices of one, two and three batches, full and
  partial; no slice, one slice and up to four; a cluster without vectors and
  one cluster twice. With three stages, four slices fill and drain the
  pipeline. Reads per tick (2) are fewer than a submission may hold, so
  submissions are sent over several ticks. The memory is unconstrained. The
  word size is 32: products in these workloads stay below it, and only the
  subtraction from zero wraps.
- *MultiANNA.* Two cores, three clusters, groups of two queries: two groups, a
  cluster probed twice by one query, a query without probes, fewer slices than
  cores, no queries.
- *Memory.* Two cores and stacks, two readers each, three addresses of which
  two are in one stack, two submissions of one or two reads, one read sent per
  tick, at most two reads inside a memory system. Local and remote readers wait
  for one address at the same time.
- *Channel and device.* One rank with two banks and two rows, or two ranks with
  one bank; every delay in `config` is between 0 and 7 cycles, with the order between them
  that real devices have (tRFC > tRFCb, tRAS > tRCD). The windows hold two
  activations instead of four (three and one for the 32-activate window), so
  they fill with two banks. The row-hit limit is 1. Self refresh is enabled in
  `device`, and in `device_ranks` the read latency is long enough for
  `write_to_read_o` to be -1. The theorems hold for all values.
- *Controller.* At most two transactions of a kind and address in flight, two
  places in each queue, so that queues are full, transactions merge, and one
  waits behind another. `controller` has everything that can issue a command
  within one cycle: separate read and write queues, two commands per cycle,
  refresh and self refresh, on two banks and three addresses of which two are
  in different rows of a bank. `controller_live` has two ranks that share one
  transaction queue, with a command queue per rank; none sleeps, one has the
  two addresses and the other is idle, and their refreshes wait for each other
  in one `refresh_q_`. tREFI (5 or 14 cycles) is short enough for refreshes to
  meet everything else, and long enough that a refresh can finish:
  `RefreshesDoNotPileUp` is a statement about these numbers. tCKESR is 2 in
  `controller`, so that ranks are caught asleep too early to be woken by a
  command of the queue, and 12, the default, in `controller_sleep`.
- *HMC.* Two links with one place each, vaults in two quadrants, reads and
  writes of two addresses. `MaxAge` caps ages above every index they are
  compared with.
- *Address mappings.* The structures of an HBM, an HMC, a DDR4 and a GDDR5
  device, with all 720 orders of the six fields; 1024 addresses for the stacks.
- *Ideal memory, drivers, statistics.* A handful of transactions, cycles or
  events: enough for the loop to pass over one, for a stream to begin anew, for
  a trace to end with and without a newline, and for two epochs and a reset.

Deadlock is checked for the cores and the memories, which tick for ever. It is
not in `device`, `device_ranks`, `controller` and `controller_sleep`, where
`AbruptExit` may end the process, nor in `periphery`, where `Run` returns and
the drivers, statistics and enumerations of addresses end.

Fairness: `WF(Next)` because the simulation loop never pauses. In `core` the
memory answers each reader in the end, which `memory` shows of the interface.
In `memory` a memory system accepts and completes the reads offered to it again
and again, which `controller_live` shows of a controller with one transaction
queue (with two, `controller_split` needs a write to stop it). In `periphery` a core
of `MultiAnna` with places left gets on, which `core` shows. For `Controller` and
`HMCMemorySystem` fairness is `WF(PhaseEnds)`: a tick goes on to its end and
the next one comes, whatever is accepted in between; nothing is assumed of
scheduling or arbitration, which are the code's own. The vaults of an HMC
answer what they hold (`MemoryService`). `ClockTick` of the ideal memory is
called for ever.

A controller without self refresh never ends the process: `FollowsProtocol`
says that `exited` is set only by a step of `CommandProtocol`, and
`NeverExitsWithoutSelfRefresh` proves that no such step sets it. With self
refresh it may, but only while a rank sleeps (`ExitsOnlyAsleep`); the other
properties of `controller` speak of the time before.

## What disagrees with its documentation

Shown by a run:

- `core_fetch`. The request number the EFM returns is one lower than the count
  of fetched requests at its completion, so the SCM starts slice *k* once the
  slices before *k* are fetched; the report has the SCM compute on prefetched
  vectors. Simulated time leaves out the wait for a core's last cluster.
- `core_charge`. `ANNACore::ClockTick` looks up `cluster_addr` by the position
  of the slice in the core's list instead of by its cluster.
- `controller_split`. A full write buffer whose head waits for a read in the
  read queue is looked at again in every cycle, and the read queue never. The
  configuration that `MultiANNA` loads has these separate queues; it is safe
  because `MultiANNA` does not write.
- `controller_sleep`. The branch that is to leave self refresh
  (`controller.cc:116`, "wake up!") asks a bank for SREF_EXIT, for which the
  state SREF of `BankState::GetReadyCommand` has no case but `AbruptExit`. A
  command of the queue would wake the rank by itself, but only when tCKESR has
  passed since it went to sleep. No configuration in `src/configs/` enables
  self refresh.

`PROJECT.json` quotes the line of the code or its documents that each of these
departs from.

Read in the code while modelling it, kept in the models as it is, and the
reason why some properties are stated, and checked, only for the
configurations named above:

- *Timing tables.* With auto-precharge nothing enforces tRC before a refresh;
  the waits after a per-bank refresh are entered in a table that is not
  consulted for it (`timing.cc:225`, `channel_state.cc:149`), so that the bank
  may be activated at once; and these refreshes hold one another back by tREFI
  although one is requested every tREFIb. So `RefreshAfterRowCycle` is about
  open pages, `ActivateAfterRefresh` about the refresh of a rank, and
  `RefreshesDoNotPileUp` about rank-level refresh.
- *Negative differences.* `read_to_write_o` and `write_to_read_o` may be
  negative and are added to an unsigned clock. `DifferencesAssumption` in
  `Timing` states when the sum does not wrap around: no transfer is issued
  before an ACTIVATE and the wait after it, which are longer.
- *Controller.* A rank that ever had a command never sleeps again, because
  `rank_q_empty` is not set back; a refresh that waits when its rank goes to
  sleep ends the process as a request to wake up does. The second command of a
  cycle is lost if it may not be issued, which needs two ranks. Transactions are
  merged by byte address and ordered by location, so the addresses here are
  those of whole requests.
- *Refresh.* The loop of the simultaneous policy ends with the first rank that
  is awake, so that with several ranks the others are never refreshed;
  `EveryRankRefreshed` is checked for the staggered policy.
- *HMC.* Responses are found by address only, and ages are compared with
  indices, so that a link may starve; `CubeProgresses` says that some packet
  moves on.
- *Others.* The ideal memory passes over the transaction behind one it
  answers, which then waits longer than the latency. The trace driver does not
  test what it reads: with a newline at the end of the file it feeds the last
  address once more, as a read, and without one it loses the last entry unless
  that is taken in the cycle it is read; `TraceInOrder` states both, and that
  there is no other departure. `Reset` leaves the bins of the histograms.
- *Run.* A core without slices is never finished, so `Run` does not return when
  there are fewer slices than cores; `RunEndsIfAllBusy` states this.

## What is proved

`AnnaCoreProofs`, for every workload, batch size, cluster table, cycle count
and timing of the memory, from `CoreAssumption` and the assumptions of the
component modules: `TypeOK`, `BatchesConsecutive`, `ServedInOrder`,
`FinishedWhenAllSaved`, `FetchInOrder` and `DoubleBuffered` are invariants.

The argument has three layers, each inductive together with those before it:

1. *Types and readers.* `TypeOK` needs that the subtraction in
   `MemoryReader::ClockTick` does not go below zero: `ReadersCounted`, by which
   answers and unsent requests never exceed the reads not yet answered.
2. *Pipeline.* `BatchesConsecutive` and `ServedInOrder` need
   `StagesHoldBatches`: what is in an occupied stage is a nonempty range of an
   existing slice, and `pre_efm_index` follows from where the CPM is.
3. *EFM.* `FetchInOrder` and `DoubleBuffered` need `EfmInStep`: one request
   per slice, the exact contents of the three queues, and the vectors of one
   slice asked for together with the metadata of the next.

`IsWork` assumes that a core has no more slices than there are clusters; the
code's sizes guarantee it, and without it the lookup of `cluster_addr` by
slice number would leave the table.

`AddressStackMaperProofs` proves the mapping injective for every interleaving
size and number of stacks.

`CommandProtocolProofs` proves, for every number of ranks, bank groups and
banks, every timing, page policy and refresh policy, that a channel used as
`CommandProtocol` says exits only while a rank sleeps (`ExitsOnlyAsleep`), and
that it never exits when self refresh is off. The inductive invariant
`ChannelInv` is `TypeOK` and `ExitsOnlyAsleep`, whose conjunct on the banks
carries the proof: a bank is in the state SREF exactly when its rank sleeps, so
what `GetReadyCommand` hands out for a rank that is awake is a command that
every bank it reaches has a case for (`RequestReady`).

`DeviceTimingProofs` proves four rules of the device from `ChannelInv` and

1. `WindowInv`: `four_aw_` holds the last entries of the history of
   activations, and those it has dropped are over, although only one is dropped
   at a time. `ActivationsPerWindow` follows.
2. `DataHeld`, `RowHeld`, `RefreshHeld`: the time for which a bank is occupied
   by a transfer, an open row or a refresh is covered by the times it keeps, in
   a closed bank directly and in an open one through the precharge that must
   come first. `DataRestored` follows for every configuration;
   so does `ActivateAfterRefresh`, which is about the refresh of a rank;
   `RefreshAfterRowCycle` follows for open pages. Neither restriction can be
   dropped: see above what the tables leave out.

`AddressMappingProofs` proves `FieldsPartitionBits` for every structure and
order of the fields, `SimpleStatsProofs` proves `TotalsExact` for all counters
and values, and `CPUProofs` proves `NothingDropped` of the random driver and
`TraceInOrder`, the end of the file included, for every set of addresses and
traces, from an invariant that says which transaction is in hand. The bounds on events and cycles are parameters there.

Only model-checked: the refinements (`ImplementsCoreService`,
`ImplementsReadService`, `AnswersOnce`, `FollowsProtocol`), `DataBusExclusive`,
`OnePlacePerRequest`, `MapIsBitwise`, `ElementsComplete`, `BinsOfHeaders`,
the properties of `MultiAnna`, `MemoryInterface`, `Controller`,
`HMCMemorySystem` and `IdealDRAMSystem`, and all liveness properties, which the
prover cannot treat.

## Plan

1. Proofs: `OneOnItsWay` of the controller, `ProcessingNumExact` and
   `EntriesMatchReads` of the interface, `LookupFinds` of the HMC, the step
   simulation behind `ImplementsCoreService`, and `LatencySpansProbes`.
2. `MemoryInterface` and `HMCMemorySystem` on instances of `MemoryService`.

## Not modelled

- The thermal model: floating-point numerics, compiled only on request.
- Energies and averages, which are floating-point functions of the counters
  that `SimpleStats` has, and everything that prints or plots.
- Reading `.ini` files, vectors and traces, and the command lines.
- `MemorySystem`, a facade that forwards its calls; it never builds the ideal
  memory. Several channels of a system, which share only the clock.
- The sizes of the atomic HMC packets, which no caller can create.
- `AddressMapper`, `QueueUsage` and `IsRWPendingOnRef`, which nothing uses.
- The libraries in `src/dramsim3/ext/` (JSON, formatting, command line, unit
  tests, `.ini` files, a thread pool), more than four fifths of the C++ lines of
  the repository, hold none of the simulators' logic.

`PROJECT.json` gives the reason for each part.
