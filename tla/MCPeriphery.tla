----------------------------- MODULE MCPeriphery -----------------------------
(* Six components that share no state, one at a time: part says which one  *)
(* runs.                                                                   *)
(*  multi: queries that probe clusters of two cores and of two groups, one *)
(*    cluster twice, no cluster at all, and too few clusters for all cores.*)
(*  mapping: the structures of an HBM and an HMC configuration with fewer  *)
(*    channels, of a DDR4 channel with two ranks, and of GDDR5 with its    *)
(*    bank groups disabled, under every order of the fields.               *)
(*  maper: every address up to MaxAddress.                                 *)
(*  cpu: two traces, with and without a newline after the last entry.      *)
(*  stats: values below, in and above the range of the histogram.          *)
(*  ideal: two transactions and a buffer of four.                          *)
EXTENDS MultiAnna, AddressMapping, AddressStackMaper, CPU, SimpleStats, Bitwise

CONSTANTS a1, a2,              \* addresses
          LowBits, StackBits,  \* l_pos and r_pos - l_pos
          MaxAddress

ASSUME WidthsAssumption == LowSize = 2^LowBits /\ StackNum = 2^StackBits

VARIABLES part,
          address,                       \* an address a reader requests (maper)
          infinite_buffer_q, answered    \* ideal

Ideal == INSTANCE IdealDRAMSystem WITH Transaction <- {a1, a2}, latency <- 2, MaxBuffer <- 4

MCInputs == { << << 0, 1 >>, << 1 >>, << 0 >> >>,
              << << 0, 2, 0 >>, << >>, << 0 >> >>,
              << << 1, 2 >> >>,
              << << 1 >>, << 1 >> >>,
              << >> }

HBM == [protocol |-> "HBM", bankgroup_enable |-> TRUE, bankgroups |-> 4, banks_per_group |-> 4,
        rows |-> 16384, columns |-> 64, device_width |-> 128, bus_width |-> 128, BL |-> 4,
        block_size |-> 64, channels |-> 2, channel_size |-> 512]
HMC == [HBM EXCEPT !.protocol = "HMC", !.bankgroups = 1, !.banks_per_group = 8, !.rows = 65536,
                   !.device_width = 32, !.bus_width = 32, !.channels = 4, !.channel_size = 128]
DDR4 == [HBM EXCEPT !.protocol = "DDR4", !.bankgroups = 2, !.banks_per_group = 2, !.rows = 4096,
                    !.columns = 1024, !.device_width = 8, !.bus_width = 64, !.BL = 8, !.channels = 1,
                    !.channel_size = 256]
GDDR5 == [HBM EXCEPT !.protocol = "GDDR5", !.bankgroup_enable = FALSE, !.rows = 4096,
                     !.device_width = 32, !.bus_width = 32, !.BL = 0, !.channel_size = 100]
MCStructure == {HBM, HMC, DDR4, GDDR5}

Entry(a, w, c) == [addr |-> a, is_write |-> w, added_cycle |-> c]
MCEntries == {<<Entry(a1, FALSE, 0), Entry(a2, TRUE, 0), Entry(a1, TRUE, 2)>>, <<Entry(a2, TRUE, 1)>>}
MCTraces == [entries : MCEntries, newline : BOOLEAN]

(* The parts that do not run stay in one of their initial states.          *)
Still(p) ==
  /\ p # "multi" => queries = << >>
  /\ p # "mapping" => structure = HBM /\ fields = <<"ch", "ra", "bg", "ba", "ro", "co">>
  /\ p # "cpu" => kind = "Random" /\ trace = [entries |-> <<Entry(a2, TRUE, 1)>>, newline |-> TRUE]

idealVars == <<infinite_buffer_q, answered>>
MCVars == <<part, address, multiVars, mappingVars, cpuVars, statsVars, idealVars>>

MCInit == /\ part \in {"multi", "mapping", "maper", "cpu", "stats", "ideal"}
          /\ MultiInit /\ MappingInit /\ CPUInit /\ StatsInit /\ Ideal!Init
          /\ address = 0
          /\ Still(part)

MCNext ==
  \/ part = "multi" /\ MultiNext /\ UNCHANGED <<part, address, mappingVars, cpuVars, statsVars, idealVars>>
  \/ part = "mapping" /\ MappingNext /\ UNCHANGED <<part, address, multiVars, cpuVars, statsVars, idealVars>>
  \/ /\ part = "maper" /\ address < MaxAddress /\ address' = address + 1
     /\ UNCHANGED <<part, multiVars, mappingVars, cpuVars, statsVars, idealVars>>
  \/ part = "cpu" /\ CPUNext /\ UNCHANGED <<part, address, multiVars, mappingVars, statsVars, idealVars>>
  \/ part = "stats" /\ StatsNext /\ UNCHANGED <<part, address, multiVars, mappingVars, cpuVars, idealVars>>
  \/ part = "ideal" /\ Ideal!Next /\ UNCHANGED <<part, address, multiVars, mappingVars, cpuVars, statsVars>>

(* Run keeps looping, and a core that has places left gets on (what        *)
(* AnnaCore!Terminates shows of it). ClockTick of the ideal memory is      *)
(* called again and again while the simulation goes on.                    *)
Saving(k) == part = "multi" /\ CoreTick(k) /\ saved'[k] > saved[k]
Starting(k) == part = "multi" /\ CoreTick(k) /\ started'[k] > started[k]
MCSpec == /\ MCInit /\ [][MCNext]_MCVars
          /\ WF_multiVars(part = "multi" /\ MultiNext)
          /\ \A k \in Core : SF_multiVars(Saving(k)) /\ SF_multiVars(Starting(k))
          /\ WF_idealVars(part = "ideal" /\ Ideal!ClockTick)

-----------------------------------------------------------------------------
l_mask == 2^LowBits - 1
st_mask == 2^StackBits - 1

(* ~l_mask clears the low bits.                                            *)
ClearLow(y) == y - (y & l_mask)

(* AddressStackMaper::map computes, with its shifts and masks, the stack   *)
(* bits of an address and the address without them.                        *)
MapIsBitwise ==
  /\ StackOf(address) = shiftR(address, LowBits) & st_mask
  /\ AddrOf(address) = (address & l_mask) | ClearLow(shiftR(address, StackBits))

(* IdealDRAMSystem answers every transaction in the end, although its      *)
(* ClockTick passes over half of those that are due.                       *)
EveryTransactionAnswered == Ideal!EveryTransactionAnswered
=============================================================================
