----------------------------- MODULE MCController -----------------------------
(* Instances of Controller with the timing of a small device.              *)
EXTENDS Controller

Device ==
  [protocol |-> "DDR4", ranks |-> 1, bankgroups |-> 1, banks_per_group |-> 2,
   burst_cycle |-> 1, AL |-> 0, CL |-> 1, CWL |-> 1, tCCD_L |-> 1, tCCD_S |-> 1, tRTRS |-> 0,
   tRTP |-> 2, tWTR_L |-> 1, tWTR_S |-> 1, tWR |-> 1, tRP |-> 1, tRRD_L |-> 1, tRRD_S |-> 1,
   tRAS |-> 2, tRCD |-> 1, tRCDRD |-> 1, tRCDWR |-> 1, tRFC |-> 1, tRFCb |-> 1, tREFI |-> 7,
   tREFIb |-> 4, tCKESR |-> 2, tXS |-> 1, tPPD |-> 1, tFAW |-> 2, t32AW |-> 3, activates |-> 4,
   activates32 |-> 32, row_hit_limit |-> 2, close_page |-> FALSE,
   refresh_policy |-> "RANK_LEVEL_STAGGERED", unified_queue |-> TRUE, per_rank |-> FALSE,
   trans_queue_size |-> 2, cmd_queue_size |-> 2, drain_threshold |-> 1,
   enable_hbm_dual_cmd |-> FALSE, enable_self_refresh |-> FALSE, sref_threshold |-> 2]

At(rank, bank, row, column) == [bank |-> <<rank, 0, bank>>, row |-> row, column |-> column]
MCLocation == <<At(0, 0, 0, 0), At(0, 0, 1, 0), At(0, 1, 0, 0)>>
MCConflict == <<At(0, 0, 0, 0), At(0, 0, 1, 0)>>

(* Everything that can issue a command at once: HBM with two commands per  *)
(* cycle, read and write buffers, refresh, and self refresh.               *)
MCFull == [Device EXCEPT !.protocol = "HBM", !.enable_hbm_dual_cmd = TRUE, !.unified_queue = FALSE,
                         !.refresh_policy = "RANK_LEVEL_SIMULTANEOUS", !.tREFI = 5,
                         !.enable_self_refresh = TRUE]

(* One buffer for reads and writes, and two ranks that are refreshed in    *)
(* turn, none of which ever sleeps. The addresses of MCConflict are in two *)
(* rows of one bank.                                                       *)
MCRanks == [Device EXCEPT !.ranks = 2, !.banks_per_group = 1, !.tWTR_L = 3, !.tWTR_S = 3,
                          !.tREFI = 14, !.per_rank = TRUE]

(* Self refresh, with the default of tCKESR (configuration.cc:319).        *)
MCSleep == [Device EXCEPT !.banks_per_group = 1, !.enable_self_refresh = TRUE, !.tCKESR = 12]

MCSplit == [Device EXCEPT !.banks_per_group = 1, !.unified_queue = FALSE]
=============================================================================
