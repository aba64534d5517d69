-------------------------- MODULE MCDeviceTiming --------------------------
(* Instances of DeviceTiming with the timing of a small device.         *)
EXTENDS DeviceTiming

Device ==
  [protocol |-> "DDR4", ranks |-> 1, bankgroups |-> 1, banks_per_group |-> 2,
   burst_cycle |-> 1, AL |-> 0, CL |-> 2, CWL |-> 1, tCCD_L |-> 1, tCCD_S |-> 1, tRTRS |-> 0,
   tRTP |-> 1, tWTR_L |-> 1, tWTR_S |-> 1, tWR |-> 1, tRP |-> 1, tRRD_L |-> 1, tRRD_S |-> 1,
   tRAS |-> 3, tRCD |-> 1, tRCDRD |-> 1, tRCDWR |-> 1, tRFC |-> 3, tRFCb |-> 2, tREFI |-> 4,
   tCKESR |-> 2, tXS |-> 2, tPPD |-> 1, tFAW |-> 5, t32AW |-> 7, activates |-> 2,
   activates32 |-> 3, row_hit_limit |-> 1, close_page |-> FALSE, refresh_policy |-> "RANK_LEVEL_STAGGERED",
   enable_self_refresh |-> TRUE]

MCDevice == Device
MCRanks == [Device EXCEPT !.protocol = "GDDR5", !.ranks = 2, !.banks_per_group = 1,
                          !.burst_cycle = 2, !.CL = 5, !.tRTP = 3, !.tRTRS = 1, !.close_page = TRUE,
                          !.tCCD_S = 2, !.tFAW = 1, !.t32AW = 5, !.activates32 = 1,
                          !.tRFC = 2, !.tCKESR = 1, !.tXS = 1,
                          !.refresh_policy = "BANK_LEVEL_STAGGERED"]
MCRow == {0}
MCTwoRows == {0, 1}
=============================================================================
