------------------------------- MODULE Timing -------------------------------
(***************************************************************************)
(* The timing tables of dramsim3 (timing.cc): after a command c, a command *)
(* d must wait table[c][d] cycles, where the table depends on how the      *)
(* banks of the two commands are related. An entry the code leaves out is  *)
(* 0 here: it delays nothing, and neither does a negative one (see         *)
(* DifferencesAssumption).                                                 *)
(***************************************************************************)
EXTENDS Integers

CONSTANT config     \* the parameters of the .ini file, a record (configuration.cc)

CommandType == {"READ", "READ_PRECHARGE", "WRITE", "WRITE_PRECHARGE", "ACTIVATE",
                "PRECHARGE", "REFRESH_BANK", "REFRESH", "SREF_ENTER", "SREF_EXIT"}

ReadType == {"READ", "READ_PRECHARGE"}
WriteType == {"WRITE", "WRITE_PRECHARGE"}
ReadWriteType == ReadType \cup WriteType
RefreshType == {"REFRESH", "REFRESH_BANK"}
RankType == {"REFRESH", "SREF_ENTER", "SREF_EXIT"}
IdleType == RefreshType \cup {"SREF_ENTER"}       \* what a bank does only when closed

ASSUME TimingAssumption ==
  \A f \in {"burst_cycle", "AL", "CL", "CWL", "tCCD_L", "tCCD_S", "tRTRS", "tRTP", "tWTR_L",
            "tWTR_S", "tWR", "tRP", "tRRD_L", "tRRD_S", "tRAS", "tRCD", "tRCDRD", "tRCDWR", "tRFC",
            "tRFCb", "tREFI", "tCKESR", "tXS", "tPPD", "tFAW", "t32AW", "bankgroups"} :
    config[f] \in Nat

IsGDDR == config.protocol \in {"GDDR5", "GDDR5X", "GDDR6"}
IsHBM == config.protocol \in {"HBM", "HBM2"}

RL == config.AL + config.CL
WL == config.AL + config.CWL
read_delay == RL + config.burst_cycle
write_delay == WL + config.burst_cycle
tRC == config.tRAS + config.tRP

Larger(m, n) == IF m >= n THEN m ELSE n

(* With one bank group the short delays replace the long ones.             *)
Long(l, s) == IF config.bankgroups = 1 THEN s ELSE l

(* Mutants: delays that forget the latency of the data, the time of the    *)
(* write, or the restore of a row.                                         *)
turn_around_only == config.burst_cycle + config.tRTRS
write_recovery_only == config.burst_cycle + config.tWR
row_to_column_only == config.tRCD

rw_to_rw_l == Larger(config.burst_cycle, Long(config.tCCD_L, config.tCCD_S))
rw_to_rw_s == Larger(config.burst_cycle, config.tCCD_S)
read_to_read_o == config.burst_cycle + config.tRTRS
read_to_write == RL + config.burst_cycle - WL + config.tRTRS
read_to_write_o == read_delay + config.burst_cycle + config.tRTRS - write_delay
read_to_precharge == config.AL + config.tRTP
readp_to_act == config.AL + config.burst_cycle + config.tRTP + config.tRP
write_to_read_l == write_delay + Long(config.tWTR_L, config.tWTR_S)
write_to_read_s == write_delay + config.tWTR_S
write_to_read_o == write_delay + config.burst_cycle + config.tRTRS - read_delay
write_to_write_o == config.burst_cycle
write_to_precharge == WL + config.burst_cycle + config.tWR
read_to_activate == read_to_precharge + config.tRP
write_to_activate == write_to_precharge + config.tRP
activate_to_activate_l == Long(config.tRRD_L, config.tRRD_S)
precharge_to_precharge ==
  IF IsGDDR \/ config.protocol = "LPDDR4" THEN config.tPPD ELSE 0
activate_to_precharge == config.tRAS
activate_to_read == IF IsGDDR \/ IsHBM THEN config.tRCDRD ELSE config.tRCD - config.AL
activate_to_write == IF IsGDDR \/ IsHBM THEN config.tRCDWR ELSE config.tRCD - config.AL

(* A difference of latencies may be negative. channel_state.cc:241 adds it *)
(* to the clock, which is unsigned: the sum is in the past, and delays     *)
(* nothing, unless the clock is smaller than the difference, when it wraps *)
(* around and delays for good. A read or write comes no earlier than the   *)
(* ACTIVATE that the first of them needs allows, and a difference that is  *)
(* no larger than that delay never wraps.                                  *)
ASSUME DifferencesAssumption ==
  /\ activate_to_read >= 0 /\ activate_to_write >= 0
  /\ read_to_write + activate_to_read >= 0
  /\ read_to_write_o + activate_to_read >= 0
  /\ write_to_read_o + activate_to_write >= 0

(* Rows of a table: the waiting time of every type of command.             *)
NoWait == [d \in CommandType |-> 0]
Wait(S, t) == [d \in CommandType |-> IF d \in S THEN t ELSE 0]
RWWait(r, w) == [d \in CommandType |-> IF d \in ReadType THEN r
                                       ELSE IF d \in WriteType THEN w ELSE 0]

same_bank == [c \in CommandType |->
  CASE c = "READ" -> [RWWait(rw_to_rw_l, read_to_write) EXCEPT !["PRECHARGE"] = read_to_precharge]
    [] c = "WRITE" -> [RWWait(write_to_read_l, rw_to_rw_l) EXCEPT !["PRECHARGE"] = write_to_precharge]
    [] c = "READ_PRECHARGE" -> [Wait(IdleType, read_to_activate) EXCEPT !["ACTIVATE"] = readp_to_act]
    [] c = "WRITE_PRECHARGE" -> Wait(IdleType \cup {"ACTIVATE"}, write_to_activate)
    [] c = "ACTIVATE" -> [RWWait(activate_to_read, activate_to_write) EXCEPT !["ACTIVATE"] = tRC,
                                                                          !["PRECHARGE"] = activate_to_precharge]
    [] c = "PRECHARGE" -> Wait(IdleType \cup {"ACTIVATE"}, config.tRP)
    [] OTHER -> NoWait]

(* Other banks of the rank, given the delays within or across bank groups. *)
OtherBanks(rw_to_rw, write_to_read, activate_to_activate) == [c \in CommandType |->
  CASE c \in ReadType -> RWWait(rw_to_rw, read_to_write)
    [] c \in WriteType -> RWWait(write_to_read, rw_to_rw)
    [] c = "ACTIVATE" -> [Wait({"ACTIVATE"}, activate_to_activate) EXCEPT !["REFRESH_BANK"] = tRC]
    [] c = "PRECHARGE" -> Wait({"PRECHARGE"}, precharge_to_precharge)
    [] c = "REFRESH_BANK" -> [Wait({"ACTIVATE"}, config.tRFC) EXCEPT !["REFRESH_BANK"] = config.tREFI]
    [] OTHER -> NoWait]

other_banks_same_bankgroup == OtherBanks(rw_to_rw_l, write_to_read_l, activate_to_activate_l)
other_bankgroups_same_rank == OtherBanks(rw_to_rw_s, write_to_read_s, config.tRRD_S)

other_ranks == [c \in CommandType |->
  CASE c \in ReadType -> RWWait(read_to_read_o, read_to_write_o)
    [] c \in WriteType -> RWWait(write_to_read_o, write_to_write_o)
    [] OTHER -> NoWait]

same_rank == [c \in CommandType |->
  CASE c = "REFRESH_BANK" -> Wait(IdleType \cup {"ACTIVATE"}, config.tRFCb)
    [] c = "REFRESH" -> Wait({"ACTIVATE", "REFRESH", "SREF_ENTER"}, config.tRFC)
    [] c = "SREF_ENTER" -> Wait({"SREF_EXIT"}, config.tCKESR)
    [] c = "SREF_EXIT" -> Wait(IdleType \cup {"ACTIVATE"}, config.tXS)
    [] OTHER -> NoWait]
=============================================================================
