--------------------------- MODULE CommandProtocol ---------------------------
(***************************************************************************)
(* How a channel (ChannelState) is used: in any cycle, in any order,       *)
(* commands are requested, and what GetReadyCommand answers is issued with *)
(* UpdateTimingAndStates. Whatever schedules a channel, CommandQueue and   *)
(* Controller among others, is to be an implementation of this module.     *)
(***************************************************************************)
EXTENDS ChannelState

CONSTANTS Row,            \* the rows of a bank
          MaxRefreshes    \* bound on the refreshes that wait at a time

ASSUME ProtocolAssumption == /\ Row \subseteq Nat
                             /\ MaxRefreshes \in Nat
                             /\ {config.ranks, config.bankgroups, config.banks_per_group} \subseteq Nat \ {0}
                             /\ config.row_hit_limit \in Nat
                             /\ config.activates \in Nat \ {0}
                             /\ config.enable_self_refresh \in BOOLEAN

(* The commands that are asked for: reads and writes; the refresh at the   *)
(* front of the queue; and, with self refresh enabled and unless that      *)
(* refresh gets on in this cycle, to wake a rank that sleeps and to put to *)
(* sleep one that does not, whatever still waits for it.                   *)
ReadWriteCommand ==
  {[type |-> t, bank |-> b, row |-> r, addr |-> NoAddress] :
      t \in IF config.close_page THEN {"READ_PRECHARGE", "WRITE_PRECHARGE"} ELSE {"READ", "WRITE"},
      b \in Bank, r \in Row}
FrontRefresh == {refresh_q[i] : i \in {j \in {1} : refresh_q # <<>>}}
PowerCommand(r) == RefreshCommand(IF rank_is_sref[r] THEN "SREF_EXIT" ELSE "SREF_ENTER", <<r, 0, 0>>)
PowerUpdates == /\ config.enable_self_refresh
                /\ \A ref \in FrontRefresh : GetReadyCommand(ref).type = "SIZE"

Requested == ReadWriteCommand \cup FrontRefresh
               \cup {PowerCommand(r) : r \in {q \in Rank : PowerUpdates}}

(* A request that AbruptExit cuts short changes nothing else.              *)
Issue(cmd) ==
  LET ready == GetReadyCommand(cmd)
  IN  /\ ~exited
      /\ ready.type # "SIZE"
      /\ IF ready.type = "ABORT"
         THEN exited' = TRUE /\ UNCHANGED <<bank_states, refresh_q, rank_is_sref, four_aw, thirty_two_aw>>
         ELSE UpdateTimingAndStates(ready)

NeedRefresh ==
  /\ ~exited
  /\ Len(refresh_q) < MaxRefreshes
  /\ \E b \in Bank : /\ ~rank_is_sref[b[1]]
                     /\ refresh_q' = IF config.refresh_policy = "BANK_LEVEL_STAGGERED" THEN BankNeedRefresh(b)
                                     ELSE RankNeedRefresh(b[1])
  /\ UNCHANGED <<bank_states, rank_is_sref, four_aw, thirty_two_aw, exited>>

Tick == ~exited /\ ChannelTick /\ UNCHANGED refresh_q

Init == ChannelInit
Next == \/ \E cmd \in Requested : Issue(cmd)
        \/ NeedRefresh
        \/ Tick

Spec == Init /\ [][Next]_channelVars

-----------------------------------------------------------------------------
BankRecord == [state : {"CLOSED", "OPEN", "SREF"}, open_row : Row \cup {NoRow},
               row_hit_count : 0 .. config.row_hit_limit, cmd_timing : [CommandType -> Nat]]
RefreshRequest == [type : RefreshType, bank : Bank, row : {NoRow}, addr : {NoAddress}]

(* Every variable keeps the shape its declaration gives it.                *)
TypeOK == /\ bank_states \in [Bank -> BankRecord]
          /\ refresh_q \in Seq(RefreshRequest)
          /\ rank_is_sref \in [Rank -> BOOLEAN]
          /\ four_aw \in [Rank -> Seq(Nat)] /\ thirty_two_aw \in [Rank -> Seq(Nat)]
          /\ exited \in BOOLEAN

(* BankState::UpdateState and GetReadyCommand meet a combination they      *)
(* answer with AbruptExit only when a rank sleeps: whatever the order of   *)
(* requests, what GetReadyCommand hands out is legal in the state of every *)
(* bank it reaches, and the banks of a rank are in self refresh together   *)
(* exactly when rank_is_sref_ says so, which is never unless the           *)
(* configuration enables it. A rank that sleeps is not safe: the request   *)
(* SREF_EXIT of controller.cc:121 and a refresh that was waiting when the  *)
(* rank went to sleep both end the process.                                *)
ExitsOnlyAsleep ==
  /\ exited => \E r \in Rank : rank_is_sref[r]
  /\ \A r \in Rank : rank_is_sref[r] => config.enable_self_refresh
  /\ \A b \in Bank : (bank_states[b].state = "SREF") <=> rank_is_sref[b[1]]
=============================================================================
