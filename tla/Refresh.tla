-------------------------------- MODULE Refresh --------------------------------
(***************************************************************************)
(* The refresh generator of a controller (refresh.cc): every               *)
(* refresh_interval cycles it asks for a refresh, by one of the three      *)
(* policies of the configuration.                                          *)
(***************************************************************************)
EXTENDS ChannelState, FiniteSetsExt

VARIABLES refresh_clk,     \* 0 .. refresh_interval: clk_ modulo the interval, 0 at the start only
          next_refresh     \* <<next_rank_, next_bg_, next_bank_>>

refreshVars == <<refresh_clk, next_refresh>>

refresh_interval ==
  CASE config.refresh_policy = "RANK_LEVEL_SIMULTANEOUS" -> config.tREFI
    [] config.refresh_policy = "BANK_LEVEL_STAGGERED" -> config.tREFIb
    [] config.refresh_policy = "RANK_LEVEL_STAGGERED" -> config.tREFI \div config.ranks

RefreshInit == refresh_clk = 0 /\ next_refresh = <<0, 0, 0>>

(* Mutants: the turn stays with the last rank; no rank counts as asleep;   *)
(* no refresh is ever asked for.                                           *)
IterateLast == <<config.ranks - 1, 0, 0>>
AnyRank == Rank

(* Bank groups turn fastest, then the banks of a group, then the ranks.    *)
IterateNext ==
  LET r == next_refresh[1]  g == (next_refresh[2] + 1) % config.bankgroups
      k == IF g = 0 THEN (next_refresh[3] + 1) % config.banks_per_group ELSE next_refresh[3]
  IN  IF config.refresh_policy = "RANK_LEVEL_STAGGERED"
      THEN <<(r + 1) % config.ranks, 0, 0>>
      ELSE <<IF g = 0 /\ k = 0 THEN (r + 1) % config.ranks ELSE r, g, k>>

AwakeRanks == {r \in Rank : ~rank_is_sref[r]}

InsertRefresh ==
  \/ /\ config.refresh_policy = "RANK_LEVEL_SIMULTANEOUS"
     /\ refresh_q' = IF AwakeRanks = {} THEN refresh_q ELSE RankNeedRefresh(Min(AwakeRanks))
     /\ UNCHANGED next_refresh
  \/ /\ config.refresh_policy = "RANK_LEVEL_STAGGERED"
     /\ refresh_q' = IF next_refresh[1] \in AwakeRanks THEN RankNeedRefresh(next_refresh[1]) ELSE refresh_q
     /\ next_refresh' = IterateNext
  \/ /\ config.refresh_policy = "BANK_LEVEL_STAGGERED"
     /\ refresh_q' = IF next_refresh[1] \in AwakeRanks THEN BankNeedRefresh(next_refresh) ELSE refresh_q
     /\ next_refresh' = IterateNext

RefreshNever == refresh_clk' = (refresh_clk % refresh_interval) + 1 /\ UNCHANGED <<refresh_q, next_refresh>>
RefreshTick ==
  /\ refresh_clk' = (refresh_clk % refresh_interval) + 1
  /\ IF refresh_clk = refresh_interval THEN InsertRefresh ELSE UNCHANGED <<refresh_q, next_refresh>>
=============================================================================
