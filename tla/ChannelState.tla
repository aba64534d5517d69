----------------------------- MODULE ChannelState -----------------------------
(***************************************************************************)
(* The banks of a channel, the refreshes that wait, and the activation     *)
(* windows (channel_state.cc). Every controller owns one. The module has   *)
(* no actions of its own: its operators are the member functions, and the  *)
(* components that call them say when.                                     *)
(***************************************************************************)
EXTENDS BankState, Sequences, FiniteSets, SequencesExt

VARIABLES bank_states,     \* the banks, by <<rank, bankgroup, bank>>
          refresh_q,       \* the refreshes asked for and not yet issued
          rank_is_sref,    \* the ranks in self refresh
          four_aw,         \* per rank, the cycles left in the window of recent ACTIVATEs
          thirty_two_aw,   \* the same for the longer window of GDDR
          exited           \* AbruptExit was called

channelVars == <<bank_states, refresh_q, rank_is_sref, four_aw, thirty_two_aw, exited>>

Rank == 0 .. config.ranks - 1
Bank == Rank \X (0 .. config.bankgroups - 1) \X (0 .. config.banks_per_group - 1)
RankBanks(r) == {b \in Bank : b[1] = r}
Before(a, b) == \/ a[2] < b[2]
                \/ a[2] = b[2] /\ a[3] < b[3]

ChannelInit ==
  /\ bank_states = [b \in Bank |-> ClosedBank]
  /\ refresh_q = <<>>
  /\ rank_is_sref = [r \in Rank |-> FALSE]
  /\ four_aw = [r \in Rank |-> <<>>]
  /\ thirty_two_aw = [r \in Rank |-> <<>>]
  /\ exited = FALSE

IsAllBankIdleInRank(r) == \A b \in RankBanks(r) : bank_states[b].state # "OPEN"

(* RankNeedRefresh and BankNeedRefresh with need = true.                   *)
RefreshCommand(type, b) == [NoCommand EXCEPT !.type = type, !.bank = b]
RankNeedRefresh(r) == Append(refresh_q, RefreshCommand("REFRESH", <<r, 0, 0>>))
BankNeedRefresh(b) == Append(refresh_q, RefreshCommand("REFRESH_BANK", b))

(* ... and with need = false, called when a refresh was issued: the first  *)
(* refresh of the rank, or of the bank, leaves the queue.                  *)
Refreshed(cmd) ==
  LET same(r) == r.bank[1] = cmd.bank[1] /\ (cmd.type = "REFRESH" \/ r.bank = cmd.bank)
  IN  IF cmd.type \in RefreshType THEN RemoveFirstMatch(refresh_q, same) ELSE refresh_q

(* IsFAWReady and Is32AWReady: the windows admit config.activates (4) and  *)
(* config.activates32 (32) ACTIVATEs.                                      *)
(* Mutant: one ACTIVATE too many.                                          *)
WindowWider(w, n) == w = <<>> \/ w[1] = 0 \/ Len(w) <= n
WindowOpen(w, n) == w = <<>> \/ w[1] = 0 \/ Len(w) < n
ActivationWindowOk(r) ==
  /\ WindowOpen(four_aw[r], config.activates)
  /\ IsGDDR => WindowOpen(thirty_two_aw[r], config.activates32)

UpdateWindow(w, t) == Append(IF w # <<>> /\ w[1] = 0 THEN Tail(w) ELSE w, t)

GetReadyCommand(cmd) ==
  IF cmd.type \in RankType
  THEN LET ready == [b \in RankBanks(cmd.bank[1]) |-> BankReadyCommand(bank_states[b], cmd)]
           other == {b \in DOMAIN ready : ready[b].type \notin {"SIZE", cmd.type}}
           first == CHOOSE b \in other : \A c \in other \ {b} : Before(b, c)
       IN  CASE other # {} -> [ready[first] EXCEPT !.bank = first, !.row = NoRow]
             [] \A b \in DOMAIN ready : ready[b].type = cmd.type -> cmd
             [] OTHER -> NoCommand
  ELSE LET ready == BankReadyCommand(bank_states[cmd.bank], cmd)
       IN  IF ready.type = "ACTIVATE" /\ ~ActivationWindowOk(cmd.bank[1]) THEN NoCommand ELSE ready

(* The banks whose state a command changes, and how long it makes a bank   *)
(* wait.                                                                   *)
Addressed(cmd) == IF cmd.type \in RankType THEN RankBanks(cmd.bank[1]) ELSE {cmd.bank}

(* Mutant: a rank command delays the first bank of the rank only.          *)
FirstBankWait(t, a, b) == IF b = a THEN same_rank[t] ELSE NoWait
SameRankWait(t, a, b) == IF b[1] = a[1] THEN same_rank[t] ELSE NoWait

WaitAfter(cmd, b) ==
  LET a == cmd.bank  t == cmd.type
  IN  CASE t \in RankType -> SameRankWait(t, a, b)
        [] t \notin RankType /\ b = a -> same_bank[t]
        [] t \notin RankType /\ b # a /\ b[1] = a[1] /\ b[2] = a[2] -> other_banks_same_bankgroup[t]
        [] t \notin RankType /\ b[1] = a[1] /\ b[2] # a[2] -> other_bankgroups_same_rank[t]
        [] t \notin RankType /\ b[1] # a[1] -> other_ranks[t]

UpdateTimingAndStates(cmd) ==
  LET r == cmd.bank[1]
  IN  /\ bank_states' = [b \in Bank |->
            UpdateTiming(IF b \in Addressed(cmd) THEN UpdateState(bank_states[b], cmd) ELSE bank_states[b],
                         WaitAfter(cmd, b))]
      /\ refresh_q' = Refreshed(cmd)
      /\ rank_is_sref' = IF cmd.type \in {"SREF_ENTER", "SREF_EXIT"}
                         THEN [rank_is_sref EXCEPT ![r] = cmd.type = "SREF_ENTER"] ELSE rank_is_sref
      /\ four_aw' = IF cmd.type = "ACTIVATE"
                    THEN [four_aw EXCEPT ![r] = UpdateWindow(@, config.tFAW)] ELSE four_aw
      /\ thirty_two_aw' = IF cmd.type = "ACTIVATE" /\ IsGDDR
                          THEN [thirty_two_aw EXCEPT ![r] = UpdateWindow(@, config.t32AW)]
                          ELSE thirty_two_aw
      /\ exited' = \E b \in Addressed(cmd) : StateAfter(bank_states[b].state, cmd.type) = "ABORT"

(* One cycle later every waiting time is one shorter.                      *)
WindowTick(w) == [i \in 1 .. Len(w) |-> CountDown(w[i])]
ChannelTick ==
  /\ bank_states' = [b \in Bank |-> BankTick(bank_states[b])]
  /\ four_aw' = [r \in Rank |-> WindowTick(four_aw[r])]
  /\ thirty_two_aw' = [r \in Rank |-> WindowTick(thirty_two_aw[r])]
  /\ UNCHANGED <<rank_is_sref, exited>>
=============================================================================
