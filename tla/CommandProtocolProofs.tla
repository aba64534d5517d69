------------------------- MODULE CommandProtocolProofs -------------------------
(***************************************************************************)
(* For every configuration, any number of ranks, banks and rows: a channel *)
(* keeps its types, and calls AbruptExit only while a rank sleeps.         *)
(***************************************************************************)
EXTENDS CommandProtocol, WellFoundedInduction, TLAPS

ChannelInv == TypeOK /\ ExitsOnlyAsleep

(* What may be handed to UpdateTimingAndStates: a command that no bank it  *)
(* reaches answers with AbruptExit, and no self refresh unless enabled.    *)
Command == [type : CommandType, bank : Bank, row : Row \cup {NoRow}, addr : {NoAddress}]
Legal(cmd) ==
  /\ cmd \in Command
  /\ \A b \in Addressed(cmd) : StateAfter(bank_states[b].state, cmd.type) # "ABORT"
  /\ cmd.type = "SREF_ENTER" => config.enable_self_refresh

-----------------------------------------------------------------------------
(* Every non-empty set of naturals has a least element.                    *)
LEMMA NatMin ==
  ASSUME NEW S \in SUBSET Nat, S # {}
  PROVE  \E m \in S : \A n \in S : m <= n
<1>1. PICK m \in S : \A n \in S : ~(<<n, m>> \in OpToRel(<, Nat))
  BY NatLessThanWellFounded, WFMin, Zenon
<1>2. ASSUME NEW n \in S PROVE ~(n < m)
  BY <1>1, Zenon DEF OpToRel
<1> QED BY <1>2

(* A non-empty set of banks of one rank has a first one, so the loop of    *)
(* GetReadyCommand over bankgroups and banks ends on a bank of the set.    *)
LEMMA FirstBank ==
  ASSUME NEW S \in SUBSET Bank, S # {}, \A a, b \in S : a[1] = b[1]
  PROVE  \E b \in S : \A c \in S \ {b} : Before(b, c)
<1>1. PICK g \in {b[2] : b \in S} : \A h \in {b[2] : b \in S} : g <= h
  <2>1. {b[2] : b \in S} \in SUBSET Nat
    BY ProtocolAssumption DEF Bank
  <2>2. {b[2] : b \in S} # {}
    OBVIOUS
  <2> QED BY <2>1, <2>2, NatMin
<1> DEFINE G == {b \in S : b[2] = g}
<1>2. PICK k \in {b[3] : b \in G} : \A h \in {b[3] : b \in G} : k <= h
  <2>1. {b[3] : b \in G} \in SUBSET Nat
    BY ProtocolAssumption DEF Bank
  <2>2. {b[3] : b \in G} # {}
    OBVIOUS
  <2> QED BY <2>1, <2>2, NatMin
<1>3. PICK b \in G : b[3] = k
  OBVIOUS
<1>4. ASSUME NEW c \in S \ {b} PROVE Before(b, c)
  <2>1. g <= c[2]
    BY <1>1
  <2>2. /\ c[1] = b[1]
        /\ c = <<c[1], c[2], c[3]>>
        /\ b = <<b[1], b[2], b[3]>>
        /\ c[2] \in Nat
        /\ c[3] \in Nat
        /\ b[2] \in Nat
        /\ b[3] \in Nat
    BY ProtocolAssumption DEF Bank
  <2>3. CASE c[2] = g
    <3>1. k <= c[3]
      BY <1>2, <2>3
    <3>2. c[3] # b[3]
      BY <2>2, <2>3
    <3> QED BY <3>1, <3>2, <2>2, <2>3, <1>3 DEF Before
  <2>4. CASE c[2] # g
    BY <2>1, <2>2, <2>4 DEF Before
  <2> QED BY <2>3, <2>4
<1> QED BY <1>4

-----------------------------------------------------------------------------
(* The entries of the tables are integers.                                 *)
LEMMA TableType ==
  /\ same_bank \in [CommandType -> [CommandType -> Int]]
  /\ other_banks_same_bankgroup \in [CommandType -> [CommandType -> Int]]
  /\ other_bankgroups_same_rank \in [CommandType -> [CommandType -> Int]]
  /\ other_ranks \in [CommandType -> [CommandType -> Int]]
  /\ same_rank \in [CommandType -> [CommandType -> Int]]
<1>1. /\ rw_to_rw_l \in Int /\ rw_to_rw_s \in Int /\ read_to_read_o \in Int
      /\ read_to_write \in Int /\ read_to_write_o \in Int /\ read_to_precharge \in Int
      /\ readp_to_act \in Int /\ write_to_read_l \in Int /\ write_to_read_s \in Int
      /\ write_to_read_o \in Int /\ write_to_write_o \in Int /\ write_to_precharge \in Int
      /\ read_to_activate \in Int /\ write_to_activate \in Int
      /\ activate_to_activate_l \in Int /\ precharge_to_precharge \in Int
      /\ activate_to_precharge \in Int /\ activate_to_read \in Int /\ activate_to_write \in Int
      /\ tRC \in Int /\ config.tRP \in Int /\ config.tRRD_S \in Int /\ config.tRFC \in Int
      /\ config.tRFCb \in Int /\ config.tREFI \in Int /\ config.tCKESR \in Int /\ config.tXS \in Int
  BY TimingAssumption DEF rw_to_rw_l, rw_to_rw_s, read_to_read_o, read_to_write, read_to_write_o,
     read_to_precharge, readp_to_act, write_to_read_l, write_to_read_s, write_to_read_o,
     write_to_write_o, write_to_precharge, read_to_activate, write_to_activate,
     activate_to_activate_l, precharge_to_precharge, activate_to_precharge, activate_to_read,
     activate_to_write, tRC, RL, WL, read_delay, write_delay, Larger, Long
<1>2. ASSUME NEW S, NEW t \in Int PROVE Wait(S, t) \in [CommandType -> Int]
  BY DEF Wait
<1>3. ASSUME NEW r \in Int, NEW w \in Int PROVE RWWait(r, w) \in [CommandType -> Int]
  BY DEF RWWait
<1>4. NoWait \in [CommandType -> Int]
  BY DEF NoWait
<1>5. ASSUME NEW T \in [CommandType -> Int], NEW t \in Int, NEW c
      PROVE  [T EXCEPT ![c] = t] \in [CommandType -> Int]
  OBVIOUS
<1>6. ASSUME NEW a \in Int, NEW b \in Int, NEW d \in Int
      PROVE  OtherBanks(a, b, d) \in [CommandType -> [CommandType -> Int]]
  <2> SUFFICES ASSUME NEW c \in CommandType PROVE OtherBanks(a, b, d)[c] \in [CommandType -> Int]
    BY DEF OtherBanks
  <2> QED BY <1>1, <1>2, <1>3, <1>4, <1>5, Zenon DEF OtherBanks
<1>7. same_bank \in [CommandType -> [CommandType -> Int]]
  <2> SUFFICES ASSUME NEW c \in CommandType PROVE same_bank[c] \in [CommandType -> Int]
    BY DEF same_bank
  <2> QED BY <1>1, <1>2, <1>3, <1>4, <1>5, Zenon DEF same_bank
<1>8. other_ranks \in [CommandType -> [CommandType -> Int]]
  <2> SUFFICES ASSUME NEW c \in CommandType PROVE other_ranks[c] \in [CommandType -> Int]
    BY DEF other_ranks
  <2> QED BY <1>1, <1>2, <1>3, <1>4, <1>5 DEF other_ranks
<1>9. same_rank \in [CommandType -> [CommandType -> Int]]
  <2> SUFFICES ASSUME NEW c \in CommandType PROVE same_rank[c] \in [CommandType -> Int]
    BY DEF same_rank
  <2> QED BY <1>1, <1>2, <1>3, <1>4, <1>5 DEF same_rank
<1> QED BY <1>1, <1>6, <1>7, <1>8, <1>9 DEF other_banks_same_bankgroup, other_bankgroups_same_rank

(* Whatever the command, a bank waits an integer number of cycles.         *)
LEMMA WaitType ==
  ASSUME NEW cmd \in Command, NEW b \in Bank
  PROVE  WaitAfter(cmd, b) \in [CommandType -> Int]
<1>1. cmd.type \in CommandType /\ cmd.bank \in Bank
  BY DEF Command
<1>2. NoWait \in [CommandType -> Int]
  BY DEF NoWait
<1> QED BY <1>1, <1>2, TableType DEF WaitAfter, SameRankWait

-----------------------------------------------------------------------------
(* What UpdateState and UpdateTiming make of a bank.                       *)
LEMMA UpdateStateType ==
  ASSUME NEW b \in BankRecord, NEW cmd \in Command, StateAfter(b.state, cmd.type) # "ABORT"
  PROVE  /\ UpdateState(b, cmd) \in BankRecord
         /\ UpdateState(b, cmd).state = StateAfter(b.state, cmd.type)
         /\ UpdateState(b, cmd).cmd_timing = b.cmd_timing
<1>1. StateAfter(b.state, cmd.type) \in {"CLOSED", "OPEN", "SREF"}
  BY DEF StateAfter
<1>2. cmd.row \in Row \cup {NoRow}
  BY DEF Command
<1> DEFINE next == StateAfter(b.state, cmd.type)
           row == IF next # "OPEN" THEN NoRow ELSE IF cmd.type = "ACTIVATE" THEN cmd.row ELSE b.open_row
           hits == CASE next # "OPEN" -> 0
                     [] cmd.type \in ReadWriteType /\ b.row_hit_count < config.row_hit_limit -> b.row_hit_count + 1
                     [] OTHER -> b.row_hit_count
<1>3. row \in Row \cup {NoRow}
  BY <1>2 DEF BankRecord
<1>4. hits \in 0 .. config.row_hit_limit
  BY ProtocolAssumption DEF BankRecord
<1>5. UpdateState(b, cmd) = [b EXCEPT !.state = next, !.open_row = row, !.row_hit_count = hits]
  BY DEF UpdateState
<1> HIDE DEF next, row, hits
<1> QED BY <1>1, <1>3, <1>4, <1>5 DEF next, BankRecord

LEMMA UpdateTimingType ==
  ASSUME NEW b \in BankRecord, NEW wait \in [CommandType -> Int]
  PROVE  /\ UpdateTiming(b, wait) \in BankRecord
         /\ UpdateTiming(b, wait).state = b.state
         /\ \A t \in CommandType : /\ UpdateTiming(b, wait).cmd_timing[t] >= b.cmd_timing[t]
                                   /\ UpdateTiming(b, wait).cmd_timing[t] >= wait[t]
<1>1. b.cmd_timing \in [CommandType -> Nat]
  BY DEF BankRecord
<1>2. [t \in CommandType |-> Larger(b.cmd_timing[t], wait[t])] \in [CommandType -> Nat]
  BY <1>1 DEF Larger
<1>3. \A t \in CommandType : /\ Larger(b.cmd_timing[t], wait[t]) >= b.cmd_timing[t]
                             /\ Larger(b.cmd_timing[t], wait[t]) >= wait[t]
  BY <1>1 DEF Larger
<1> QED BY <1>2, <1>3 DEF UpdateTiming, BankRecord

(* The elements of a sequence with one removed.                            *)
LEMMA RemoveAtElements ==
  ASSUME NEW S, NEW s \in Seq(S), NEW k \in 1 .. Len(s)
  PROVE  /\ RemoveAt(s, k) \in Seq(S)
         /\ \A i \in 1 .. Len(RemoveAt(s, k)) : \E j \in 1 .. Len(s) : RemoveAt(s, k)[i] = s[j]
<1> DEFINE a == SubSeq(s, 1, k - 1)
           c == SubSeq(s, k + 1, Len(s))
<1>1. a \in Seq(S) /\ Len(a) = k - 1 /\ \A i \in 1 .. k - 1 : a[i] = s[i]
  OBVIOUS
<1>2. c \in Seq(S) /\ Len(c) = Len(s) - k /\ \A i \in 1 .. Len(s) - k : c[i] = s[k + i]
  OBVIOUS
<1>3. RemoveAt(s, k) = a \o c
  BY DEF RemoveAt
<1> HIDE DEF a, c
<1>4. ASSUME NEW i \in 1 .. Len(a \o c) PROVE \E j \in 1 .. Len(s) : (a \o c)[i] = s[j]
  <2>1. CASE i <= k - 1
    BY <1>1, <1>2, <2>1
  <2>2. CASE i > k - 1
    <3>1. (a \o c)[i] = c[i - (k - 1)]
      BY <1>1, <1>2, <2>2
    <3>2. i - (k - 1) \in 1 .. Len(s) - k
      BY <1>1, <1>2, <2>2
    <3> QED BY <1>2, <3>1, <3>2
  <2> QED BY <2>1, <2>2
<1> QED BY <1>1, <1>2, <1>3, <1>4

(* The refresh that was issued leaves the queue, and none enters it.       *)
LEMMA QueueShrinks ==
  ASSUME NEW cmd, refresh_q \in Seq(RefreshRequest)
  PROVE  /\ Refreshed(cmd) \in Seq(RefreshRequest)
         /\ \A i \in 1 .. Len(Refreshed(cmd)) : \E j \in 1 .. Len(refresh_q) : Refreshed(cmd)[i] = refresh_q[j]
<1> DEFINE same(r) == r.bank[1] = cmd.bank[1] /\ (cmd.type = "REFRESH" \/ r.bank = cmd.bank)
           I == {i \in 1 .. Len(refresh_q) : same(refresh_q[i])}
           k == Min(I)
           q == RemoveAt(refresh_q, k)
<1>1. CASE I = {} \/ cmd.type \notin RefreshType
  BY <1>1 DEF Refreshed, RemoveFirstMatch
<1>2. CASE I # {} /\ cmd.type \in RefreshType
  <2>1. k \in I
    <3> HIDE DEF I
    <3>1. I \in SUBSET Nat
      BY DEF I
    <3>2. \E m \in I : \A n \in I : m <= n
      BY <1>2, <3>1, NatMin
    <3> QED BY <3>2 DEF Min
  <2>2. Refreshed(cmd) = q
    BY <1>2 DEF Refreshed, RemoveFirstMatch, SelectInSeq
  <2>3. k \in 1 .. Len(refresh_q)
    BY <2>1
  <2> HIDE DEF k
  <2> QED BY <2>2, <2>3, RemoveAtElements
<1> QED BY <1>1, <1>2

-----------------------------------------------------------------------------
(* What a legal command makes of every bank of the channel: the state      *)
(* machine runs where the command is addressed, and no time gets shorter.  *)
LEMMA BankAfter ==
  ASSUME TypeOK, NEW cmd, Legal(cmd), UpdateTimingAndStates(cmd), NEW b \in Bank
  PROVE  /\ bank_states'[b] \in BankRecord
         /\ bank_states'[b].state = IF b \in Addressed(cmd) THEN StateAfter(bank_states[b].state, cmd.type)
                                    ELSE bank_states[b].state
         /\ \A t \in CommandType : /\ bank_states'[b].cmd_timing[t] >= bank_states[b].cmd_timing[t]
                                   /\ bank_states'[b].cmd_timing[t] >= WaitAfter(cmd, b)[t]
<1> DEFINE s == IF b \in Addressed(cmd) THEN UpdateState(bank_states[b], cmd) ELSE bank_states[b]
<1>1. cmd \in Command /\ bank_states[b] \in BankRecord
  BY DEF Legal, TypeOK
<1>2. /\ s \in BankRecord
      /\ s.state = IF b \in Addressed(cmd) THEN StateAfter(bank_states[b].state, cmd.type)
                   ELSE bank_states[b].state
      /\ s.cmd_timing = bank_states[b].cmd_timing
  BY <1>1, UpdateStateType DEF Legal
<1>3. bank_states'[b] = UpdateTiming(s, WaitAfter(cmd, b))
  BY DEF UpdateTimingAndStates
<1>4. WaitAfter(cmd, b) \in [CommandType -> Int]
  BY <1>1, WaitType
<1> HIDE DEF s
<1> QED BY <1>2, <1>3, <1>4, UpdateTimingType

(* A window stays a sequence of counts.                                    *)
LEMMA WindowType ==
  ASSUME NEW w \in Seq(Nat), NEW t \in Nat
  PROVE  UpdateWindow(w, t) \in Seq(Nat) /\ WindowTick(w) \in Seq(Nat)
<1>1. Tail(w) \in Seq(Nat) \/ w = <<>>
  OBVIOUS
<1>2. WindowTick(w) \in Seq(Nat)
  BY DEF WindowTick, CountDown
<1> QED BY <1>1, <1>2 DEF UpdateWindow

(* A legal command keeps the invariant.                                    *)
LEMMA UpdatePreserves ==
  ASSUME ChannelInv, NEW cmd, Legal(cmd), UpdateTimingAndStates(cmd)
  PROVE  ChannelInv'
<1> DEFINE r == cmd.bank[1]
<1>1. /\ cmd \in Command
      /\ cmd.type \in CommandType
      /\ cmd.bank \in Bank
      /\ r \in Rank
      /\ TypeOK
      /\ ExitsOnlyAsleep
  BY DEF Legal, Command, ChannelInv, Bank
<1>2. TypeOK'
  <2>1. bank_states' \in [Bank -> BankRecord]
    BY <1>1, BankAfter DEF UpdateTimingAndStates
  <2>2. refresh_q' \in Seq(RefreshRequest)
    BY <1>1, QueueShrinks DEF UpdateTimingAndStates, TypeOK
  <2>3. rank_is_sref' \in [Rank -> BOOLEAN]
    BY <1>1 DEF UpdateTimingAndStates, TypeOK
  <2>4. four_aw' \in [Rank -> Seq(Nat)]
    <3>1. four_aw \in [Rank -> Seq(Nat)] /\ config.tFAW \in Nat
      BY <1>1, TimingAssumption DEF TypeOK
    <3>2. UpdateWindow(four_aw[r], config.tFAW) \in Seq(Nat)
      BY <1>1, <3>1, WindowType
    <3> QED BY <1>1, <3>1, <3>2 DEF UpdateTimingAndStates
  <2>5. thirty_two_aw' \in [Rank -> Seq(Nat)]
    <3>1. thirty_two_aw \in [Rank -> Seq(Nat)] /\ config.t32AW \in Nat
      BY <1>1, TimingAssumption DEF TypeOK
    <3>2. UpdateWindow(thirty_two_aw[r], config.t32AW) \in Seq(Nat)
      BY <1>1, <3>1, WindowType
    <3> QED BY <1>1, <3>1, <3>2 DEF UpdateTimingAndStates
  <2>6. exited' \in BOOLEAN
    BY DEF UpdateTimingAndStates
  <2> QED BY <2>1, <2>2, <2>3, <2>4, <2>5, <2>6 DEF TypeOK
<1>3. ExitsOnlyAsleep'
  <2>1. ~exited'
    BY DEF UpdateTimingAndStates, Legal
  <2>2. ASSUME NEW b \in Bank PROVE (bank_states'[b].state = "SREF") <=> rank_is_sref'[b[1]]
    <3>1. /\ (bank_states[b].state = "SREF") <=> rank_is_sref[b[1]]
          /\ b[1] \in Rank
          /\ rank_is_sref \in [Rank -> BOOLEAN]
          /\ b \in RankBanks(b[1])
      BY <1>1 DEF ExitsOnlyAsleep, Bank, TypeOK, RankBanks
    <3>2. bank_states'[b].state = IF b \in Addressed(cmd) THEN StateAfter(bank_states[b].state, cmd.type)
                                  ELSE bank_states[b].state
      BY <1>1, BankAfter
    <3>3. b \in Addressed(cmd) => StateAfter(bank_states[b].state, cmd.type) # "ABORT"
      BY DEF Legal
    <3>4. CASE cmd.type \in {"SREF_ENTER", "SREF_EXIT"} /\ b[1] = r
      <4>1. b \in Addressed(cmd)
        BY <3>1, <3>4 DEF Addressed, RankType
      <4>2. rank_is_sref'[b[1]] = (cmd.type = "SREF_ENTER")
        BY <3>1, <3>4 DEF UpdateTimingAndStates
      <4> QED BY <3>2, <3>3, <3>4, <4>1, <4>2 DEF StateAfter, RefreshType
    <3>5. CASE cmd.type \in {"SREF_ENTER", "SREF_EXIT"} /\ b[1] # r
      <4>1. b \notin Addressed(cmd)
        BY <3>5 DEF Addressed, RankType, RankBanks
      <4>2. rank_is_sref'[b[1]] = rank_is_sref[b[1]]
        BY <1>1, <3>1, <3>5 DEF UpdateTimingAndStates
      <4> QED BY <3>1, <3>2, <4>1, <4>2
    <3>6. CASE cmd.type \notin {"SREF_ENTER", "SREF_EXIT"}
      <4>1. rank_is_sref' = rank_is_sref
        BY <3>6 DEF UpdateTimingAndStates
      <4>2. b \in Addressed(cmd) => /\ bank_states[b].state # "SREF"
                                    /\ bank_states'[b].state # "SREF"
        BY <3>2, <3>3, <3>6 DEF StateAfter
      <4> QED BY <3>1, <3>2, <4>1, <4>2
    <3> QED BY <3>4, <3>5, <3>6
  <2>3. ASSUME NEW q \in Rank, rank_is_sref'[q] PROVE config.enable_self_refresh
    <3>1. rank_is_sref \in [Rank -> BOOLEAN] /\ (rank_is_sref[q] => config.enable_self_refresh)
      BY <1>1 DEF TypeOK, ExitsOnlyAsleep
    <3>2. rank_is_sref[q] \/ cmd.type = "SREF_ENTER"
      BY <1>1, <2>3, <3>1 DEF UpdateTimingAndStates
    <3> QED BY <3>1, <3>2 DEF Legal
  <2> QED BY <2>1, <2>2, <2>3 DEF ExitsOnlyAsleep
<1> QED BY <1>2, <1>3 DEF ChannelInv

-----------------------------------------------------------------------------
(* What GetReadyCommand answers to a request that does not end in          *)
(* AbruptExit: a legal command whose time has come on every bank it        *)
(* reaches.                                                                *)
Ready(cmd, ready) ==
  /\ ready.type # "ABORT"
  /\ Legal(ready)
  /\ ready.type \in {cmd.type, "ACTIVATE", "PRECHARGE", "SREF_EXIT"}
  /\ ready.type = "ACTIVATE" => ActivationWindowOk(ready.bank[1])
  /\ ready.type # "SREF_EXIT" => \A b \in Addressed(ready) : bank_states[b].cmd_timing[ready.type] = 0

(* A request for one bank: a read, a write, or the refresh of a bank.      *)
LEMMA BankRequestReady ==
  ASSUME ChannelInv,
         NEW cmd \in Command, cmd.type \in ReadWriteType \cup {"REFRESH_BANK"},
         cmd.type = "REFRESH_BANK" => ~rank_is_sref[cmd.bank[1]],
         GetReadyCommand(cmd).type # "SIZE"
  PROVE  Ready(cmd, GetReadyCommand(cmd))
<1> DEFINE b == bank_states[cmd.bank]
           required == RequiredType(b, cmd)
           ready == GetReadyCommand(cmd)
<1>1. /\ cmd.type \notin RankType
      /\ cmd.bank \in Bank
      /\ cmd.bank[1] \in Rank
      /\ b \in BankRecord
      /\ b.state \in {"CLOSED", "OPEN", "SREF"}
      /\ (b.state = "SREF") <=> rank_is_sref[cmd.bank[1]]
  BY DEF ReadWriteType, ReadType, WriteType, RankType, Command, Bank, ChannelInv, TypeOK, ExitsOnlyAsleep,
         BankRecord
<1>2. /\ required \in {cmd.type, "ACTIVATE", "PRECHARGE", "SREF_EXIT"}
      /\ StateAfter(b.state, required) # "ABORT"
      /\ required = "SREF_EXIT" => rank_is_sref[cmd.bank[1]]
  BY <1>1 DEF RequiredType, StateAfter, ReadWriteType, ReadType, WriteType, IdleType, RefreshType
<1>3. required \in CommandType /\ required # "ABORT"
  BY <1>2 DEF ReadWriteType, ReadType, WriteType, CommandType
<1>4. /\ b.cmd_timing[required] = 0
      /\ ready = [cmd EXCEPT !.type = required]
      /\ required = "ACTIVATE" => ActivationWindowOk(cmd.bank[1])
  <2>1. NoCommand.type = "SIZE"
    BY DEF NoCommand
  <2>2. [cmd EXCEPT !.type = required].type = required
    BY DEF Command
  <2> HIDE DEF required
  <2> QED BY <1>1, <1>3, <2>1, <2>2 DEF GetReadyCommand, BankReadyCommand, required
<1>5. /\ ready \in Command
      /\ ready.type = required
      /\ ready.bank = cmd.bank
  BY <1>3, <1>4 DEF Command
<1> HIDE DEF ready, required, b
<1>6. CASE required # "SREF_EXIT"
  <2>1. Addressed(ready) = {cmd.bank} /\ required # "SREF_ENTER"
    BY <1>1, <1>2, <1>5, <1>6 DEF Addressed, RankType, ReadWriteType, ReadType, WriteType
  <2> QED BY <1>2, <1>3, <1>4, <1>5, <1>6, <2>1 DEF Ready, Legal, b, ready
<1>7. CASE required = "SREF_EXIT"
  <2>1. \A c \in Addressed(ready) : bank_states[c].state = "SREF"
    BY <1>2, <1>5, <1>7 DEF Addressed, RankType, RankBanks, ChannelInv, ExitsOnlyAsleep
  <2>2. \A c \in Addressed(ready) : StateAfter(bank_states[c].state, ready.type) # "ABORT"
    BY <1>5, <1>7, <2>1 DEF StateAfter
  <2> QED BY <1>5, <1>7, <2>2 DEF Ready, Legal, ready
<1> QED BY <1>6, <1>7

(* A request for a rank that is awake: a refresh, or self refresh. The     *)
(* first bank with an open row is closed first.                            *)
LEMMA RankRequestReady ==
  ASSUME ChannelInv,
         NEW cmd \in Command, cmd.type \in {"REFRESH", "SREF_ENTER"},
         ~rank_is_sref[cmd.bank[1]],
         cmd.type = "SREF_ENTER" => config.enable_self_refresh,
         GetReadyCommand(cmd).type # "SIZE"
  PROVE  Ready(cmd, GetReadyCommand(cmd))
<1> DEFINE r == cmd.bank[1]
           ready == [b \in RankBanks(r) |-> BankReadyCommand(bank_states[b], cmd)]
           other == {b \in DOMAIN ready : ready[b].type \notin {"SIZE", cmd.type}}
           first == CHOOSE b \in other : \A c \in other \ {b} : Before(b, c)
           answer == GetReadyCommand(cmd)
<1>1. cmd.type \in RankType /\ cmd.bank \in Bank /\ r \in Rank
  BY DEF RankType, Command, Bank
<1>2. answer = CASE other # {} -> [ready[first] EXCEPT !.bank = first, !.row = NoRow]
                 [] \A b \in DOMAIN ready : ready[b].type = cmd.type -> cmd
                 [] OTHER -> NoCommand
  BY <1>1 DEF GetReadyCommand
<1>3. ASSUME NEW b \in RankBanks(r)
      PROVE  /\ b \in Bank
             /\ bank_states[b] \in BankRecord
             /\ bank_states[b].state \in {"CLOSED", "OPEN"}
  BY DEF RankBanks, ChannelInv, TypeOK, ExitsOnlyAsleep, BankRecord
<1>4. ASSUME NEW b \in RankBanks(r), bank_states[b].state = "CLOSED"
      PROVE  /\ ready[b] \in {NoCommand, [cmd EXCEPT !.type = cmd.type]}
             /\ ready[b].type = cmd.type => bank_states[b].cmd_timing[cmd.type] = 0
  BY <1>4 DEF BankReadyCommand, RequiredType, IdleType, RefreshType, ReadWriteType, ReadType, WriteType,
              NoCommand
<1>5. ASSUME NEW b \in RankBanks(r), bank_states[b].state = "OPEN"
      PROVE  /\ ready[b] \in {NoCommand, [cmd EXCEPT !.type = "PRECHARGE"]}
             /\ ready[b].type = "PRECHARGE" => bank_states[b].cmd_timing["PRECHARGE"] = 0
  BY <1>5 DEF BankReadyCommand, RequiredType, IdleType, RefreshType, ReadWriteType, ReadType, WriteType,
              NoCommand
<1>6. /\ cmd = [cmd EXCEPT !.type = cmd.type]
      /\ [cmd EXCEPT !.type = "PRECHARGE"].type = "PRECHARGE"
      /\ NoCommand.type = "SIZE"
  BY DEF Command, NoCommand
<1>7. DOMAIN ready = RankBanks(r)
  OBVIOUS
<1>8. \A b \in other : /\ bank_states[b].state = "OPEN"
                       /\ ready[b] = [cmd EXCEPT !.type = "PRECHARGE"]
                       /\ bank_states[b].cmd_timing["PRECHARGE"] = 0
                       /\ b \in RankBanks(r)
  <2> HIDE DEF ready
  <2> QED BY <1>3, <1>4, <1>5, <1>6, <1>7
<1> HIDE DEF ready, answer
<1>9. CASE other # {}
  <2>1. first \in other
    <3>1. other \in SUBSET Bank /\ \A a, b \in other : a[1] = b[1]
      BY <1>8 DEF RankBanks
    <3>2. \E b \in other : \A c \in other \ {b} : Before(b, c)
      BY <1>9, <3>1, FirstBank
    <3> QED BY <3>2
  <2> HIDE DEF first
  <2>2. answer = [cmd EXCEPT !.type = "PRECHARGE", !.bank = first, !.row = NoRow]
    BY <1>2, <1>8, <1>9, <2>1 DEF Command
  <2>3. /\ answer \in Command
        /\ answer.type = "PRECHARGE"
        /\ answer.bank = first
    BY <1>3, <1>8, <2>1, <2>2 DEF Command, CommandType
  <2>4. Addressed(answer) = {first}
    BY <2>3 DEF Addressed, RankType
  <2>5. StateAfter(bank_states[first].state, "PRECHARGE") # "ABORT"
    BY <1>8, <2>1 DEF StateAfter
  <2> QED BY <1>8, <2>1, <2>3, <2>4, <2>5 DEF Ready, Legal, answer
<1>10. CASE other = {}
  <2>1. /\ answer = cmd
        /\ \A b \in RankBanks(r) : ready[b].type = cmd.type
    BY <1>2, <1>6, <1>7, <1>10 DEF answer
  <2>2. \A b \in RankBanks(r) : /\ bank_states[b].state = "CLOSED"
                                /\ bank_states[b].cmd_timing[cmd.type] = 0
    BY <1>3, <1>4, <1>5, <1>6, <2>1
  <2>3. Addressed(cmd) = RankBanks(r)
    BY <1>1 DEF Addressed
  <2>4. \A b \in Addressed(cmd) : StateAfter(bank_states[b].state, cmd.type) # "ABORT"
    BY <2>2, <2>3 DEF StateAfter, RefreshType
  <2> QED BY <2>1, <2>2, <2>3, <2>4 DEF Ready, Legal, answer
<1> QED BY <1>9, <1>10

(* A request that is not a read or a write, for a rank that sleeps, ends   *)
(* in AbruptExit: a refresh that waited, and the request to wake up.       *)
LEMMA AsleepAborts ==
  ASSUME ChannelInv,
         NEW cmd \in Command, cmd.type \in {"REFRESH", "REFRESH_BANK", "SREF_EXIT"}, rank_is_sref[cmd.bank[1]]
  PROVE  GetReadyCommand(cmd).type = "ABORT"
<1> DEFINE r == cmd.bank[1]
           ready == [b \in RankBanks(r) |-> BankReadyCommand(bank_states[b], cmd)]
           other == {b \in DOMAIN ready : ready[b].type \notin {"SIZE", cmd.type}}
           first == CHOOSE b \in other : \A c \in other \ {b} : Before(b, c)
<1>1. cmd.bank \in RankBanks(r) /\ RankBanks(r) \subseteq Bank
  BY DEF Command, RankBanks
<1>2. ASSUME NEW b \in RankBanks(r)
      PROVE  BankReadyCommand(bank_states[b], cmd) = [cmd EXCEPT !.type = "ABORT"]
  <2>1. bank_states[b].state = "SREF"
    BY <1>1 DEF RankBanks, ChannelInv, ExitsOnlyAsleep
  <2>2. RequiredType(bank_states[b], cmd) = "ABORT"
    BY <2>1 DEF RequiredType, ReadWriteType, ReadType, WriteType
  <2> QED BY <2>2 DEF BankReadyCommand
<1>3. [cmd EXCEPT !.type = "ABORT"].type = "ABORT"
  BY DEF Command
<1>4. CASE cmd.type = "REFRESH_BANK"
  <2>1. GetReadyCommand(cmd) = BankReadyCommand(bank_states[cmd.bank], cmd)
    BY <1>1, <1>2, <1>3, <1>4 DEF GetReadyCommand, RankType
  <2> QED BY <1>1, <1>2, <1>3, <2>1
<1>5. CASE cmd.type \in {"REFRESH", "SREF_EXIT"}
  <2>1. DOMAIN ready = RankBanks(r) /\ \A b \in RankBanks(r) : ready[b] = [cmd EXCEPT !.type = "ABORT"]
    BY <1>2
  <2>2. GetReadyCommand(cmd) = CASE other # {} -> [ready[first] EXCEPT !.bank = first, !.row = NoRow]
                                 [] \A b \in DOMAIN ready : ready[b].type = cmd.type -> cmd
                                 [] OTHER -> NoCommand
    BY <1>5 DEF GetReadyCommand, RankType
  <2> HIDE DEF ready
  <2>3. other = RankBanks(r)
    BY <1>3, <1>5, <2>1
  <2>4. first \in other
    <3>1. other \in SUBSET Bank /\ other # {} /\ \A a, b \in other : a[1] = b[1]
      BY <1>1, <2>3 DEF RankBanks
    <3>2. \E b \in other : \A c \in other \ {b} : Before(b, c)
      BY <3>1, FirstBank
    <3> QED BY <3>2
  <2>5. ready[first] = [cmd EXCEPT !.type = "ABORT"]
    BY <2>1, <2>3, <2>4
  <2> HIDE DEF first
  <2>6. GetReadyCommand(cmd) = [[cmd EXCEPT !.type = "ABORT"] EXCEPT !.bank = first, !.row = NoRow]
    BY <2>2, <2>4, <2>5
  <2> QED BY <2>6 DEF Command
<1> QED BY <1>4, <1>5

(* Every request is one of these kinds.                                    *)
LEMMA RequestReady ==
  ASSUME ChannelInv, NEW cmd \in Requested, GetReadyCommand(cmd).type # "SIZE"
  PROVE  /\ cmd \in Command
         /\ \/ Ready(cmd, GetReadyCommand(cmd))
            \/ GetReadyCommand(cmd).type = "ABORT" /\ rank_is_sref[cmd.bank[1]]
<1>1. CASE cmd \in ReadWriteCommand
  <2>1. cmd \in Command /\ cmd.type \in ReadWriteType
    BY <1>1 DEF ReadWriteCommand, Command, CommandType, ReadWriteType, ReadType, WriteType
  <2>2. cmd.type # "REFRESH_BANK"
    BY <2>1 DEF ReadWriteType, ReadType, WriteType
  <2> QED BY <2>1, <2>2, BankRequestReady
<1>2. CASE cmd \in {PowerCommand(r) : r \in {q \in Rank : PowerUpdates}}
  <2>1. PICK r \in Rank : PowerUpdates /\ cmd = PowerCommand(r)
    BY <1>2
  <2>2. <<r, 0, 0>> \in Bank
    BY ProtocolAssumption DEF Bank
  <2>3. cmd \in Command /\ cmd.bank[1] = r /\ cmd.type = IF rank_is_sref[r] THEN "SREF_EXIT" ELSE "SREF_ENTER"
    BY <2>1, <2>2 DEF PowerCommand, RefreshCommand, NoCommand, Command, CommandType
  <2>4. CASE rank_is_sref[r]
    BY <2>3, <2>4, AsleepAborts
  <2>5. CASE ~rank_is_sref[r]
    BY <2>1, <2>3, <2>5, RankRequestReady DEF PowerUpdates
  <2> QED BY <2>4, <2>5
<1>3. CASE cmd \in FrontRefresh
  <2>1. cmd \in RefreshRequest
    BY <1>3 DEF ChannelInv, TypeOK, FrontRefresh
  <2>2. cmd \in Command /\ cmd.type \in {"REFRESH", "REFRESH_BANK"}
    BY <2>1 DEF RefreshRequest, RefreshType, Command, CommandType
  <2>3. CASE rank_is_sref[cmd.bank[1]]
    BY <2>2, <2>3, AsleepAborts
  <2>4. CASE ~rank_is_sref[cmd.bank[1]] /\ cmd.type = "REFRESH"
    BY <2>2, <2>4, RankRequestReady
  <2>5. CASE ~rank_is_sref[cmd.bank[1]] /\ cmd.type = "REFRESH_BANK"
    BY <2>2, <2>5, BankRequestReady
  <2> QED BY <2>2, <2>3, <2>4, <2>5
<1> QED BY <1>1, <1>2, <1>3 DEF Requested

-----------------------------------------------------------------------------
(* The three facts of the inductive invariant.                             *)
LEMMA ChannelInvInit ==
  Init => ChannelInv
<1> SUFFICES ASSUME Init PROVE ChannelInv
  OBVIOUS
<1>1. ClosedBank \in BankRecord /\ ClosedBank.state = "CLOSED"
  BY ProtocolAssumption DEF ClosedBank, BankRecord
<1>2. TypeOK
  <2>1. bank_states \in [Bank -> BankRecord]
    BY <1>1 DEF Init, ChannelInit
  <2>2. refresh_q \in Seq(RefreshRequest)
    BY DEF Init, ChannelInit
  <2>3. rank_is_sref \in [Rank -> BOOLEAN] /\ exited \in BOOLEAN
    BY DEF Init, ChannelInit
  <2>4. four_aw \in [Rank -> Seq(Nat)] /\ thirty_two_aw \in [Rank -> Seq(Nat)]
    BY DEF Init, ChannelInit
  <2> QED BY <2>1, <2>2, <2>3, <2>4 DEF TypeOK
<1>3. ExitsOnlyAsleep
  BY <1>1 DEF Init, ChannelInit, ExitsOnlyAsleep, Bank
<1> QED BY <1>2, <1>3 DEF ChannelInv

LEMMA NeedRefreshPreserves ==
  ASSUME ChannelInv, NeedRefresh
  PROVE  ChannelInv'
<1>1. PICK b \in Bank : refresh_q' = IF config.refresh_policy = "BANK_LEVEL_STAGGERED"
                                     THEN BankNeedRefresh(b) ELSE RankNeedRefresh(b[1])
  BY DEF NeedRefresh
<1>2. PICK new \in RefreshRequest : refresh_q' = Append(refresh_q, new)
  <2>1. <<b[1], 0, 0>> \in Bank
    BY ProtocolAssumption DEF Bank
  <2>2. RefreshCommand("REFRESH_BANK", b) \in RefreshRequest
    BY DEF RefreshCommand, NoCommand, RefreshRequest, RefreshType
  <2>3. RefreshCommand("REFRESH", <<b[1], 0, 0>>) \in RefreshRequest
    BY <2>1 DEF RefreshCommand, NoCommand, RefreshRequest, RefreshType
  <2> QED BY <1>1, <2>2, <2>3 DEF BankNeedRefresh, RankNeedRefresh
<1>3. refresh_q \in Seq(RefreshRequest)
  BY DEF ChannelInv, TypeOK
<1>4. TypeOK'
  <2>1. refresh_q' \in Seq(RefreshRequest)
    BY <1>2, <1>3
  <2> QED BY <2>1 DEF ChannelInv, TypeOK, NeedRefresh
<1>5. ExitsOnlyAsleep'
  BY DEF ChannelInv, ExitsOnlyAsleep, NeedRefresh
<1> QED BY <1>4, <1>5 DEF ChannelInv

(* A bank after a cycle: its times are counted down and nothing else.      *)
LEMMA BankTickType ==
  ASSUME NEW b \in BankRecord
  PROVE  /\ BankTick(b) \in BankRecord
         /\ BankTick(b).state = b.state
         /\ \A t \in CommandType : BankTick(b).cmd_timing[t] = CountDown(b.cmd_timing[t])
<1>1. [t \in CommandType |-> CountDown(b.cmd_timing[t])] \in [CommandType -> Nat]
  BY DEF BankRecord, CountDown
<1> QED BY <1>1 DEF BankTick, BankRecord

LEMMA TickPreserves ==
  ASSUME ChannelInv, Tick
  PROVE  ChannelInv'
<1>1. \A b \in Bank : /\ bank_states'[b] \in BankRecord
                      /\ bank_states'[b].state = bank_states[b].state
  BY BankTickType DEF ChannelInv, TypeOK, Tick, ChannelTick
<1>2. TypeOK'
  <2>1. bank_states' \in [Bank -> BankRecord]
    BY <1>1 DEF Tick, ChannelTick
  <2>2. four_aw' \in [Rank -> Seq(Nat)] /\ thirty_two_aw' \in [Rank -> Seq(Nat)]
    BY WindowType DEF ChannelInv, TypeOK, Tick, ChannelTick
  <2> QED BY <2>1, <2>2 DEF ChannelInv, TypeOK, Tick, ChannelTick
<1>3. ExitsOnlyAsleep'
  BY <1>1 DEF ChannelInv, ExitsOnlyAsleep, Tick, ChannelTick
<1> QED BY <1>2, <1>3 DEF ChannelInv

(* An issued command is a ready one, or the process ends.                  *)
Ends(cmd) ==
  /\ GetReadyCommand(cmd).type = "ABORT"
  /\ rank_is_sref[cmd.bank[1]]
  /\ exited' = TRUE
  /\ UNCHANGED <<bank_states, refresh_q, rank_is_sref, four_aw, thirty_two_aw>>

LEMMA IssuedReady ==
  ASSUME ChannelInv, NEW cmd \in Requested, Issue(cmd)
  PROVE  /\ cmd \in Command
         /\ \/ /\ Ready(cmd, GetReadyCommand(cmd))
               /\ UpdateTimingAndStates(GetReadyCommand(cmd))
            \/ Ends(cmd)
<1>1. GetReadyCommand(cmd).type # "SIZE"
  BY DEF Issue
<1>2. cmd \in Command
  BY <1>1, RequestReady
<1>3. CASE Ready(cmd, GetReadyCommand(cmd))
  BY <1>2, <1>3 DEF Issue, Ready
<1>4. CASE GetReadyCommand(cmd).type = "ABORT" /\ rank_is_sref[cmd.bank[1]]
  BY <1>2, <1>4 DEF Issue, Ends
<1> QED BY <1>1, <1>3, <1>4, RequestReady

LEMMA EndPreserves ==
  ASSUME ChannelInv, NEW cmd \in Command, Ends(cmd)
  PROVE  ChannelInv'
<1>1. TypeOK'
  BY DEF Ends, ChannelInv, TypeOK
<1>2. cmd.bank[1] \in Rank
  BY DEF Command, Bank
<1>3. ExitsOnlyAsleep'
  BY <1>2 DEF Ends, ChannelInv, ExitsOnlyAsleep
<1> QED BY <1>1, <1>3 DEF ChannelInv

LEMMA ChannelInvNext ==
  ChannelInv /\ [Next]_channelVars => ChannelInv'
<1> SUFFICES ASSUME ChannelInv, [Next]_channelVars PROVE ChannelInv'
  OBVIOUS
<1>1. ASSUME NEW cmd \in Requested, Issue(cmd) PROVE ChannelInv'
  BY <1>1, IssuedReady, UpdatePreserves, EndPreserves DEF Ready
<1>2. CASE NeedRefresh
  BY <1>2, NeedRefreshPreserves
<1>3. CASE Tick
  BY <1>3, TickPreserves
<1>4. CASE UNCHANGED channelVars
  BY <1>4 DEF channelVars, ChannelInv, TypeOK, ExitsOnlyAsleep
<1> QED BY <1>1, <1>2, <1>3, <1>4 DEF Next

(* For every configuration, whatever the numbers of ranks, banks and rows, *)
(* the timing parameters and the order of the requests: BankState meets a  *)
(* command it answers with AbruptExit only while a rank sleeps, and the    *)
(* banks of a rank are in self refresh together exactly when rank_is_sref_ *)
(* says so.                                                                *)
THEOREM ChannelExitsOnlyAsleep == Spec => [](TypeOK /\ ExitsOnlyAsleep)
<1>1. Init => ChannelInv
  BY ChannelInvInit
<1>2. ChannelInv /\ [Next]_channelVars => ChannelInv'
  BY ChannelInvNext
<1>3. ChannelInv => TypeOK /\ ExitsOnlyAsleep
  BY DEF ChannelInv
<1> QED BY <1>1, <1>2, <1>3, PTL DEF Spec

(* A channel whose configuration leaves self refresh off, as every         *)
(* configuration does unless it says otherwise, never calls AbruptExit,    *)
(* whatever is asked of it and in whatever order.                          *)
THEOREM NeverExitsWithoutSelfRefresh ==
  ASSUME ~config.enable_self_refresh
  PROVE  Spec => []~exited
<1>1. TypeOK /\ ExitsOnlyAsleep => ~exited
  BY DEF TypeOK, ExitsOnlyAsleep
<1> QED BY <1>1, ChannelExitsOnlyAsleep, PTL
=============================================================================
