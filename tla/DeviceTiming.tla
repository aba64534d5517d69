----------------------------- MODULE DeviceTiming -----------------------------
(***************************************************************************)
(* The rules a DRAM device imposes on the commands of a channel, over      *)
(* history variables that the code does not have. They are stated from the *)
(* meaning of the timing parameters and not from the tables of Timing.     *)
(***************************************************************************)
EXTENDS CommandProtocol

VARIABLES issued,     \* the command of the last step, NoCommand if it issued none
          bus,        \* the coming cycles (0 is now) in which data is on the bus
          acts,       \* per rank, the cycles left in the windows of its last ACTIVATEs
          hold        \* per bank, the cycles for which ACTIVATE (act), a transfer (data)
                      \* and a REFRESH (ref) still occupy it

vars == <<channelVars, issued, bus, acts, hold>>

TimedInit ==
  /\ Init
  /\ issued = NoCommand
  /\ bus = {}
  /\ acts = [r \in Rank |-> <<>>]
  /\ hold = [b \in Bank |-> [act |-> 0, data |-> 0, ref |-> 0]]

Transfer(cmd) ==
  LET start == IF cmd.type \in ReadType THEN RL ELSE WL
  IN  IF cmd.type \in ReadWriteType THEN start .. start + config.burst_cycle - 1 ELSE {}

(* The cycles from a transfer to the end of a precharge after it.          *)
Recovery(cmd) ==
  CASE cmd.type \in ReadType -> config.AL + config.tRTP + config.tRP
    [] cmd.type \in WriteType -> WL + config.burst_cycle + config.tWR + config.tRP
    [] OTHER -> 0

RefreshTime(cmd) == IF cmd.type = "REFRESH" THEN config.tRFC ELSE 0

Remember(cmd) ==
  /\ issued' = cmd
  /\ bus' = bus \cup Transfer(cmd)
  /\ acts' = IF cmd.type # "ACTIVATE" THEN acts
             ELSE [acts EXCEPT ![cmd.bank[1]] =
                     Append(IF Len(@) > config.activates THEN Tail(@) ELSE @, config.tFAW)]
  /\ hold' = [b \in Bank |-> IF b \notin Addressed(cmd) THEN hold[b] ELSE
                [act |-> IF cmd.type = "ACTIVATE" THEN tRC ELSE hold[b].act,
                 data |-> Larger(hold[b].data, Recovery(cmd)),
                 ref |-> Larger(hold[b].ref, RefreshTime(cmd))]]

TimedIssue == \E cmd \in Requested : Issue(cmd) /\ Remember(GetReadyCommand(cmd))
TimedRequest == /\ NeedRefresh
                /\ issued' = NoCommand
                /\ UNCHANGED <<bus, acts, hold>>
TimedTick ==
  /\ Tick
  /\ issued' = NoCommand
  /\ bus' = {s - 1 : s \in bus \ {0}}
  /\ acts' = [r \in Rank |-> WindowTick(acts[r])]
  /\ hold' = [b \in Bank |-> [act |-> CountDown(hold[b].act), data |-> CountDown(hold[b].data),
                              ref |-> CountDown(hold[b].ref)]]

TimedNext == TimedIssue \/ TimedRequest \/ TimedTick
TimedSpec == TimedInit /\ [][TimedNext]_vars

-----------------------------------------------------------------------------
(* The activation window: no more than config.activates (4) ACTIVATEs of a *)
(* rank fall within any tFAW cycles, although UpdateActivationTimes drops  *)
(* at most one expired entry per ACTIVATE.                                 *)
ActivationsPerWindow ==
  \A r \in Rank : Len(acts[r]) > config.activates => acts[r][1] = 0

(* Two transfers never meet on the data bus of the channel, whatever their *)
(* directions, banks and ranks: the tables separate commands, and the      *)
(* latencies of reads and writes differ.                                   *)
DataBusExclusive ==
  [][Transfer(issued') \cap bus = {}]_vars

(* A row is closed only once its data is safe: no ACTIVATE, refresh or     *)
(* self refresh reaches a bank before the read or write recovery and the   *)
(* precharge after its last transfer are over. The PRECHARGE between them  *)
(* is what carries the delay from the transfer to the later command.       *)
DataRestored ==
  [][issued'.type \in IdleType \cup {"ACTIVATE"} =>
       \A b \in Addressed(issued') : hold[b].data = 0]_vars

(* timing.cc:50-51, "need to precharge before ref, so it's tRC": a refresh *)
(* reaches a bank no earlier than tRC after its ACTIVATE.                  *)
RefreshAfterRowCycle ==
  [][issued'.type \in RefreshType => \A b \in Addressed(issued') : hold[b].act = 0]_vars

(* timing.cc:56, "tRFC is defined as ref to act": after a refresh of its   *)
(* rank no bank is activated for tRFC. It says nothing of a refresh of one *)
(* bank: the wait tRFCb after that is entered in same_rank (timing.cc:225),*)
(* which channel_state.cc:149 does not consult for REFRESH_BANK, so the    *)
(* bank may be activated again in the next cycle.                          *)
ActivateAfterRefresh ==
  [][issued'.type = "ACTIVATE" => hold[issued'.bank].ref = 0]_vars
=============================================================================
