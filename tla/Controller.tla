------------------------------ MODULE Controller ------------------------------
(***************************************************************************)
(* A memory controller (controller.cc) with the part of JedecDRAMSystem    *)
(* that drives it (dram_system.cc): transactions are accepted between      *)
(* clock ticks, and a tick runs through the phases below, in this order.   *)
(* One channel is modelled; the channels of a system share nothing but the *)
(* clock. A transaction is <<address, is_write>>.                          *)
(***************************************************************************)
EXTENDS Refresh, CommandQueue

CONSTANT MaxOutstanding    \* bound on the transactions accepted and not yet answered

ASSUME ControllerAssumption ==
  /\ config.trans_queue_size \in Nat \ {0} /\ config.cmd_queue_size \in Nat \ {0}
  /\ config.tREFI \div config.ranks > 0 /\ config.tREFIb > 0
  /\ config.enable_hbm_dual_cmd => IsHBM

Address == DOMAIN Location

VARIABLES phase,             \* where ClockTick is; "idle" between ticks
          trans_queue,       \* unified_queue_, read_queue_ and write_buffer_
          pending_rd,        \* pending_rd_q_: how many reads of an address wait
          pending_wr,        \* pending_wr_q_: the addresses with a write that waits
          return_queue,      \* the answers to give, with the cycles left
          write_draining,    \* writes left to drain
          rank_idle_cycles   \* idle cycles of a rank, counted up to sref_threshold

transVars == <<trans_queue, pending_rd, pending_wr, return_queue, write_draining>>
vars == <<channelVars, refreshVars, queueVars, transVars, phase, rank_idle_cycles>>

Init ==
  /\ ChannelInit /\ RefreshInit /\ CommandQueueInit
  /\ phase = "idle"
  /\ trans_queue = [q \in {"unified", "read", "write"} |-> <<>>]
  /\ pending_rd = [a \in Address |-> 0]
  /\ pending_wr = {}
  /\ return_queue = <<>>
  /\ write_draining = 0
  /\ rank_idle_cycles = [r \in Rank |-> 0]

QueueFor(is_write) == CASE config.unified_queue -> "unified"
                        [] ~config.unified_queue /\ is_write -> "write"
                        [] ~config.unified_queue /\ ~is_write -> "read"

WillAcceptTransaction(is_write) == Len(trans_queue[QueueFor(is_write)]) < config.trans_queue_size

Done(a, is_write, left) == [addr |-> a, is_write |-> is_write, left |-> left]

(* A write is answered in the next cycle, and merges with one that waits.  *)
(* A read of an address with a write that waits is answered from it.       *)
AddWrite(a) ==
  /\ pending_wr' = pending_wr \cup {a}
  /\ trans_queue' = IF a \in pending_wr THEN trans_queue
                    ELSE [trans_queue EXCEPT ![QueueFor(TRUE)] = Append(@, <<a, TRUE>>)]
  /\ return_queue' = Append(return_queue, Done(a, TRUE, 1))
  /\ UNCHANGED pending_rd

AddRead(a) ==
  \/ /\ a \in pending_wr
     /\ return_queue' = Append(return_queue, Done(a, FALSE, 1))
     /\ UNCHANGED <<trans_queue, pending_rd, pending_wr>>
  \/ /\ a \notin pending_wr
     /\ pending_rd' = [pending_rd EXCEPT ![a] = @ + 1]
     /\ trans_queue' = IF pending_rd[a] > 0 THEN trans_queue
                       ELSE [trans_queue EXCEPT ![QueueFor(FALSE)] = Append(@, <<a, FALSE>>)]
     /\ UNCHANGED <<pending_wr, return_queue>>

InFlight == Len(return_queue) + FoldSet(LAMBDA a, n : pending_rd[a] + n, 0, Address)

AddTransaction(a, is_write) ==
  /\ phase = "idle" /\ ~exited
  /\ InFlight < MaxOutstanding
  /\ WillAcceptTransaction(is_write)
  /\ IF is_write THEN AddWrite(a) ELSE AddRead(a)
  /\ UNCHANGED <<channelVars, refreshVars, queueVars, phase, write_draining, rank_idle_cycles>>

(* JedecDRAMSystem::ClockTick: the answers that are due go to the client,  *)
(* one callback at a time, then the controller ticks.                      *)
DueAnswers == {i \in 1 .. Len(return_queue) : return_queue[i].left = 0}

ReturnDoneTrans ==
  /\ phase \in {"idle", "return"} /\ ~exited
  /\ DueAnswers # {}
  /\ return_queue' = RemoveAt(return_queue, Min(DueAnswers))
  /\ phase' = "return"
  /\ UNCHANGED <<channelVars, refreshVars, queueVars, trans_queue, pending_rd, pending_wr,
                 write_draining, rank_idle_cycles>>

UpdateRefresh ==
  /\ phase \in {"idle", "return"} /\ ~exited
  /\ DueAnswers = {}
  /\ RefreshTick
  /\ phase' = "issue"
  /\ UNCHANGED <<bank_states, rank_is_sref, four_aw, thirty_two_aw, exited, queueVars, transVars,
                 rank_idle_cycles>>

(* Mutant: of the reads that merged only one is answered.                  *)
AnswersOne(a, reads) == [i \in 1 .. Min({reads, 1}) |-> Done(a, FALSE, read_delay)]
Answers(a, reads) == [i \in 1 .. reads |-> Done(a, FALSE, read_delay)]

(* IssueCommand, whose command may be the AbruptExit of the request before *)
(* it; a read or write that is not pending ends the process too.           *)
IssueCommand(cmd) ==
  LET a == cmd.addr  reads == IF cmd.type \in ReadType THEN pending_rd[a] ELSE 0
      unknown == \/ cmd.type = "ABORT"
                 \/ cmd.type \in ReadType /\ reads = 0
                 \/ cmd.type \in WriteType /\ a \notin pending_wr
  IN  IF unknown
      THEN exited' = TRUE /\ UNCHANGED <<bank_states, refresh_q, rank_is_sref, four_aw, thirty_two_aw,
                                         pending_rd, pending_wr, return_queue>>
      ELSE /\ pending_rd' = IF reads > 0 THEN [pending_rd EXCEPT ![a] = 0] ELSE pending_rd
           /\ pending_wr' = IF cmd.type \in WriteType THEN pending_wr \ {a} ELSE pending_wr
           /\ return_queue' = return_queue \o Answers(a, reads)
           /\ UpdateTimingAndStates(cmd)

(* The first command of a cycle is one that gets a waiting refresh on, and *)
(* otherwise the choice of the queues.                                     *)
FirstCommand(ref) ==
  IF ref.type # "SIZE" THEN [cmd |-> ref, idx |-> queue_idx] ELSE GetCommandToIssue(HeldQueues)

IssueFirst ==
  /\ phase = "issue" /\ ~exited
  /\ \E ref \in {PendingRefCommand} : \E picked \in {FirstCommand(ref)} :
       /\ IF picked.cmd.type = "SIZE"
          THEN UNCHANGED <<channelVars, transVars, queues, queue_idx>> /\ phase' = "quiet"
          ELSE /\ IssueCommand(picked.cmd)
               /\ queues' = EraseRWCommand(picked.cmd)
               /\ queue_idx' = picked.idx
               /\ phase' = CASE ~config.enable_hbm_dual_cmd -> "busy"
                             [] config.enable_hbm_dual_cmd /\ picked.cmd.type \in ReadWriteType -> "rw"
                             [] config.enable_hbm_dual_cmd /\ picked.cmd.type \notin ReadWriteType -> "not rw"
               /\ UNCHANGED <<trans_queue, write_draining>>
       /\ ref_q_indices' = IF ref.type \in RefreshType THEN {} ELSE HeldQueues
  /\ UNCHANGED <<refreshVars, rank_q_empty, rank_idle_cycles>>

(* HBM issues a second command in the cycle if exactly one of the two is a *)
(* read or write. GetCommandToIssue has already taken it from its queue.   *)
IssueSecond ==
  /\ phase \in {"rw", "not rw"} /\ ~exited
  /\ \E picked \in {GetCommandToIssue(ref_q_indices)} :
       LET second == (picked.cmd.type \in ReadWriteType) # (phase = "rw")
       IN  /\ IF picked.cmd.type = "ABORT" \/ (picked.cmd.type # "SIZE" /\ second)
              THEN IssueCommand(picked.cmd)
              ELSE UNCHANGED <<channelVars, pending_rd, pending_wr, return_queue>>
           /\ queues' = EraseRWCommand(picked.cmd)
           /\ queue_idx' = picked.idx
  /\ phase' = "busy"
  /\ UNCHANGED <<refreshVars, ref_q_indices, rank_q_empty, rank_idle_cycles, trans_queue, write_draining>>

(* Power updates: idle ranks are put to sleep and woken up, at most one    *)
(* rank per cycle, in a cycle that issued nothing else.                    *)
IdleCycles == [r \in Rank |->
  CASE rank_is_sref[r] -> rank_idle_cycles[r]
    [] ~rank_is_sref[r] /\ ~IsAllBankIdleInRank(r) -> 0
    [] OTHER -> Min({rank_idle_cycles[r] + 1, config.sref_threshold})]

PowerCommand(r) ==
  LET ask(type) == GetReadyCommand(RefreshCommand(type, <<r, 0, 0>>))
  IN  CASE rank_is_sref[r] /\ ~rank_q_empty[r] -> ask("SREF_EXIT")
        [] ~rank_is_sref[r] /\ rank_q_empty[r] /\ IdleCycles[r] >= config.sref_threshold -> ask("SREF_ENTER")
        [] OTHER -> NoCommand

PowerUpdate ==
  LET ready == {r \in Rank : PowerCommand(r).type # "SIZE"}
  IN  /\ phase \in {"busy", "quiet"} /\ ~exited
      /\ rank_idle_cycles' = IdleCycles
      /\ IF config.enable_self_refresh /\ phase = "quiet" /\ ready # {}
         THEN IssueCommand(PowerCommand(Min(ready)))
         ELSE UNCHANGED <<channelVars, pending_rd, pending_wr, return_queue>>
      /\ phase' = "schedule"
      /\ UNCHANGED <<refreshVars, queueVars, trans_queue, write_draining>>

TransToCommand(t) ==
  [type |-> IF t[2] THEN IF config.close_page THEN "WRITE_PRECHARGE" ELSE "WRITE"
                    ELSE IF config.close_page THEN "READ_PRECHARGE" ELSE "READ",
   bank |-> Location[t[1]].bank, row |-> Location[t[1]].row, addr |-> t[1]]

(* ScheduleTransaction moves the head of one transaction queue, if its     *)
(* command queue has room. Draining starts when the write buffer is full,  *)
(* or holds more than config.drain_threshold (8) while no command waits.   *)
Draining ==
  LET writes == Len(trans_queue["write"])
  IN  IF /\ write_draining = 0 /\ ~config.unified_queue
         /\ \/ writes >= config.trans_queue_size
            \/ writes > config.drain_threshold /\ QueueEmpty
      THEN writes ELSE write_draining

(* The R->W dependency of split queues. Mutant: not enforced.              *)
NoReadPending(cmd) == TRUE
ReadsDone(cmd) == pending_rd[cmd.addr] = 0

ScheduleTransaction ==
  LET q == IF Draining > 0 THEN QueueFor(TRUE) ELSE QueueFor(FALSE)
      cmd == TransToCommand(Head(trans_queue[q]))
      drained == ~config.unified_queue /\ cmd.type \in WriteType
      blocked == drained /\ ~ReadsDone(cmd)
  IN  IF trans_queue[q] # <<>> /\ WillAcceptCommand(cmd) /\ ~blocked
      THEN /\ AddCommand(cmd)
           /\ trans_queue' = [trans_queue EXCEPT ![q] = Tail(@)]
           /\ write_draining' = IF drained THEN Draining - 1 ELSE Draining
      ELSE /\ write_draining' = IF trans_queue[q] # <<>> /\ WillAcceptCommand(cmd) THEN 0 ELSE Draining
           /\ UNCHANGED <<queues, rank_q_empty, trans_queue>>

Schedule ==
  /\ phase = "schedule" /\ ~exited
  /\ ScheduleTransaction
  /\ ChannelTick
  /\ return_queue' = [i \in DOMAIN return_queue |-> [return_queue[i] EXCEPT !.left = CountDown(@)]]
  /\ phase' = "idle"
  /\ UNCHANGED <<refresh_q, refreshVars, queue_idx, ref_q_indices, pending_rd, pending_wr, rank_idle_cycles>>

ClockTick == ReturnDoneTrans \/ UpdateRefresh \/ IssueFirst \/ IssueSecond \/ PowerUpdate \/ Schedule

Next == ClockTick \/ \E a \in Address, is_write \in BOOLEAN : AddTransaction(a, is_write)

Spec == Init /\ [][Next]_vars

(* The simulator's main loop ticks the memory for ever, and ClockTick runs *)
(* to its end: it stays in no phase. Only the actions of ClockTick change  *)
(* the phase, and one of them always can unless the process has exited, so *)
(* this is weak fairness of ClockTick.                                     *)
Phase == {"idle", "return", "issue", "rw", "not rw", "busy", "quiet", "schedule"}
PhaseEnds == ~exited /\ phase' \in Phase \ {phase}
FairSpec == Spec /\ WF_phase(PhaseEnds)

-----------------------------------------------------------------------------
(* The pending maps and the queues agree: an address with reads (a write)  *)
(* pending has exactly one read (write) on its way, in a transaction queue *)
(* or in a command queue, and no other has one. A merged read is answered  *)
(* by that one; without it the answer would never come, with two the       *)
(* second would end in "not in read queue!".                               *)
OneOnItsWay ==
  ~exited => \A a \in Address, w \in BOOLEAN :
    LET waiting == UNION {{<<q, i>> : i \in {j \in DOMAIN trans_queue[q] : trans_queue[q][j] = <<a, w>>}} :
                            q \in DOMAIN trans_queue}
        queued == UNION {{<<q, i>> : i \in {j \in DOMAIN queues[q] : /\ queues[q][j].addr = a
                                                                  /\ (queues[q][j].type \in WriteType) = w}} :
                           q \in DOMAIN queues}
    IN  Cardinality(waiting) + Cardinality(queued)
          = IF (w /\ a \in pending_wr) \/ (~w /\ pending_rd[a] > 0) THEN 1 ELSE 0

(* command_queue.cc:220-221, "Read after write has been checked in         *)
(* controller so we only check write after read here": of two accesses to  *)
(* the same location, one of which writes, the one queued first is issued  *)
(* first.                                                                  *)
SameLocationInOrder ==
  [][\A q \in DOMAIN queues : Len(queues'[q]) < Len(queues[q]) =>
       \E i \in DOMAIN queues[q] :
         /\ queues'[q] = RemoveAt(queues[q], i)
         /\ \A j \in 1 .. i - 1 : SameLocation(queues[q][i], queues[q][j]) =>
              {queues[q][i].type, queues[q][j].type} \subseteq ReadType]_vars

(* controller.cc:215, "Enforce R->W dependency": a write is not issued     *)
(* before a read of its address that was accepted earlier. (A read that is *)
(* accepted later is answered from the write and never becomes pending.)   *)
ReadsBeforeWrites == [][\A a \in pending_wr \ pending_wr' : pending_rd[a] = 0]_vars

(* command_queue.cc:60, "so we simply implement an ASAP approach": however *)
(* many reads and writes arrive, a refresh is issued before the next one   *)
(* of the same bank or rank is due, and no two of them ever wait.          *)
RefreshesDoNotPileUp ==
  \A i, j \in DOMAIN refresh_q : i # j => refresh_q[i] # refresh_q[j]

(* refresh.cc:40, "Staggered all rank refresh": a rank that does not sleep *)
(* is refreshed again and again, however busy it and the others are. The   *)
(* step is the issue of the refresh: a refresh that waits leaves refresh_q *)
(* in no other way.                                                        *)
RefreshIssued(r) == /\ refresh_q # <<>>
                    /\ refresh_q[1].bank[1] = r
                    /\ refresh_q' = Tail(refresh_q)
EveryRankRefreshed == \A r \in Rank : []<>(rank_is_sref[r]) \/ []<><<RefreshIssued(r)>>_refresh_q

(* controller.cc:116, "wake up!": a rank that sleeps is woken when a       *)
(* command is queued for it.                                               *)
SleepingRankWakes == \A r \in Rank : rank_is_sref[r] /\ ~rank_q_empty[r] ~> ~rank_is_sref[r]

(* The controller is a MemoryService: what it accepts is answered exactly  *)
(* once, and eventually, although reads merge, reads are answered from     *)
(* writes that wait, and row hits overtake older requests.                 *)
Memory == INSTANCE MemoryService WITH
  Transaction <- Address \X BOOLEAN, Depth <- MaxOutstanding, callback <- phase = "return",
  outstanding <- [t \in Address \X BOOLEAN |->
    (IF t[2] THEN 0 ELSE pending_rd[t[1]])
      + Cardinality({i \in DOMAIN return_queue : <<return_queue[i].addr, return_queue[i].is_write>> = t})]
AnswersOnce == Memory!Spec
AnswersAll == Memory!EventuallyAnswered

(* The controller uses its channel as CommandProtocol says, the requests   *)
(* that end the process included: what is proved and checked of that       *)
(* module holds of the banks here.                                         *)
Protocol == INSTANCE CommandProtocol WITH
  Row <- {Location[a].row : a \in Address}, MaxRefreshes <- config.ranks * banks
FollowsProtocol == Protocol!Spec
=============================================================================
