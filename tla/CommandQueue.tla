----------------------------- MODULE CommandQueue -----------------------------
(***************************************************************************)
(* The command queues of a controller and the choice of the command to     *)
(* issue (command_queue.cc): first ready, first come, round robin over the *)
(* queues, with the queues of a refreshing rank or bank held back.         *)
(***************************************************************************)
EXTENDS ChannelState, FiniteSetsExt

CONSTANT Location    \* Config::AddressMapping: address -> [bank, row, column]

VARIABLES queues,          \* the commands that wait, by queue index
          queue_idx,       \* the queue served last
          ref_q_indices,   \* the queues held back; is_in_ref_ is ref_q_indices # {}
          rank_q_empty     \* the ranks for which no command was ever queued

queueVars == <<queues, queue_idx, ref_q_indices, rank_q_empty>>

banks == config.bankgroups * config.banks_per_group
num_queues == IF config.per_rank THEN config.ranks ELSE banks * config.ranks
GetQueueIndex(b) == IF config.per_rank THEN b[1]
                    ELSE b[1] * banks + b[2] * config.banks_per_group + b[3]

CommandQueueInit ==
  /\ queues = [i \in 0 .. num_queues - 1 |-> <<>>]
  /\ queue_idx = 0
  /\ ref_q_indices = {}
  /\ rank_q_empty = [r \in Rank |-> TRUE]

WillAcceptCommand(cmd) == Len(queues[GetQueueIndex(cmd.bank)]) < config.cmd_queue_size
QueueEmpty == \A i \in DOMAIN queues : queues[i] = <<>>

AddCommand(cmd) ==
  /\ queues' = [queues EXCEPT ![GetQueueIndex(cmd.bank)] = Append(@, cmd)]
  /\ rank_q_empty' = [rank_q_empty EXCEPT ![cmd.bank[1]] = FALSE]

(* A row is closed for the i-th command of a queue only if no earlier one  *)
(* wants the bank, and then only if no later one hits the open row, or if  *)
(* config.row_hit_limit (4) commands already did.                          *)
ArbitratePrecharge(queue, i) ==
  LET b == queue[i].bank
  IN  /\ \A j \in 1 .. i - 1 : queue[j].bank # b
      /\ \/ \A j \in i .. Len(queue) : queue[j].bank # b \/ queue[j].row # bank_states[b].open_row
         \/ bank_states[b].row_hit_count >= config.row_hit_limit

(* A write waits for the reads of its location ahead of it in the queue.   *)
SameLocation(c, d) == /\ c.bank = d.bank /\ c.row = d.row
                      /\ Location[c.addr].column = Location[d.addr].column
(* Mutant: no dependency is found.                                         *)
NoRWDependency(queue, i) == FALSE
HasRWDependency(queue, i) ==
  \E j \in 1 .. i - 1 : queue[j].type \in ReadType /\ SameLocation(queue[j], queue[i])

(* GetFirstReadyInQueue: ready are the answers of GetReadyCommand to the   *)
(* commands of the queue.                                                  *)
FirstReady(queue, ready) ==
  LET passes(i) == /\ ready[i].type # "SIZE"
                   /\ ready[i].type = "PRECHARGE" => ArbitratePrecharge(queue, i)
                   /\ ready[i].type \in WriteType => ~HasRWDependency(queue, i)
      found == {i \in 1 .. Len(queue) : passes(i)}
  IN  IF found = {} THEN NoCommand ELSE ready[Min(found)]
GetFirstReadyInQueue(queue) == FirstReady(queue, [i \in 1 .. Len(queue) |-> GetReadyCommand(queue[i])])

(* GetCommandToIssue: the command to issue and the queue it comes from,    *)
(* given the first ready command of every queue, and skipping the queues   *)
(* held back.                                                              *)
RoundRobin(first, held) ==
  LET turn(k) == (queue_idx + k) % num_queues
      found == {k \in 1 .. num_queues : turn(k) \notin held /\ first[turn(k)].type # "SIZE"}
  IN  IF found = {} THEN [cmd |-> NoCommand, idx |-> queue_idx]
      ELSE [cmd |-> first[turn(Min(found))], idx |-> turn(Min(found))]
GetCommandToIssue(held) == RoundRobin([i \in DOMAIN queues |-> GetFirstReadyInQueue(queues[i])], held)

(* Mutant: the command stays in the queue.                                 *)
EraseNoCommand(cmd) == queues
EraseRWCommand(cmd) ==
  LET same(c) == c.addr = cmd.addr /\ c.type = cmd.type
  IN  IF cmd.type \in ReadWriteType
      THEN [queues EXCEPT ![GetQueueIndex(cmd.bank)] = RemoveFirstMatch(@, same)]
      ELSE queues

GetRefQIndices(ref) ==
  IF ref.type = "REFRESH" THEN {GetQueueIndex(b) : b \in RankBanks(ref.bank[1])}
                          ELSE {GetQueueIndex(ref.bank)}

(* FinishRefresh: the queues of the refresh that waits first are held back *)
(* until it is issued.                                                     *)
PendingRefCommand == IF refresh_q = <<>> THEN NoCommand ELSE GetReadyCommand(refresh_q[1])
(* Mutant: no queue is held back.                                          *)
NoQueue == {}
HeldQueues == IF refresh_q # <<>> /\ ref_q_indices = {} THEN GetRefQIndices(refresh_q[1]) ELSE ref_q_indices
=============================================================================
