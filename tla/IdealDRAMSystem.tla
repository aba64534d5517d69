--------------------------- MODULE IdealDRAMSystem ---------------------------
(***************************************************************************)
(* The memory that answers after a fixed latency (dram_system.cc). Of a    *)
(* transaction the buffer keeps the cycles it has still to wait.           *)
(***************************************************************************)
EXTENDS Naturals, Sequences, SequencesExt, FiniteSetsExt

CONSTANTS Transaction, latency,
          MaxBuffer        \* bound on the transactions in infinite_buffer_q_

VARIABLES infinite_buffer_q,
          answered         \* the calls back of the last ClockTick, in order

vars == <<infinite_buffer_q, answered>>

Init == infinite_buffer_q = <<>> /\ answered = <<>>

AddTransaction(t) ==
  /\ Len(infinite_buffer_q) < MaxBuffer
  /\ infinite_buffer_q' = Append(infinite_buffer_q, [trans |-> t, left |-> latency])
  /\ answered' = <<>>

Due == {i \in DOMAIN infinite_buffer_q : infinite_buffer_q[i].left = 0}

(* The transactions a ClockTick answers. They are due from the front, and  *)
(* the loop steps twice after it erases one: over the next one too.        *)
(* Mutant: it begins with the second.                                      *)
FromTheSecond == {i \in Due : i % 2 = 0}
Erased == {i \in Due : i % 2 = 1}

ClockTick ==
  LET keep == SetToSortSeq(DOMAIN infinite_buffer_q \ Erased, <)
      gone == SetToSortSeq(Erased, <)
      wait(i) == [infinite_buffer_q[i] EXCEPT !.left = IF @ > 0 THEN @ - 1 ELSE 0]
  IN  /\ infinite_buffer_q' = [k \in DOMAIN keep |-> wait(keep[k])]
      /\ answered' = [k \in DOMAIN gone |-> infinite_buffer_q[gone[k]].trans]

Next == ClockTick \/ \E t \in Transaction : AddTransaction(t)

Spec == Init /\ [][Next]_vars

-----------------------------------------------------------------------------
(* Every transaction is answered, although ClockTick passes over half of   *)
(* those that are due (so that the latency is not the fixed one of         *)
(* dram_system.h:76): the first of the buffer is never passed over.        *)
Waiting(t) == \E i \in DOMAIN infinite_buffer_q : infinite_buffer_q[i].trans = t
EveryTransactionAnswered ==
  \A t \in Transaction : []<>~Waiting(t) \/ []<>(\E k \in DOMAIN answered : answered[k] = t)
=============================================================================
