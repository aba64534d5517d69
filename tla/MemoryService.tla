----------------------------- MODULE MemoryService -----------------------------
(***************************************************************************)
(* What a memory promises to its clients, whatever it is made of: every    *)
(* transaction it accepts is answered, once. Nothing is said of order.     *)
(***************************************************************************)
EXTENDS Naturals

CONSTANTS Transaction,    \* what can be asked: an address and whether it is written
          Depth           \* bound on the transactions in flight

VARIABLES outstanding,    \* how many of each were accepted and not answered
          callback        \* the last step called the client back

vars == <<outstanding, callback>>

Init == outstanding = [t \in Transaction |-> 0] /\ callback = FALSE

Accept(t) == /\ outstanding[t] < Depth
             /\ outstanding' = [outstanding EXCEPT ![t] = @ + 1]
             /\ callback' = FALSE
Answer(t) == /\ outstanding[t] > 0
             /\ outstanding' = [outstanding EXCEPT ![t] = @ - 1]
             /\ callback' = TRUE
Work == callback' = FALSE /\ UNCHANGED outstanding

Next == Work \/ \E t \in Transaction : Accept(t) \/ Answer(t)

Spec == Init /\ [][Next]_vars

(* Every transaction that stays in flight is answered again and again      *)
(* (weak fairness of Answer, with the condition that enables it spelled    *)
(* out).                                                                   *)
Answered(t) == []<>(outstanding[t] = 0) \/ []<><<Answer(t)>>_vars
EventuallyAnswered == \A t \in Transaction : Answered(t)
=============================================================================
