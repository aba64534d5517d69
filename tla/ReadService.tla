----------------------------- MODULE ReadService -----------------------------
(***************************************************************************)
(* What the memory promises to the readers of the cores: every read a      *)
(* reader requests is answered to that reader, once, in any order and      *)
(* after any delay.  This is the memory AnnaCore assumes, and              *)
(* MemoryInterface implements it.                                          *)
(***************************************************************************)
EXTENDS Integers

CONSTANT Id              \* the readers

VARIABLES outstanding,   \* reads requested and not answered, per reader
          answered       \* answers the reader has not taken, per reader

serviceVars == << outstanding, answered >>

ServiceInit == outstanding = [i \in Id |-> 0] /\ answered = [i \in Id |-> 0]

Request(i) == /\ outstanding' = [outstanding EXCEPT ![i] = @ + 1]
              /\ UNCHANGED answered

Answer(i) == /\ outstanding[i] > 0
             /\ outstanding' = [outstanding EXCEPT ![i] = @ - 1]
             /\ answered' = [answered EXCEPT ![i] = @ + 1]

Take(i) == /\ answered' = [answered EXCEPT ![i] = 0]
           /\ UNCHANGED outstanding

ServiceNext == \E i \in Id : Request(i) \/ Answer(i) \/ Take(i)

ServiceSpec == ServiceInit /\ [][ServiceNext]_serviceVars
=============================================================================
