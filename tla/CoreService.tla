---------------------------- MODULE CoreService ----------------------------
(***************************************************************************)
(* What an ANNACore promises to MultiANNA, counting places: a place is one *)
(* query of the query set of one slice.  The core starts and saves its     *)
(* total places batch by batch, has at most three batches in flight, and   *)
(* sets Finished with the save of the last place.  AnnaCore implements     *)
(* this, and MultiAnna is built on it.                                     *)
(***************************************************************************)
EXTENDS Integers

CONSTANT BatchSize

(* How far the start of a batch, and the save of one, may bring a core.    *)
Starts(total, started, saved) ==
  {n \in started + 1 .. started + BatchSize : n <= total /\ n - saved <= 3 * BatchSize}

Saves(started, saved) == {n \in saved + 1 .. saved + BatchSize : n <= started}

VARIABLES total,         \* places of the core's query sets
          started,       \* places with a start clock
          saved,         \* places with an end clock
          finished       \* Finished

serviceVars == << total, started, saved, finished >>

ServiceInit == total \in Nat /\ started = 0 /\ saved = 0 /\ finished = FALSE

Start == /\ started' \in Starts(total, started, saved)
         /\ UNCHANGED << total, saved, finished >>

SaveBatch == /\ saved' \in Saves(started, saved)
             /\ finished' = (saved' = total)
             /\ UNCHANGED << total, started >>

ServiceSpec == ServiceInit /\ [][Start \/ SaveBatch]_serviceVars
=============================================================================
