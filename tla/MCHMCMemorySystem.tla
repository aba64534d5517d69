--------------------------- MODULE MCHMCMemorySystem ---------------------------
(* Two addresses whose vaults are in different quadrants; one of them is   *)
(* read and written, the other only read.                                  *)
EXTENDS HMCMemorySystem, TLC

CONSTANTS a1, a2

MCTwoQuads == a1 :> 0 @@ a2 :> 1
MCMixed == [addr : Address, is_write : BOOLEAN] \ [addr : {a2}, is_write : {TRUE}]
=============================================================================
