-------------------------- MODULE MCMemoryInterface --------------------------
(* Two cores and stacks.  Addresses 0 and 4 are two local addresses of     *)
(* stack 0, address 2 is in stack 1: every core has local and remote reads *)
(* and several readers can wait for one address.                           *)
EXTENDS MemoryInterface

MCAddress == {0, 2, 4}
MCSubmission == {<< 0, 0 >>, << 2, 0 >>, << 4 >>}
=============================================================================
