-------------------------- MODULE AddressStackMaper --------------------------
(***************************************************************************)
(* AddressStackMaper (multi_anna/utils.hpp): splits an address into the    *)
(* memory stack that holds it and its address within that stack, by taking *)
(* the stack bits out of the middle of the address.  LowSize is 2^l_pos    *)
(* (2^16 in the code), StackNum is 2^(r_pos - l_pos) (2^3 in the code).    *)
(***************************************************************************)
EXTENDS Integers

CONSTANTS LowSize, StackNum

ASSUME MaperAssumption == LowSize \in Nat \ {0} /\ StackNum \in Nat \ {0}

Stack == 0 .. StackNum - 1

(* Mutant: the mask of the stack bits one too small.                       *)
StackOfNarrow(x) == (x \div LowSize) % (StackNum - 1)

(* map(x): the stack of address x and its address in that stack.           *)
StackOf(x) == (x \div LowSize) % StackNum
AddrOf(x) == (x % LowSize) + LowSize * (x \div (LowSize * StackNum))

(* The address that is addr in stack st.                                   *)
Unmap(st, addr) == (addr % LowSize) + LowSize * (st + StackNum * (addr \div LowSize))
=============================================================================
