---------------------------- MODULE MemorySwitch ----------------------------
(***************************************************************************)
(* MemorySwitch (multi_anna/memory_switch.hpp): the crossbar between the   *)
(* cores and the memory stacks of other cores.  Every port has a queue of  *)
(* requests and one of responses on each side; a message is a pair of the  *)
(* port it goes to (before) or comes from (after the crossbar) and an      *)
(* address.                                                                *)
(***************************************************************************)
EXTENDS Integers, Sequences, SequencesExt

CONSTANTS PortNum,       \* number of ports, one per core and stack
          SwitchBatch    \* SWITCH_BATCH_SIZE, messages a port moves per tick; 2 in the code

ASSUME SwitchAssumption == PortNum \in Nat \ {0} /\ SwitchBatch \in Nat \ {0}

VARIABLES req_in, req_out, res_in, res_out

switchVars == << req_in, req_out, res_in, res_out >>

Port == 0 .. PortNum - 1

SwitchInit == /\ req_in = [p \in Port |-> << >>]
              /\ req_out = [p \in Port |-> << >>]
              /\ res_in = [p \in Port |-> << >>]
              /\ res_out = [p \in Port |-> << >>]

Taken(q) == SubSeq(q, 1, IF Len(q) < SwitchBatch THEN Len(q) ELSE SwitchBatch)
Left(q) == SubSeq(q, Len(Taken(q)) + 1, Len(q))

(* What arrives at port p in a tick, the ports served in order.            *)
Arriving(in, p) ==
  LET From(i) == LET sel == SelectSeq(Taken(in[i]), LAMBDA m : m[1] = p)
                 IN  [k \in DOMAIN sel |-> << i, sel[k][2] >>]
  IN  FlattenSeq([i \in 1 .. PortNum |-> From(i - 1)])

SwitchClockTick ==
  /\ req_in' = [p \in Port |-> Left(req_in[p])]
  /\ req_out' = [p \in Port |-> req_out[p] \o Arriving(req_in, p)]
  /\ res_in' = [p \in Port |-> Left(res_in[p])]
  /\ res_out' = [p \in Port |-> res_out[p] \o Arriving(res_in, p)]

(* Mutant: a request to another stack is lost.                             *)
sendReqLost(core, mem, addr) == UNCHANGED switchVars

sendReq(core, mem, addr) ==
  /\ req_in' = [req_in EXCEPT ![core] = Append(@, << mem, addr >>)]
  /\ UNCHANGED << req_out, res_in, res_out >>

(* getReq(mem) takes the request at the head; -1, no request, otherwise.   *)
getReq(mem) ==
  /\ req_out[mem] # << >>
  /\ req_out' = [req_out EXCEPT ![mem] = Tail(@)]
  /\ UNCHANGED << req_in, res_in, res_out >>

sendRes(mem, core, addr) ==
  /\ res_in' = [res_in EXCEPT ![mem] = Append(@, << core, addr >>)]
  /\ UNCHANGED << req_in, req_out, res_out >>

getRes(core) ==
  /\ res_out[core] # << >>
  /\ res_out' = [res_out EXCEPT ![core] = Tail(@)]
  /\ UNCHANGED << req_in, req_out, res_in >>
=============================================================================
