---------------------------- MODULE HMCMemorySystem ----------------------------
(***************************************************************************)
(* The hybrid memory cube (hmc.cc): requests enter by links, cross a       *)
(* crossbar to the quadrant of their vault, and the responses go back the  *)
(* same way. A vault is a controller; here it is the service that          *)
(* MemoryService states and Controller implements. ClockTick is cut where  *)
(* its functions begin. Times are kept as the cycles left, and logic_clk   *)
(* by its remainder, which is what arbitration reads.                      *)
(***************************************************************************)
EXTENDS Integers, Sequences, SequencesExt, FiniteSetsExt, Bags

CONSTANTS links, queue_depth, block_size, ps_per_dram, ps_per_logic,
          vault,            \* the vault of every address (GetChannel)
          Transaction,      \* what is asked: an address and whether it is written
          VaultDepth,       \* the transactions a vault holds
          MaxOutstanding,   \* bound on the transactions in flight, for each
          MaxAge            \* bound on the ages: a greater one is compared the same

Address == DOMAIN vault
Link == 0 .. links - 1
Quad == 0 .. 3

ASSUME HMCAssumption == /\ {links, queue_depth, VaultDepth, ps_per_logic} \subseteq Nat \ {0}
                        /\ ps_per_dram >= ps_per_logic
                        /\ MaxAge >= 4 /\ MaxAge >= links
                        /\ Transaction \subseteq [addr : Address, is_write : BOOLEAN]
                        /\ block_size \in {0, 32, 64, 128, 256}

VARIABLES phase,              \* the part of ClockTick that is next
          logic_clk, lag,     \* lag: logic_ps_ - dram_ps_
          next_link,
          link_req_queues, quad_req_queues, quad_resp_queues, link_resp_queues,
          link_busy, quad_busy, link_age_counter, quad_age_counter,
          resp_lookup_table,  \* by address, in the order of insertion
          vaults              \* the transactions in the vaults, counted

requestVars == <<link_req_queues, quad_req_queues, quad_busy, link_age_counter>>
responseVars == <<quad_resp_queues, link_resp_queues, link_busy, quad_age_counter>>
clockVars == <<logic_clk, lag>>
vars == <<phase, clockVars, next_link, requestVars, responseVars, resp_lookup_table, vaults>>

quad(addr) == vault[addr] % 4
Packets == IF block_size = 0 THEN 0 ELSE 1
RequestFlits(p) == IF p.is_write THEN Packets + block_size \div 16 ELSE Packets
ResponseFlits(p) == IF p.is_write THEN Packets ELSE Packets + block_size \div 16

Init ==
  /\ phase = "client" /\ logic_clk = 0 /\ lag = 0 /\ next_link = 0
  /\ link_req_queues = [l \in Link |-> <<>>] /\ link_resp_queues = [l \in Link |-> <<>>]
  /\ quad_req_queues = [q \in Quad |-> <<>>] /\ quad_resp_queues = [q \in Quad |-> <<>>]
  /\ link_busy = [l \in Link |-> 0] /\ link_age_counter = [l \in Link |-> 0]
  /\ quad_busy = [q \in Quad |-> 0] /\ quad_age_counter = [q \in Quad |-> 0]
  /\ resp_lookup_table = [a \in Address |-> <<>>]
  /\ vaults = [t \in Transaction |-> 0]

(* How many packets of a set of queues are of transaction t.               *)
In(queues, t) == MapThenSumSet(LAMBDA q : Len(SelectSeq(queues[q], LAMBDA p : p.addr = t.addr /\ p.is_write = t.is_write)),
                               DOMAIN queues)
Outstanding(t) == In(resp_lookup_table, t) + In(quad_resp_queues, t) + In(link_resp_queues, t)

HasRoom(queue) == Len(queue) < queue_depth

(* AddTransaction, InsertHMCReq and InsertReqToLink: the request takes the *)
(* first link with room, from next_link on.                                *)
WillAcceptTransaction == \E l \in Link : HasRoom(link_req_queues[l])

AddTransaction(t) ==
  LET ahead(i) == (next_link + i) % links
      room == {i \in Link : HasRoom(link_req_queues[ahead(i)])}
      link == ahead(Min(room))
      packet == [addr |-> t.addr, is_write |-> t.is_write, link |-> link, exit |-> 0]
  IN  /\ phase = "client"
      /\ Outstanding(t) < MaxOutstanding
      /\ WillAcceptTransaction
      /\ link_req_queues' = [link_req_queues EXCEPT ![link] = Append(@, packet)]
      /\ resp_lookup_table' = [resp_lookup_table EXCEPT ![t.addr] = Append(@, packet)]
      /\ link_age_counter' = [link_age_counter EXCEPT ![link] = 1]
      /\ next_link' = (link + 1) % links
      /\ UNCHANGED <<phase, clockVars, quad_req_queues, quad_busy, responseVars, vaults>>

(* Which queues send first. The age of a queue is compared with the index  *)
(* of another, not with its age (hmc.cc:601).                              *)
BuildAgeQueue(age) ==
  LET n == Cardinality(DOMAIN age)
      insert(q, pos) == LET younger == {j \in DOMAIN q : age[pos] > q[j]}
                        IN  IF younger = {} THEN Append(q, pos) ELSE InsertAt(q, Min(younger), pos)
      positions == [i \in 1 .. n |-> (i - 1 + logic_clk) % n]
  IN  FoldLeft(insert, <<>>, SelectSeq(positions, LAMBDA pos : age[pos] > 0))

(* Mutant: the age of a queue that is emptied is not reset.                *)
AgeKept(queue) == 1
AgeAfter(queue) == IF Len(queue) = 1 THEN 0 ELSE 1

(* A destination is busy for a cycle per two flits, and an odd number of   *)
(* them counts down to -1. Mutant: only 0 is free.                         *)
FreeAtZero(busy) == busy = 0
Free(busy) == busy <= 0

(* One turn of a crossbar x: the queues x.from, with their ages, send      *)
(* their first packet to x.to where it has room and is not busy.           *)
Send(x, src, dest(_), flits(_)) ==
  LET p == Head(x.from[src])
      d == dest(p)
  IN  IF HasRoom(x.to[d]) /\ Free(x.busy[d])
        THEN [from |-> [x.from EXCEPT ![src] = Tail(@)],
              to   |-> [x.to EXCEPT ![d] = Append(@, [p EXCEPT !.exit = flits(p)])],
              busy |-> [x.busy EXCEPT ![d] = flits(p)],
              age  |-> [x.age EXCEPT ![src] = AgeAfter(x.from[src])]]
        ELSE [x EXCEPT !.age[src] = Min({@ + 1, MaxAge})]

Crossbar(from, to, busy, age, dest(_), flits(_)) ==
  FoldLeft(LAMBDA x, src : Send(x, src, dest, flits),
           [from |-> from, to |-> to, age |-> age,
            busy |-> [d \in DOMAIN busy |-> IF busy[d] > 0 THEN busy[d] - 2 ELSE busy[d]]],
           BuildAgeQueue(age))

CountDown(queues) == [q \in DOMAIN queues |->
  [i \in DOMAIN queues[q] |-> [queues[q][i] EXCEPT !.exit = IF @ > 0 THEN @ - 1 ELSE 0]]]

(* ClockTick: the first logic cycle is shared with the DRAM cycle when     *)
(* the two clocks coincide.                                                *)
Tick == /\ phase = "client"
        /\ phase' = IF lag = 0 THEN "responses" ELSE "vaults"
        /\ UNCHANGED <<clockVars, next_link, requestVars, responseVars, resp_lookup_table, vaults>>

(* The callbacks are those of the packets that leave link_resp_queues.     *)
Leaving(l) == link_resp_queues[l] # <<>> /\ Head(link_resp_queues[l]).exit = 0

DrainResponses ==
  LET served == [l \in Link |-> IF Leaving(l) THEN Tail(link_resp_queues[l]) ELSE link_resp_queues[l]]
      x == Crossbar(quad_resp_queues, served, link_busy, quad_age_counter,
                    LAMBDA p : p.link, ResponseFlits)
  IN  /\ phase = "responses"
      /\ quad_resp_queues' = x.from /\ link_resp_queues' = x.to
      /\ link_busy' = x.busy /\ quad_age_counter' = x.age
      /\ phase' = IF lag = 0 THEN "vaults" ELSE "requests"
      /\ UNCHANGED <<clockVars, next_link, requestVars, resp_lookup_table, vaults>>

(* DRAMClockTick: the vaults answer what they like, and VaultCallback      *)
(* looks the response up by its address.                                   *)
VaultCallback(t) ==
  LET q == quad(t.addr)
  IN  /\ phase = "vaults"
      /\ vaults[t] > 0
      /\ vaults' = [vaults EXCEPT ![t] = @ - 1]
      /\ quad_resp_queues' = [quad_resp_queues EXCEPT ![q] = Append(@, Head(resp_lookup_table[t.addr]))]
      /\ resp_lookup_table' = [resp_lookup_table EXCEPT ![t.addr] = Tail(@)]
      /\ quad_age_counter' = [quad_age_counter EXCEPT ![q] = 1]
      /\ UNCHANGED <<phase, clockVars, next_link, requestVars, link_resp_queues, link_busy>>

VaultsDone == /\ phase = "vaults"
              /\ phase' = IF lag = 0 THEN "requests" ELSE "responses"
              /\ UNCHANGED <<clockVars, next_link, requestVars, responseVars, resp_lookup_table, vaults>>

(* Mutant: the request is passed to the vault and stays in its queue.      *)
EntersAgain(q) == quad_req_queues[q]
(* The quadrant queues pass their first request to its vault.              *)
Load(v) == MapThenSumSet(LAMBDA t : vaults[t], {t \in Transaction : vault[t.addr] = v})
Enters(q) == /\ quad_req_queues[q] # <<>>
             /\ HasRoom(quad_resp_queues[q])
             /\ Head(quad_req_queues[q]).exit = 0
             /\ Load(vault[Head(quad_req_queues[q]).addr]) < VaultDepth
AfterEntering(q) == Tail(quad_req_queues[q])

DrainRequests ==
  LET entering == {q \in Quad : Enters(q)}
      asked(t) == Cardinality({q \in entering : /\ Head(quad_req_queues[q]).addr = t.addr
                                                /\ Head(quad_req_queues[q]).is_write = t.is_write})
      left == [q \in Quad |-> IF q \in entering THEN AfterEntering(q) ELSE quad_req_queues[q]]
      x == Crossbar(link_req_queues, left, quad_busy, link_age_counter,
                    LAMBDA p : quad(p.addr), RequestFlits)
      logic == lag + ps_per_logic
  IN  /\ phase = "requests"
      /\ vaults' = [t \in Transaction |-> vaults[t] + asked(t)]
      /\ link_req_queues' = x.from /\ quad_req_queues' = CountDown(x.to)
      /\ quad_busy' = x.busy /\ link_age_counter' = x.age
      /\ link_resp_queues' = CountDown(link_resp_queues)
      /\ logic_clk' = (logic_clk + 1) % (IF 4 % links = 0 THEN 4 ELSE 4 * links)
      /\ IF logic < ps_per_dram THEN lag' = logic /\ phase' = "responses"
                                ELSE lag' = logic - ps_per_dram /\ phase' = "client"
      /\ UNCHANGED <<next_link, quad_resp_queues, link_busy, quad_age_counter, resp_lookup_table>>

Next == \/ \E t \in Transaction : AddTransaction(t) \/ VaultCallback(t)
        \/ Tick \/ DrainResponses \/ VaultsDone \/ DrainRequests

Spec == Init /\ [][Next]_vars

(* The simulation goes on, and a vault answers what it holds.              *)
Phase == {"client", "responses", "vaults", "requests"}
PhaseEnds == phase' \in Phase \ {phase}
VaultAnswers(t) == []<>(vaults[t] = 0) \/ []<><<VaultCallback(t)>>_vars
FairSpec == Spec /\ WF_phase(PhaseEnds) /\ \A t \in Transaction : VaultAnswers(t)

-----------------------------------------------------------------------------
Asked(t) == In(link_req_queues, t) + In(quad_req_queues, t) + vaults[t]

(* resp_lookup_table_ holds one response for every request that is on its  *)
(* way to a vault or in it, so VaultCallback, which does not test what     *)
(* find returned (hmc.cc:627), always finds one.                           *)
LookupFinds ==
  \A a \in Address :
    Len(resp_lookup_table[a]) = MapThenSumSet(Asked, {t \in Transaction : t.addr = a})

(* A queue has an age when, and only when, it holds a packet:              *)
(* DrainRequests and DrainResponses take the front of every queue that     *)
(* has an age without testing that there is one (hmc.cc:470, 519).         *)
AgeMeansPacket ==
  /\ \A l \in Link : link_age_counter[l] > 0 <=> link_req_queues[l] # <<>>
  /\ \A q \in Quad : quad_age_counter[q] > 0 <=> quad_resp_queues[q] # <<>>

(* The cube never gets stuck, whatever the arbitration does to one link:   *)
(* while transactions are in flight, some are answered.                    *)
Answering == \E l \in Link : phase = "responses" /\ Leaving(l)
CubeProgresses == []<>(\A t \in Transaction : Outstanding(t) = 0) \/ []<>Answering
=============================================================================
