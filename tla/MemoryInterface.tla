--------------------------- MODULE MemoryInterface ---------------------------
(***************************************************************************)
(* MultiMemoryInterface (multi_anna/multi_memory_interface.hpp) with the   *)
(* MemorySwitch in it, the readers of all cores that use it                *)
(* (memory_reader.hpp, with their addresses) and, external to it, one      *)
(* dramsim3 memory system per stack that completes the reads it accepted   *)
(* in any order.                                                           *)
(*                                                                         *)
(* A tick of MultiANNA is a fixed round of steps:                          *)
(*   switch    MemorySwitch::ClockTick                                     *)
(*   drain     the messages that crossed the switch are taken              *)
(*   stacks    each stack ticks, in parallel: completed reads call back,   *)
(*             then queued reads are issued                                *)
(*   readers   each reader of each core ticks in turn; a reader without    *)
(*             unanswered reads may be given new ones after its tick       *)
(***************************************************************************)
EXTENDS AddressStackMaper, MemorySwitch, FiniteSets, FiniteSetsExt

CONSTANTS ReadersPerCore,   \* readers a core registers; 3 in the code
          ReadsPerTick,     \* requests a reader sends per tick; 17 in the code
          Address,          \* the addresses the cores read
          Submission,       \* the sequences of addresses a module submits at once
          MaxSubmissions,   \* bound: submissions in a behaviour
          DramDepth         \* bound: reads a stack's memory system holds

ASSUME InterfaceAssumption == /\ PortNum = StackNum
                              /\ ReadersPerCore \in Nat \ {0}
                              /\ ReadsPerTick \in Nat \ {0}
                              /\ Address \subseteq Nat
                              /\ Submission \subseteq Seq(Address)
                              /\ MaxSubmissions \in Nat
                              /\ DramDepth \in Nat \ {0}

VARIABLES phase,
          turn,                  \* the reader whose tick comes next
          cnt,                   \* requests it has sent in this tick
          stage,                 \* per stack: how far its tick is
          submissions,           \* submissions made so far
          request_queue,         \* per reader: addresses not sent yet
          processing_num,        \* per reader: reads submitted and not answered
          read_request_queue,    \* per stack: multiset of local addresses to issue
          read_ready_queues,     \* per stack and reader: number of answers not taken
          id_map,                \* per stack and local address: readers waiting, oldest first
          dram                   \* per stack: multiset of reads the memory system works on

readerVars == << turn, cnt, submissions, request_queue, processing_num >>
stackVars == << read_request_queue, read_ready_queues, id_map, dram >>
vars == << phase, stage, readerVars, stackVars, switchVars >>

Id == 0 .. ReadersPerCore * PortNum - 1
id2core(id) == id \div ReadersPerCore
LocalAddress == {AddrOf(x) : x \in Address}

Init ==
  /\ SwitchInit
  /\ phase = "switch"
  /\ stage = [st \in Stack |-> "done"]
  /\ turn = 0 /\ cnt = 0 /\ submissions = 0
  /\ request_queue = [id \in Id |-> << >>]
  /\ processing_num = [id \in Id |-> 0]
  /\ read_request_queue = [st \in Stack |-> [addr \in LocalAddress |-> 0]]
  /\ read_ready_queues = [st \in Stack |-> [id \in Id |-> 0]]
  /\ id_map = [st \in Stack |-> [addr \in LocalAddress |-> << >>]]
  /\ dram = [st \in Stack |-> [addr \in LocalAddress |-> 0]]
-----------------------------------------------------------------------------
Switch ==
  /\ phase = "switch"
  /\ SwitchClockTick
  /\ phase' = "drain"
  /\ UNCHANGED << stage, readerVars, stackVars >>

(* Mutants: the entry is not erased; the newest reader is answered but the *)
(* oldest entry erased.                                                    *)
CreditKept(st, addr) ==
  /\ read_ready_queues' = [read_ready_queues EXCEPT ![st][Head(id_map[st][addr])] = @ + 1]
  /\ UNCHANGED id_map
CreditNewest(st, addr) ==
  /\ read_ready_queues' = [read_ready_queues EXCEPT ![st][Last(id_map[st][addr])] = @ + 1]
  /\ id_map' = [id_map EXCEPT ![st][addr] = Tail(@)]

(* The entry found for addr: answered to the reader, and erased.           *)
Credit(st, addr) ==
  /\ read_ready_queues' = [read_ready_queues EXCEPT ![st][Head(id_map[st][addr])] = @ + 1]
  /\ id_map' = [id_map EXCEPT ![st][addr] = Tail(@)]

(* "while ((addr = getReq(st)) != -1)", the stacks in order.               *)
DrainRequest(st) ==
  /\ phase = "drain"
  /\ \A s \in Stack : s < st => req_out[s] = << >>
  /\ getReq(st)
  /\ read_request_queue' = [read_request_queue EXCEPT ![st][Head(req_out[st])[2]] = @ + 1]
  /\ UNCHANGED << phase, stage, readerVars, read_ready_queues, id_map, dram >>

DrainResponse(core) ==
  /\ phase = "drain"
  /\ \A s \in Stack : req_out[s] = << >> /\ (s < core => res_out[s] = << >>)
  /\ getRes(core)
  /\ Credit(Head(res_out[core])[1], Head(res_out[core])[2])
  /\ UNCHANGED << phase, stage, readerVars, read_request_queue, dram >>

DrainEnd ==
  /\ phase = "drain"
  /\ \A s \in Stack : req_out[s] = << >> /\ res_out[s] = << >>
  /\ phase' = "stacks"
  /\ stage' = [st \in Stack |-> "tick"]
  /\ UNCHANGED << readerVars, stackVars, switchVars >>

(* ReadCallback(st, addr), for a read the memory system has completed.     *)
(* find returns the oldest of several entries for addr.                    *)
ReadCallback(st, addr) ==
  /\ phase = "stacks"
  /\ stage[st] = "tick"
  /\ dram[st][addr] > 0
  /\ dram' = [dram EXCEPT ![st][addr] = @ - 1]
  /\ LET core == id2core(Head(id_map[st][addr]))
     IN  \/ /\ core = st
            /\ Credit(st, addr)
            /\ UNCHANGED switchVars
         \/ /\ core # st
            /\ sendRes(st, core, addr)
            /\ UNCHANGED << read_ready_queues, id_map >>
  /\ UNCHANGED << phase, stage, readerVars, read_request_queue >>

Queued(st) == {addr \in LocalAddress : read_request_queue[st][addr] > 0}
Busy(st) == SumFunction(dram[st])

(* The lowest queued address is issued while WillAcceptTransaction; the    *)
(* memory system may refuse only when it holds reads.                      *)
IssueRead(st) ==
  /\ phase = "stacks"
  /\ stage[st] # "done"
  /\ Queued(st) # {}
  /\ Busy(st) < DramDepth
  /\ read_request_queue' = [read_request_queue EXCEPT ![st][Min(Queued(st))] = @ - 1]
  /\ dram' = [dram EXCEPT ![st][Min(Queued(st))] = @ + 1]
  /\ stage' = [stage EXCEPT ![st] = "issue"]
  /\ UNCHANGED << phase, readerVars, read_ready_queues, id_map, switchVars >>

StackEnd(st) ==
  /\ phase = "stacks"
  /\ stage[st] # "done"
  /\ Queued(st) = {} \/ Busy(st) > 0
  /\ stage' = [stage EXCEPT ![st] = "done"]
  /\ phase' = IF \A s \in Stack : stage'[s] = "done" THEN "readers" ELSE "stacks"
  /\ UNCHANGED << readerVars, stackVars, switchVars >>
-----------------------------------------------------------------------------
AllSent(id) == request_queue[id] = << >> \/ cnt = ReadsPerTick

(* One turn of the loop in MemoryReader::ClockTick: RequestRead(id, x).    *)
RequestRead(id) ==
  /\ phase = "readers"
  /\ turn = id
  /\ ~ AllSent(id)
  /\ LET st   == StackOf(Head(request_queue[id]))
         addr == AddrOf(Head(request_queue[id]))
     IN  /\ \/ /\ id2core(id) = st
               /\ read_request_queue' = [read_request_queue EXCEPT ![st][addr] = @ + 1]
               /\ UNCHANGED switchVars
            \/ /\ id2core(id) # st
               /\ sendReq(id2core(id), st, addr)
               /\ UNCHANGED read_request_queue
         /\ id_map' = [id_map EXCEPT ![st][addr] = Append(@, id)]
  /\ request_queue' = [request_queue EXCEPT ![id] = Tail(@)]
  /\ cnt' = cnt + 1
  /\ UNCHANGED << phase, stage, turn, submissions, processing_num, read_ready_queues, dram >>

(* GetAllReadyReadRequest(id).                                             *)
Ready(id) == SumFunction([st \in Stack |-> read_ready_queues[st][id]])

(* Mutant: only the answers of the reader's own stack are removed.         *)
ClearReadyLocal(id) ==
  read_ready_queues' = [read_ready_queues EXCEPT ![id2core(id)][id] = 0]

ClearReady(id) ==
  read_ready_queues' = [st \in Stack |-> [read_ready_queues[st] EXCEPT ![id] = 0]]

(* The rest of MemoryReader::ClockTick.                                    *)
TakeReady(id) ==
  /\ phase = "readers"
  /\ turn = id
  /\ AllSent(id)
  /\ processing_num' = [processing_num EXCEPT ![id] = @ - Ready(id)]
  /\ ClearReady(id)
  /\ turn' = turn + 1
  /\ cnt' = 0
  /\ UNCHANGED << phase, stage, submissions, request_queue, read_request_queue, id_map, dram,
                  switchVars >>

(* SubmitReadRequest by the module that owns reader id, after the reader's *)
(* tick and only when the reader IsReady, as the CPM and the EFM do it.    *)
SubmitReadRequest(id, s) ==
  /\ phase = "readers"
  /\ turn = id + 1 /\ cnt = 0
  /\ processing_num[id] = 0
  /\ submissions < MaxSubmissions
  /\ request_queue' = [request_queue EXCEPT ![id] = @ \o s]
  /\ processing_num' = [processing_num EXCEPT ![id] = @ + Len(s)]
  /\ submissions' = submissions + 1
  /\ UNCHANGED << phase, stage, turn, cnt, stackVars, switchVars >>

TickEnd ==
  /\ phase = "readers"
  /\ turn \notin Id
  /\ turn' = 0
  /\ phase' = "switch"
  /\ UNCHANGED << stage, cnt, submissions, request_queue, processing_num, stackVars, switchVars >>
-----------------------------------------------------------------------------
Tick == \/ Switch \/ DrainEnd \/ TickEnd
        \/ \E st \in Stack : DrainRequest(st) \/ DrainResponse(st) \/ StackEnd(st)
        \/ \E id \in Id : RequestRead(id) \/ TakeReady(id)

Next == \/ Tick
        \/ \E st \in Stack : IssueRead(st) \/ \E addr \in LocalAddress : ReadCallback(st, addr)
        \/ \E id \in Id, s \in Submission : SubmitReadRequest(id, s)

Spec == Init /\ [][Next]_vars

(* The simulation keeps ticking, and each memory system accepts reads and  *)
(* completes the reads it holds.                                           *)
FairSpec == /\ Spec
            /\ WF_vars(Next)
            /\ \A st \in Stack : SF_vars(IssueRead(st))
            /\ \A st \in Stack, addr \in LocalAddress : SF_vars(ReadCallback(st, addr))
-----------------------------------------------------------------------------
(* How many messages m are in the queues q, and how many messages about    *)
(* addr, from or to any port, in one queue.                                *)
Toward(q, m) == Cardinality(UNION {{p} \X {k \in DOMAIN q[p] : q[p][k] = m} : p \in Port})
About(q, addr) == Cardinality({k \in DOMAIN q : q[k][2] = addr})

(* Every entry of id_map stands for exactly one read of its address that   *)
(* is on its way to the stack, queued there, being served, or on its way   *)
(* back: so the assertion in ReadCallback holds, and the find in ClockTick *)
(* whose result is used unchecked never returns end().                     *)
EntriesMatchReads ==
  \A st \in Stack, addr \in LocalAddress :
    Len(id_map[st][addr]) = Toward(req_in, << st, addr >>) + About(req_out[st], addr)
                              + read_request_queue[st][addr] + dram[st][addr]
                              + About(res_in[st], addr) + Toward(res_out, << st, addr >>)

(* The reads reader id waits for, over all stacks and addresses.           *)
Waiting(id) ==
  Cardinality(UNION {{st} \X {addr} \X {k \in DOMAIN id_map[st][addr] : id_map[st][addr][k] = id}
                       : st \in Stack, addr \in LocalAddress})

(* processing_num, an unsigned counter on which every module waits, counts *)
(* a reader's reads exactly: unsent, requested, or answered and not taken. *)
(* An answer given to the wrong reader would make one counter wrap around  *)
(* and leave the other above zero for good.                                *)
ProcessingNumExact ==
  \A id \in Id : processing_num[id] = Len(request_queue[id]) + Waiting(id) + Ready(id)

(* The interface implements ReadService, on which AnnaCore relies: reads   *)
(* of one address by several readers, some of them remote, are answered    *)
(* one by one, each to a reader that asked for it.                         *)
Service == INSTANCE ReadService WITH outstanding <- [id \in Id |-> Waiting(id)],
                                     answered <- [id \in Id |-> Ready(id)]
ImplementsReadService == Service!ServiceSpec

(* Every submission is answered in full: the reader IsReady in the end.    *)
ReadersGetReady == \A id \in Id : processing_num[id] > 0 ~> processing_num[id] = 0
=============================================================================
