---------------------------------- MODULE CPU ----------------------------------
(***************************************************************************)
(* The three drivers of dramsim3 (cpu.cc): a CPU asks the memory whether   *)
(* it will accept a transaction, and keeps the transaction when it does    *)
(* not. The memory accepts or refuses as it likes; fed is what it was      *)
(* given. A trace is read to its end as the stream does: a read that meets *)
(* the end leaves the address and the cycle of the entry before, and the   *)
(* flag eof is set one read later when the last line has its newline.      *)
(***************************************************************************)
EXTENDS Naturals, Sequences, SequencesExt, FiniteSets

CONSTANTS Address, elements,   \* elements: array_size_ / stride_
          Traces,              \* the trace files: entries, and whether the last has its newline
          MaxClk               \* bound on the cycles run

Transaction == [addr : Address, is_write : BOOLEAN, added_cycle : Nat]
ASSUME CPUAssumption == /\ elements \in Nat \ {0} /\ MaxClk \in Nat /\ Address # {}
                        /\ \A t \in Traces : /\ t.entries \in Seq(Transaction) \ {<<>>}
                                            /\ t.newline \in BOOLEAN

VARIABLES kind, clk, fed,
          get_next, trans,     \* Random and Trace: the transaction to feed
          drawn,               \* Random: those it generated (history)
          arrays, offset, inserted,   \* Stream
          trace, read, eof            \* Trace: the file, the entries read, its end

randomVars == <<drawn>>
streamVars == <<arrays, offset, inserted>>
traceVars == <<read, eof>>
cpuVars == <<kind, clk, fed, get_next, trans, randomVars, streamVars, trace, traceVars>>

None == [addr |-> CHOOSE a \in Address : TRUE, is_write |-> FALSE, added_cycle |-> 0]
Array == {"a", "b", "c"}

CPUInit == /\ kind \in {"Random", "Stream", "Trace"} /\ clk = 0 /\ fed = <<>>
           /\ get_next = TRUE /\ trans = None /\ drawn = <<>>
           /\ arrays = [x \in Array |-> None.addr] /\ offset = 0 /\ inserted = {}
           /\ trace \in Traces /\ read = 0 /\ eof = FALSE

(* RandomCPU: a new transaction only when the last one was accepted.       *)
Draws == get_next

RandomTick(t, accept) ==
  /\ kind = "Random"
  /\ IF Draws THEN trans' = t /\ drawn' = Append(drawn, t) ELSE UNCHANGED <<trans, drawn>>
  /\ get_next' = accept
  /\ fed' = IF accept THEN Append(fed, trans') ELSE fed
  /\ UNCHANGED <<streamVars, traceVars>>

(* StreamCPU: a[i] and b[i] are read and c[i] is written, each when the    *)
(* memory takes it. Mutant: the element is left once c[i] is written.      *)
LeavesEarly(done) == "c" \in done
Leaves(done) == done = Array

StreamTick(new, accepted) ==
  LET restart == offset >= elements \/ clk = 0
      base == IF restart THEN new ELSE arrays
      at == IF restart THEN 0 ELSE offset
      now == accepted \ inserted
      order == SelectSeq(<<"a", "b", "c">>, LAMBDA x : x \in now)
      done == inserted \cup now
  IN  /\ kind = "Stream"
      /\ arrays' = base
      /\ fed' = fed \o [i \in DOMAIN order |-> [array |-> order[i], base |-> base[order[i]], offset |-> at,
                                                is_write |-> order[i] = "c"]]
      /\ offset' = IF Leaves(done) THEN at + 1 ELSE at
      /\ inserted' = IF Leaves(done) THEN {} ELSE done
      /\ UNCHANGED <<randomVars, get_next, trans, traceVars>>

(* TraceBasedCPU. Mutant: the next entry is read in every cycle.           *)
ReadsAlways == TRUE
Reads == get_next

TraceTick(accept) ==
  LET entries == trace.entries
      beyond == read >= Len(entries)
      end == IF Reads THEN beyond \/ (read + 1 = Len(entries) /\ ~trace.newline) ELSE eof
      this == IF ~Reads THEN trans
              ELSE IF beyond THEN [trans EXCEPT !.is_write = FALSE] ELSE entries[read + 1]
      due == this.added_cycle <= clk
  IN  /\ kind = "Trace"
      /\ IF eof THEN UNCHANGED <<fed, get_next, trans, traceVars>>
                ELSE /\ trans' = this
                     /\ eof' = end
                     /\ read' = IF Reads /\ ~beyond THEN read + 1 ELSE read
                     /\ get_next' = (due /\ accept)
                     /\ fed' = IF due /\ accept THEN Append(fed, this) ELSE fed
      /\ UNCHANGED <<randomVars, streamVars>>

CPUNext ==
  /\ clk < MaxClk /\ clk' = clk + 1
  /\ UNCHANGED <<kind, trace>>
  /\ \/ \E t \in [addr : Address, is_write : BOOLEAN, added_cycle : {0}], accept \in BOOLEAN : RandomTick(t, accept)
     \/ \E new \in [Array -> Address], accepted \in SUBSET Array : StreamTick(new, accepted)
     \/ \E accept \in BOOLEAN : TraceTick(accept)

CPUSpec == CPUInit /\ [][CPUNext]_cpuVars

-----------------------------------------------------------------------------
(* RandomCPU feeds what it draws, in order: a transaction the memory       *)
(* refuses is kept and offered again.                                      *)
NothingDropped ==
  kind = "Random" => fed = drawn \/ (fed = Front(drawn) /\ trans = Last(drawn))

(* StreamCPU feeds every element of its arrays once, however the memory    *)
(* refuses it: no transaction of an element follows one of the next, and   *)
(* an element that was left has its three.                                 *)
ElementsComplete ==
  kind = "Stream" =>
    \A k \in DOMAIN fed :
      LET of == {j \in 3 * ((k - 1) \div 3) + 1 .. 3 * ((k - 1) \div 3) + 3 : j <= Len(fed)}
      IN  /\ \A j \in of : fed[j].offset = ((k - 1) \div 3) % elements
          /\ Cardinality({fed[j].array : j \in of}) = Cardinality(of)

(* TraceBasedCPU "consumes traces of workloads, feed the fetched           *)
(* transactions into the memory system" (README.md:112). What it feeds are *)
(* the entries of the trace in order, none before its cycle. It departs    *)
(* from the README at the end of the file, in these two ways and no other: *)
(* with a newline after the last entry, the read that meets the end feeds  *)
(* the last address again, as a read that is not in the trace; without     *)
(* one, the last entry is lost unless it is due and accepted in the cycle  *)
(* it is read.                                                             *)
ReadAtEnd == [Last(trace.entries) EXCEPT !.is_write = FALSE]
TraceInOrder ==
  LET n == Len(trace.entries)
  IN  kind = "Trace" =>
        /\ \A k \in 1 .. Len(fed) :
             k <= n => fed[k] = trace.entries[k] /\ fed[k].added_cycle < clk
        /\ Len(fed) > n => trace.newline /\ Len(fed) = n + 1 /\ fed[n + 1] = ReadAtEnd
        /\ eof => Len(fed) >= IF trace.newline THEN n ELSE n - 1
=============================================================================
