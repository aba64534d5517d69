------------------------------- MODULE CPUProofs -------------------------------
(***************************************************************************)
(* RandomCPU loses nothing and keeps the order, and TraceBasedCPU feeds    *)
(* its trace in order up to what TraceInOrder says of the end of the file, *)
(* for every trace and whatever the memory refuses. The bound on clk is    *)
(* not used.                                                               *)
(***************************************************************************)
EXTENDS CPU, TLAPS

(* A transaction is drawn and not yet fed exactly while get_next is false. *)
RandomInv ==
  /\ drawn \in Seq(Transaction)
  /\ IF get_next THEN fed = drawn
     ELSE drawn # <<>> /\ fed = Front(drawn) /\ trans = Last(drawn)

(* The entries of the trace with the read that may follow them.            *)
Expected == Append(trace.entries, ReadAtEnd)

(* What was fed are the first of these; until the end is met the           *)
(* transaction in hand is the last entry read, and the last of the trace   *)
(* is in hand only if a newline follows it.                                *)
TraceInv ==
  LET entries == trace.entries
  IN  /\ trace \in Traces
      /\ fed \in Seq(Transaction)
      /\ trans \in Transaction
      /\ read \in 0 .. Len(entries)
      /\ Len(fed) <= Len(Expected)
      /\ \A k \in 1 .. Len(fed) : fed[k] = Expected[k] /\ fed[k].added_cycle < clk
      /\ ~eof => /\ read = IF get_next THEN Len(fed) ELSE Len(fed) + 1
                 /\ read > 0 => trans = entries[read]
                 /\ read = Len(entries) => trace.newline
      /\ Len(fed) > Len(entries) => trace.newline
      /\ eof => Len(fed) >= IF trace.newline THEN Len(entries) ELSE Len(entries) - 1

CPUInv == /\ clk \in Nat
          /\ get_next \in BOOLEAN /\ eof \in BOOLEAN
          /\ kind \in {"Random", "Stream", "Trace"}
          /\ kind = "Random" => RandomInv
          /\ kind = "Trace" => TraceInv

-----------------------------------------------------------------------------
(* A sequence is its front and its last element.                           *)
LEMMA FrontLast ==
  ASSUME NEW S, NEW s \in Seq(S), NEW x \in S
  PROVE  /\ Append(s, x) \in Seq(S) /\ Append(s, x) # <<>>
         /\ Front(Append(s, x)) = s
         /\ Last(Append(s, x)) = x
         /\ s # <<>> => Append(Front(s), Last(s)) = s /\ Last(s) \in S
<1>1. Append(s, x) \in Seq(S) /\ Append(s, x) # <<>> /\ Last(Append(s, x)) = x
  BY DEF Last
<1>2. Front(Append(s, x)) = s
  BY DEF Front
<1>3. ASSUME s # <<>> PROVE Append(Front(s), Last(s)) = s /\ Last(s) \in S
  BY <1>3 DEF Front, Last
<1> QED BY <1>1, <1>2, <1>3

LEMMA NoneType ==
  None \in Transaction
<1>1. (CHOOSE a \in Address : TRUE) \in Address
  BY CPUAssumption
<1> QED BY <1>1 DEF None, Transaction

(* The entries of a trace, and the read that may follow them.              *)
LEMMA ExpectedTrace ==
  ASSUME trace \in Traces
  PROVE  /\ trace.entries \in Seq(Transaction) /\ Len(trace.entries) > 0
         /\ Expected \in Seq(Transaction) /\ Len(Expected) = Len(trace.entries) + 1
         /\ \A k \in 1 .. Len(trace.entries) : Expected[k] = trace.entries[k]
         /\ Expected[Len(trace.entries) + 1] = ReadAtEnd
         /\ trace.newline \in BOOLEAN
<1> DEFINE entries == trace.entries
           extra == ReadAtEnd
<1>1. entries \in Seq(Transaction) /\ entries # <<>> /\ trace.newline \in BOOLEAN
  BY CPUAssumption
<1>2. Len(entries) > 0 /\ Last(entries) \in Transaction
  BY <1>1 DEF Last
<1>3. extra \in Transaction
  BY <1>2 DEF Transaction, ReadAtEnd
<1>4. Expected = Append(entries, extra)
  BY DEF Expected
<1> HIDE DEF extra, entries
<1> QED BY <1>1, <1>2, <1>3, <1>4 DEF extra, entries

LEMMA CPUInvInit ==
  CPUInit => CPUInv
<1> SUFFICES ASSUME CPUInit PROVE CPUInv
  OBVIOUS
<1>1. RandomInv
  BY DEF CPUInit, RandomInv
<1>2. TraceInv
  <2>1. trace \in Traces /\ trace.entries \in Seq(Transaction) /\ trans \in Transaction
    BY CPUAssumption, NoneType DEF CPUInit
  <2>2. Len(trace.entries) \in Nat
    BY <2>1
  <2>3. Len(Expected) \in Nat /\ Len(trace.entries) > 0
    BY <2>1, <2>2, ExpectedTrace
  <2> QED BY <2>1, <2>2, <2>3 DEF CPUInit, TraceInv
<1> QED BY <1>1, <1>2 DEF CPUInit, CPUInv

LEMMA RandomStep ==
  ASSUME RandomInv, get_next \in BOOLEAN, NEW t \in Transaction, NEW accept \in BOOLEAN, RandomTick(t, accept)
  PROVE  RandomInv'
<1>1. CASE get_next
  <2>1. drawn' = Append(drawn, t) /\ trans' = t /\ drawn \in Seq(Transaction) /\ fed = drawn
    BY <1>1 DEF RandomTick, Draws, RandomInv
  <2>2. drawn' \in Seq(Transaction) /\ drawn' # <<>> /\ Front(drawn') = drawn /\ Last(drawn') = t
    BY <2>1, FrontLast
  <2>3. get_next' = accept /\ fed' = IF accept THEN Append(fed, t) ELSE fed
    BY <2>1 DEF RandomTick
  <2> QED BY <2>1, <2>2, <2>3 DEF RandomInv
<1>2. CASE ~get_next
  <2>1. /\ drawn' = drawn /\ trans' = trans /\ drawn \in Seq(Transaction)
        /\ drawn # <<>> /\ fed = Front(drawn) /\ trans = Last(drawn)
    BY <1>2 DEF RandomTick, Draws, RandomInv
  <2>2. Append(Front(drawn), Last(drawn)) = drawn
    BY <2>1, FrontLast
  <2>3. get_next' = accept /\ fed' = IF accept THEN Append(fed, trans) ELSE fed
    BY <2>1 DEF RandomTick
  <2> QED BY <2>1, <2>2, <2>3 DEF RandomInv
<1> QED BY <1>1, <1>2

(* What feeding one more transaction does to what was fed before cycle c.  *)
FedBefore(f, es, c) == \A k \in 1 .. Len(f) : f[k] = es[k] /\ f[k].added_cycle < c

LEMMA FeedOne ==
  ASSUME NEW es \in Seq(Transaction), NEW f \in Seq(Transaction), NEW c \in Nat, NEW t \in Transaction,
         FedBefore(f, es, c),
         t.added_cycle <= c,
         t = es[Len(f) + 1]
  PROVE  /\ Append(f, t) \in Seq(Transaction)
         /\ Len(Append(f, t)) = Len(f) + 1
         /\ FedBefore(Append(f, t), es, c + 1)
<1>1. /\ Append(f, t) \in Seq(Transaction)
      /\ Len(Append(f, t)) = Len(f) + 1
      /\ Append(f, t)[Len(f) + 1] = t
      /\ \A k \in 1 .. Len(f) : Append(f, t)[k] = f[k]
  OBVIOUS
<1>2. t.added_cycle \in Nat /\ \A k \in 1 .. Len(f) : f[k].added_cycle \in Nat
  <2>1. \A k \in 1 .. Len(f) : f[k] \in Transaction
    OBVIOUS
  <2>2. \A u \in Transaction : u.added_cycle \in Nat
    BY DEF Transaction
  <2> QED BY <2>1, <2>2
<1>4. t.added_cycle < c + 1 /\ \A k \in 1 .. Len(f) : f[k] = es[k] /\ f[k].added_cycle < c + 1
  BY <1>2 DEF FedBefore
<1>3. \A k \in 1 .. Len(f) + 1 : k = Len(f) + 1 \/ k \in 1 .. Len(f)
  OBVIOUS
<1>5. ASSUME NEW k \in 1 .. Len(f) + 1
      PROVE  Append(f, t)[k] = es[k] /\ Append(f, t)[k].added_cycle < c + 1
  <2>1. CASE k = Len(f) + 1
    BY <1>1, <1>4, <2>1
  <2>2. CASE k \in 1 .. Len(f)
    BY <1>1, <1>4, <2>2
  <2> QED BY <1>3, <2>1, <2>2
<1> QED BY <1>1, <1>5 DEF FedBefore

LEMMA TraceStep ==
  ASSUME TraceInv, clk \in Nat, get_next \in BOOLEAN, eof \in BOOLEAN,
         NEW accept \in BOOLEAN, TraceTick(accept), clk' = clk + 1, trace' = trace
  PROVE  TraceInv'
<1> DEFINE entries == trace.entries
           beyond == read >= Len(entries)
           end == IF Reads THEN beyond \/ (read + 1 = Len(entries) /\ ~trace.newline) ELSE eof
           this == IF ~Reads THEN trans
                   ELSE IF beyond THEN [trans EXCEPT !.is_write = FALSE] ELSE entries[read + 1]
           due == this.added_cycle <= clk
<1>1. /\ trace \in Traces
      /\ entries \in Seq(Transaction)
      /\ Len(entries) \in Nat
      /\ fed \in Seq(Transaction)
      /\ Len(fed) \in Nat
      /\ trans \in Transaction
      /\ read \in 0 .. Len(entries)
      /\ Len(fed) <= Len(Expected)
      /\ \A k \in 1 .. Len(fed) : fed[k] = Expected[k] /\ fed[k].added_cycle < clk
      /\ ~eof => /\ read = IF get_next THEN Len(fed) ELSE Len(fed) + 1
                 /\ read > 0 => trans = entries[read]
                 /\ read = Len(entries) => trace.newline
      /\ Len(fed) > Len(entries) => trace.newline
      /\ eof => Len(fed) >= IF trace.newline THEN Len(entries) ELSE Len(entries) - 1
      /\ trace.newline \in BOOLEAN
  BY CPUAssumption DEF TraceInv
<1>2. \A k \in 1 .. Len(fed) : fed[k] = Expected[k] /\ fed[k].added_cycle < clk + 1
  <2>1. \A k \in 1 .. Len(fed) : fed[k] \in Transaction
    BY <1>1
  <2>2. \A u \in Transaction : u.added_cycle \in Nat
    BY DEF Transaction
  <2> QED BY <1>1, <2>1, <2>2
<1>5. /\ Len(entries) > 0
      /\ Expected \in Seq(Transaction) /\ Len(Expected) = Len(entries) + 1
      /\ \A k \in 1 .. Len(entries) : Expected[k] = entries[k]
      /\ Expected[Len(entries) + 1] = ReadAtEnd
  BY <1>1, ExpectedTrace
<1>6. Expected' = Expected
  BY DEF Expected, ReadAtEnd
<1>3. CASE eof
  <2>1. UNCHANGED <<fed, get_next, trans, read, eof>>
    BY <1>3 DEF TraceTick, traceVars
  <2> QED BY <1>1, <1>2, <1>3, <1>6, <2>1 DEF TraceInv
<1>4. CASE ~eof
  <2>1. /\ trans' = this
        /\ eof' = end
        /\ read' = IF Reads /\ ~beyond THEN read + 1 ELSE read
        /\ get_next' = (due /\ accept)
        /\ fed' = IF due /\ accept THEN Append(fed, this) ELSE fed
    BY <1>4 DEF TraceTick
  <2>2. this \in Transaction
    <3>1. [trans EXCEPT !.is_write = FALSE] \in Transaction
      BY <1>1 DEF Transaction
    <3>2. ~beyond => entries[read + 1] \in Transaction
      BY <1>1
    <3> QED BY <1>1, <3>1, <3>2
  <2>3. Len(fed) + 1 <= Len(Expected) /\ this = Expected[Len(fed) + 1]
    <3>1. CASE Reads /\ beyond
      <4>1. read = Len(entries) /\ Len(fed) = Len(entries) /\ trans = entries[read]
        BY <1>1, <1>4, <1>5, <3>1 DEF Reads
      <4>2. this = ReadAtEnd
        BY <3>1, <4>1 DEF Last, ReadAtEnd
      <4> HIDE DEF this, entries
      <4> QED BY <1>1, <1>5, <4>1, <4>2
    <3>2. CASE Reads /\ ~beyond
      <4>1. this = entries[Len(fed) + 1] /\ Len(fed) + 1 <= Len(entries)
        BY <1>1, <1>4, <3>2 DEF Reads
      <4> HIDE DEF this, entries
      <4> QED BY <1>1, <1>5, <4>1
    <3>3. CASE ~Reads
      <4>1. this = entries[Len(fed) + 1] /\ Len(fed) + 1 <= Len(entries)
        BY <1>1, <1>4, <3>3 DEF Reads
      <4> HIDE DEF this, entries
      <4> QED BY <1>1, <1>5, <4>1
    <3> QED BY <3>1, <3>2, <3>3
  <2>4. read' \in 0 .. Len(entries)
    BY <1>1, <2>1
  <2>5. ~end => read' = Len(fed) + 1 /\ this = entries[read']
    BY <1>1, <1>4, <2>1 DEF Reads
  <2>8. ~end => (read' = Len(entries) => trace.newline)
    BY <1>1, <1>4, <2>1 DEF Reads
  <2>9. Len(fed) >= Len(entries) => trace.newline
    BY <1>1, <1>4 DEF Reads
  <2>10. end => Len(fed) >= IF trace.newline THEN Len(entries) ELSE Len(entries) - 1
    BY <1>1, <1>4 DEF Reads
  <2> HIDE DEF this, end, beyond, entries
  <2>6. CASE due /\ accept
    <3>1. /\ fed' \in Seq(Transaction)
          /\ Len(fed') = Len(fed) + 1
          /\ \A k \in 1 .. Len(fed) + 1 : fed'[k] = Expected[k] /\ fed'[k].added_cycle < clk + 1
      <4>1. fed' = Append(fed, this) /\ this.added_cycle <= clk
        BY <2>1, <2>6
      <4>2. PICK t \in Transaction, f \in Seq(Transaction) : t = this /\ f = fed
        BY <1>1, <2>2
      <4>3. PICK es \in Seq(Transaction), c \in Nat : es = Expected /\ c = clk
        BY <1>5
      <4>4. /\ FedBefore(f, es, c)
            /\ t.added_cycle <= c
            /\ t = es[Len(f) + 1]
        BY <1>1, <2>3, <4>1, <4>2, <4>3 DEF FedBefore
      <4>5. /\ Append(f, t) \in Seq(Transaction)
            /\ Len(Append(f, t)) = Len(f) + 1
            /\ FedBefore(Append(f, t), es, c + 1)
        BY ONLY <4>4, FeedOne, t \in Transaction, f \in Seq(Transaction), es \in Seq(Transaction), c \in Nat
      <4> QED BY <4>1, <4>2, <4>3, <4>5 DEF FedBefore
    <3>2. Len(fed') > Len(entries) => trace.newline
      BY <1>1, <2>9, <3>1
    <3>3. eof' => Len(fed') >= IF trace.newline THEN Len(entries) ELSE Len(entries) - 1
      <4>1. eof' => Len(fed) >= IF trace.newline THEN Len(entries) ELSE Len(entries) - 1
        BY <2>1, <2>10
      <4> QED BY <1>1, <3>1, <4>1
    <3>4. ~eof' => /\ read' = IF get_next' THEN Len(fed') ELSE Len(fed') + 1
                   /\ read' > 0 => trans' = entries[read']
                   /\ read' = Len(entries) => trace.newline
      BY <2>1, <2>5, <2>6, <2>8, <3>1
    <3>5. Len(fed') <= Len(Expected)
      BY <2>3, <3>1
    <3> HIDE DEF due
    <3> QED BY <1>1, <1>6, <2>1, <2>2, <2>4, <3>1, <3>2, <3>3, <3>4, <3>5 DEF TraceInv, entries
  <2>7. CASE ~(due /\ accept)
    BY <1>1, <1>2, <1>6, <2>1, <2>2, <2>4, <2>5, <2>7, <2>8, <2>9, <2>10 DEF TraceInv, entries
  <2> QED BY <2>6, <2>7
<1> QED BY <1>3, <1>4

LEMMA CPUInvNext ==
  CPUInv /\ [CPUNext]_cpuVars => CPUInv'
<1> SUFFICES ASSUME CPUInv, [CPUNext]_cpuVars PROVE CPUInv'
  OBVIOUS
<1>1. /\ clk \in Nat /\ get_next \in BOOLEAN /\ eof \in BOOLEAN
      /\ kind \in {"Random", "Stream", "Trace"}
      /\ kind = "Random" => RandomInv
      /\ kind = "Trace" => TraceInv
  BY DEF CPUInv
<1>2. CASE UNCHANGED cpuVars
  BY <1>1, <1>2 DEF cpuVars, randomVars, traceVars, CPUInv, RandomInv, TraceInv, Expected, ReadAtEnd
<1>3. ASSUME clk' = clk + 1, UNCHANGED <<kind, trace>>,
             NEW t \in [addr : Address, is_write : BOOLEAN, added_cycle : {0}], NEW accept \in BOOLEAN,
             RandomTick(t, accept)
      PROVE  CPUInv'
  <2>1. t \in Transaction /\ kind = "Random"
    BY <1>3 DEF Transaction, RandomTick
  <2>2. RandomInv'
    BY <1>1, <1>3, <2>1, RandomStep
  <2>3. get_next' \in BOOLEAN /\ eof' \in BOOLEAN
    BY <1>1, <1>3 DEF RandomTick, traceVars
  <2> QED BY <1>1, <1>3, <2>1, <2>2, <2>3 DEF CPUInv
<1>4. ASSUME clk' = clk + 1, UNCHANGED <<kind, trace>>,
             NEW new \in [Array -> Address], NEW accepted \in SUBSET Array, StreamTick(new, accepted)
      PROVE  CPUInv'
  <2>1. kind = "Stream" /\ UNCHANGED <<get_next, eof>>
    BY <1>4 DEF StreamTick, traceVars
  <2> QED BY <1>1, <1>4, <2>1 DEF CPUInv
<1>5. ASSUME clk' = clk + 1, UNCHANGED <<kind, trace>>, NEW accept \in BOOLEAN, TraceTick(accept)
      PROVE  CPUInv'
  <2>1. kind = "Trace"
    BY <1>5 DEF TraceTick
  <2>2. TraceInv'
    BY <1>1, <1>5, <2>1, TraceStep
  <2>3. get_next' \in BOOLEAN /\ eof' \in BOOLEAN
    BY <1>1, <1>5 DEF TraceTick, traceVars
  <2> QED BY <1>1, <1>5, <2>1, <2>2, <2>3 DEF CPUInv
<1> QED BY <1>2, <1>3, <1>4, <1>5 DEF CPUNext

LEMMA CPUInvariant ==
  CPUSpec => []CPUInv
<1>1. CPUInit => CPUInv
  BY CPUInvInit
<1>2. CPUInv /\ [CPUNext]_cpuVars => CPUInv'
  BY CPUInvNext
<1> QED BY <1>1, <1>2, PTL DEF CPUSpec

(* For every sequence of draws and whatever the memory refuses, RandomCPU  *)
(* feeds all it draws, in order.                                           *)
THEOREM RandomLosesNothing == CPUSpec => []NothingDropped
<1>1. CPUInv => NothingDropped
  BY DEF CPUInv, RandomInv, NothingDropped
<1> QED BY <1>1, CPUInvariant, PTL

(* For every trace and whatever the memory refuses, TraceBasedCPU feeds    *)
(* the trace in order and no entry before its cycle; at the end of the     *)
(* file all of it was fed, with at most one read too many after a newline, *)
(* and at most the last entry missing without one.                         *)
THEOREM TraceFedInOrder == CPUSpec => []TraceInOrder
<1>1. ASSUME CPUInv PROVE TraceInOrder
  <2> SUFFICES ASSUME kind = "Trace" PROVE TraceInOrder
    BY DEF TraceInOrder
  <2>1. TraceInv
    BY <1>1 DEF CPUInv
  <2>2. /\ Len(trace.entries) \in Nat
        /\ Len(Expected) = Len(trace.entries) + 1
        /\ \A k \in 1 .. Len(trace.entries) : Expected[k] = trace.entries[k]
        /\ Expected[Len(trace.entries) + 1] = ReadAtEnd
    BY <2>1, ExpectedTrace DEF TraceInv
  <2>3. Len(fed) \in Nat
    BY <2>1 DEF TraceInv
  <2> HIDE DEF Expected
  <2> QED BY <2>1, <2>2, <2>3 DEF TraceInv, TraceInOrder
<1> QED BY <1>1, CPUInvariant, PTL
=============================================================================
