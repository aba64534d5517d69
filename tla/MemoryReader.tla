---------------------------- MODULE MemoryReader ----------------------------
(***************************************************************************)
(* The memory reader every processing module of an ANNA core owns          *)
(* (multi_anna/memory_reader.hpp), as operators on one reader record:      *)
(*   queued          length of request_queue: requests not yet sent        *)
(*   processing_num  requests submitted and not yet answered               *)
(*   finished        the completion of the last submission was reported    *)
(* The addresses are abstracted: only the number of 64-byte requests of a  *)
(* submission matters to the modules that own a reader.  MemoryInterface   *)
(* models the same reader with its addresses.                              *)
(***************************************************************************)
EXTENDS Integers, Sequences, FiniteSets

CONSTANT ReadsPerTick    \* requests one ClockTick sends at most; 17 in the code

ASSUME ReadsPerTickAssumption == ReadsPerTick \in Nat \ {0}

STRIDE == 64

Reader == [queued : Nat, processing_num : Nat, finished : BOOLEAN]

NewReader == [queued |-> 0, processing_num |-> 0, finished |-> TRUE]

(* The requests made for a queue of items of which item q[i] is len[q[i]]  *)
(* bytes long: offsets 0, 64, 128, ... below the length of each item.      *)
ReadRequests(q, len) ==
  UNION { {i} \X {k \in 0 .. len[q[i]] : k * STRIDE < len[q[i]]} : i \in DOMAIN q }

(* One SubmitReadRequest call per item of q; with no item, no call.        *)
SubmitReadRequests(r, q, len) ==
  LET n == Cardinality(ReadRequests(q, len))
  IN  IF q = << >>
      THEN r
      ELSE [queued |-> r.queued + n, processing_num |-> r.processing_num + n,
            finished |-> FALSE]

(* Sends up to ReadsPerTick queued requests and takes the res answers that *)
(* GetAllReadyReadRequest hands over.                                      *)
ReaderClockTick(r, res) ==
  [queued |-> IF r.queued > ReadsPerTick THEN r.queued - ReadsPerTick ELSE 0,
   processing_num |-> r.processing_num - res,
   finished |-> r.finished]

IsReady(r) == r.processing_num = 0

(* FinishAndReset returns JustFinished(r) and leaves FinishAndReset(r).    *)
JustFinished(r) == r.processing_num = 0 /\ ~ r.finished

FinishAndReset(r) == [queued |-> r.queued, processing_num |-> r.processing_num,
                      finished |-> r.finished \/ JustFinished(r)]
=============================================================================
