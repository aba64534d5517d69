------------------------------ MODULE BankState ------------------------------
(***************************************************************************)
(* One bank (bankstate.cc): its row buffer, and for every type of command  *)
(* the earliest cycle it may be issued. The code keeps absolute cycles; a  *)
(* bank here keeps cmd_timing[t], the cycles left until t is allowed, so   *)
(* that "clk >= cmd_timing_[t]" reads cmd_timing[t] = 0.                   *)
(***************************************************************************)
EXTENDS Timing

NoRow == -1
NoAddress == -1

(* Command(): SIZE is the type of no command. A call that ends in          *)
(* AbruptExit "returns" ABORT, and the process stops there.                *)
NoCommand == [type |-> "SIZE", bank |-> <<0, 0, 0>>, row |-> NoRow, addr |-> NoAddress]

ClosedBank == [state |-> "CLOSED", open_row |-> NoRow, row_hit_count |-> 0,
               cmd_timing |-> [t \in CommandType |-> 0]]

(* Mutant: a refresh does not close the row.                               *)
RequiredTypeOpen(b, cmd) == IF b.state # "SREF" /\ cmd.type \in IdleType THEN cmd.type ELSE "ACTIVATE"
RequiredType(b, cmd) ==
  CASE b.state = "CLOSED" /\ cmd.type \in ReadWriteType -> "ACTIVATE"
    [] b.state = "CLOSED" /\ cmd.type \in IdleType -> cmd.type
    [] b.state = "OPEN" /\ cmd.type \in ReadWriteType /\ cmd.row = b.open_row -> cmd.type
    [] b.state = "OPEN" /\ cmd.type \in ReadWriteType /\ cmd.row # b.open_row -> "PRECHARGE"
    [] b.state = "OPEN" /\ cmd.type \in IdleType -> "PRECHARGE"
    [] b.state = "SREF" /\ cmd.type \in ReadWriteType -> "SREF_EXIT"
    [] OTHER -> "ABORT"

BankReadyCommand(b, cmd) ==
  LET required == RequiredType(b, cmd)
  IN  IF required = "ABORT" \/ b.cmd_timing[required] = 0
      THEN [cmd EXCEPT !.type = required]
      ELSE NoCommand

StateAfter(state, type) ==
  CASE state = "OPEN" /\ type \in {"READ", "WRITE"} -> "OPEN"
    [] state = "OPEN" /\ type \in {"READ_PRECHARGE", "WRITE_PRECHARGE", "PRECHARGE"} -> "CLOSED"
    [] state = "CLOSED" /\ type \in RefreshType -> "CLOSED"
    [] state = "CLOSED" /\ type = "ACTIVATE" -> "OPEN"
    [] state = "CLOSED" /\ type = "SREF_ENTER" -> "SREF"
    [] state = "SREF" /\ type = "SREF_EXIT" -> "CLOSED"
    [] OTHER -> "ABORT"

(* row_hit_count is only ever compared with config.row_hit_limit (4 in     *)
(* ArbitratePrecharge), so counting stops there.                           *)
UpdateState(b, cmd) ==
  LET next == StateAfter(b.state, cmd.type)
  IN  [b EXCEPT !.state = next,
                !.open_row = IF next # "OPEN" THEN NoRow ELSE IF cmd.type = "ACTIVATE" THEN cmd.row ELSE @,
                !.row_hit_count = CASE next # "OPEN" -> 0
                                    [] cmd.type \in ReadWriteType /\ @ < config.row_hit_limit -> @ + 1
                                    [] OTHER -> @]

(* UpdateTiming for every entry of a table's row; and one clock cycle.     *)
UpdateTiming(b, wait) == [b EXCEPT !.cmd_timing = [t \in CommandType |-> Larger(@[t], wait[t])]]
CountDown(n) == IF n > 0 THEN n - 1 ELSE 0
BankTick(b) == [b EXCEPT !.cmd_timing = [t \in CommandType |-> CountDown(@[t])]]
=============================================================================
