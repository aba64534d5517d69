-------------------------- MODULE DeviceTimingProofs --------------------------
(***************************************************************************)
(* For every configuration: the rules of the device that the times kept by *)
(* the banks and the activation window enforce.                            *)
(***************************************************************************)
EXTENDS DeviceTiming, CommandProtocolProofs

(* The windows of a rank: four_aw_ holds the last entries of the history,  *)
(* and those it has dropped are over.                                      *)
Remembers(a, w) ==
  LET k == Len(a) - Len(w)
  IN  /\ k \in Nat
      /\ Len(w) <= config.activates
      /\ Len(a) <= config.activates + 1
      /\ \A i \in 1 .. Len(w) : w[i] = a[k + i]
      /\ \A i \in 1 .. k : a[i] = 0
WindowInv == acts \in [Rank -> Seq(Nat)] /\ \A r \in Rank : Remembers(acts[r], four_aw[r])

(* n cycles for which a bank is occupied are covered by the times it keeps:  *)
(* closed, by the time of every command that needs it idle; open, by the   *)
(* time of the PRECHARGE that must come first, and tRP; asleep, n is 0.    *)
Covers(s, n) ==
  /\ s.state = "CLOSED" => \A t \in IdleType : n <= s.cmd_timing[t]
  /\ s.state = "OPEN" => n <= s.cmd_timing["PRECHARGE"] + config.tRP
  /\ s.state = "SREF" => n = 0

HoldType == hold \in [Bank -> [act : Nat, data : Nat, ref : Nat]]

(* What holds a bank after a transfer; with close_page no row is open      *)
(* during a recovery.                                                      *)
DataHeld == \A b \in Bank :
  /\ Covers(bank_states[b], hold[b].data)
  /\ bank_states[b].state = "CLOSED" => hold[b].data <= bank_states[b].cmd_timing["ACTIVATE"]
  /\ config.close_page /\ bank_states[b].state = "OPEN" => hold[b].data = 0
RowHeld == \A b \in Bank : Covers(bank_states[b], hold[b].act)
RefreshHeld == \A b \in Bank : hold[b].ref <= bank_states[b].cmd_timing["ACTIVATE"]

DeviceInv == ChannelInv /\ WindowInv /\ HoldType

-----------------------------------------------------------------------------
(* A step of the timed channel issues a ready command, asks for a refresh, *)
(* lets a cycle pass, or does nothing.                                     *)
Issuing(ready) ==
  /\ \E cmd \in Requested : Ready(cmd, ready)
  /\ UpdateTimingAndStates(ready)
  /\ Remember(ready)

(* A step that ends the process, or does nothing, leaves alone what the    *)
(* rules speak of.                                                         *)
Standing == UNCHANGED <<bank_states, four_aw, acts, hold>>

LEMMA TimedSteps ==
  ASSUME ChannelInv, HoldType, [TimedNext]_vars
  PROVE  \/ \E ready \in Command : Issuing(ready)
         \/ TimedRequest
         \/ TimedTick
         \/ Standing /\ (issued'.type = "ABORT" \/ UNCHANGED vars)
<1>1. ASSUME NEW cmd \in Requested, Issue(cmd), Remember(GetReadyCommand(cmd))
      PROVE  \/ \E ready \in Command : Issuing(ready)
             \/ Standing /\ issued'.type = "ABORT"
  <2>1. CASE Ends(cmd)
    <3> DEFINE end == GetReadyCommand(cmd)
    <3>1. end.type = "ABORT" /\ issued' = end
      BY <1>1, <2>1 DEF Ends, Remember
    <3>2. Recovery(end) = 0 /\ RefreshTime(end) = 0
      BY <3>1 DEF Recovery, RefreshTime, ReadType, WriteType
    <3>3. acts' = acts
      BY <1>1, <3>1 DEF Remember
    <3>4. hold' = hold
      <4>1. ASSUME NEW n \in Nat PROVE Larger(n, 0) = n
        BY DEF Larger
      <4>2. ASSUME NEW b \in Bank
            PROVE  [act |-> hold[b].act, data |-> Larger(hold[b].data, 0), ref |-> Larger(hold[b].ref, 0)] = hold[b]
        BY <4>1 DEF HoldType
      <4>3. hold' = [b \in Bank |-> hold[b]]
        <5> HIDE DEF end
        <5>1. hold' = [b \in Bank |-> IF b \notin Addressed(end) THEN hold[b] ELSE
                         [act |-> hold[b].act, data |-> Larger(hold[b].data, 0), ref |-> Larger(hold[b].ref, 0)]]
          BY <1>1, <3>1, <3>2 DEF Remember, end
        <5> QED BY <4>2, <5>1
      <4> QED BY <4>3 DEF HoldType
    <3> QED BY <2>1, <3>1, <3>3, <3>4 DEF Ends, Standing
  <2>2. CASE ~Ends(cmd)
    BY <1>1, <2>2, IssuedReady DEF Issuing, Ready, Legal
  <2> QED BY <2>1, <2>2
<1>2. ASSUME TimedIssue
      PROVE  \/ \E ready \in Command : Issuing(ready)
             \/ Standing /\ issued'.type = "ABORT"
  BY <1>1, <1>2 DEF TimedIssue
<1>3. CASE UNCHANGED vars
  BY <1>3 DEF vars, channelVars, Standing
<1> QED BY <1>2, <1>3 DEF TimedNext

LEMMA ChannelInvTimed ==
  ASSUME ChannelInv, [TimedNext]_vars
  PROVE  ChannelInv'
<1>1. [Next]_channelVars
  BY DEF TimedNext, TimedIssue, TimedRequest, TimedTick, Next, vars
<1> QED BY <1>1, ChannelInvNext

(* The commands that are asked for, by the policy for pages.               *)
LEMMA RequestedTypes ==
  ASSUME ChannelInv, NEW cmd \in Requested
  PROVE  /\ cmd.type \in {"READ", "WRITE"} => ~config.close_page
         /\ cmd.type \in {"READ_PRECHARGE", "WRITE_PRECHARGE"} => config.close_page
<1>1. CASE cmd \in ReadWriteCommand
  <2>1. CASE config.close_page
    <3>1. cmd.type \in {"READ_PRECHARGE", "WRITE_PRECHARGE"}
      BY <1>1, <2>1 DEF ReadWriteCommand
    <3> QED BY <2>1, <3>1
  <2>2. CASE ~config.close_page
    <3>1. cmd.type \in {"READ", "WRITE"}
      BY <1>1, <2>2 DEF ReadWriteCommand
    <3> QED BY <2>2, <3>1
  <2> QED BY <2>1, <2>2
<1>2. CASE cmd \in {PowerCommand(r) : r \in {q \in Rank : PowerUpdates}}
  <2>1. PICK r \in Rank : cmd = PowerCommand(r)
    BY <1>2
  <2>2. cmd.type \in {"SREF_ENTER", "SREF_EXIT"}
    BY <2>1 DEF PowerCommand, RefreshCommand, NoCommand
  <2> QED BY <2>2
<1>3. CASE cmd \in FrontRefresh
  <2>1. cmd \in RefreshRequest
    BY <1>3 DEF ChannelInv, TypeOK, FrontRefresh
  <2> QED BY <1>3, <2>1 DEF RefreshRequest, RefreshType
<1> QED BY <1>1, <1>2, <1>3 DEF Requested

LEMMA IssuingTypes ==
  ASSUME ChannelInv, NEW ready \in Command, Issuing(ready)
  PROVE  /\ ready.type \in CommandType
         /\ ready.bank \in Bank
         /\ Legal(ready)
         /\ ready.type \in {"READ", "WRITE"} => ~config.close_page
         /\ ready.type \in {"READ_PRECHARGE", "WRITE_PRECHARGE"} => config.close_page
         /\ ready.type = "ACTIVATE" => ActivationWindowOk(ready.bank[1])
         /\ ready.type # "SREF_EXIT" =>
              \A b \in Addressed(ready) : bank_states[b].cmd_timing[ready.type] = 0
<1>1. PICK cmd \in Requested : Ready(cmd, ready)
  BY DEF Issuing
<1>2. ready.type \in CommandType /\ ready.bank \in Bank
  BY DEF Command
<1>3. ready.type \in {cmd.type, "ACTIVATE", "PRECHARGE", "SREF_EXIT"}
  BY <1>1 DEF Ready
<1> QED BY <1>1, <1>2, <1>3, RequestedTypes DEF Ready

-----------------------------------------------------------------------------
(* The activation window: both sequences may lose an expired first entry,  *)
(* and get the same new one.                                               *)
LEMMA TailElements ==
  ASSUME NEW s \in Seq(Nat), Len(s) > 0
  PROVE  /\ Tail(s) \in Seq(Nat)
         /\ Len(Tail(s)) = Len(s) - 1
         /\ \A i \in 1 .. Len(s) - 1 : Tail(s)[i] = s[i + 1]
OBVIOUS

LEMMA AppendElements ==
  ASSUME NEW s \in Seq(Nat), NEW x \in Nat
  PROVE  /\ Append(s, x) \in Seq(Nat)
         /\ Len(Append(s, x)) = Len(s) + 1
         /\ Append(s, x)[Len(s) + 1] = x
         /\ \A i \in 1 .. Len(s) : Append(s, x)[i] = s[i]
OBVIOUS

LEMMA ForgetHistory ==
  ASSUME NEW a \in Seq(Nat), NEW w \in Seq(Nat), Remembers(a, w), Len(a) > config.activates
  PROVE  Remembers(Tail(a), w) /\ Len(Tail(a)) <= config.activates
<1> DEFINE k == Len(a) - Len(w)
<1>1. config.activates \in Nat \ {0} /\ Len(a) \in Nat /\ Len(w) \in Nat
  BY ProtocolAssumption
<1>2. /\ k \in Nat
      /\ Len(a) = k + Len(w)
      /\ Len(w) <= config.activates
      /\ Len(a) <= config.activates + 1
      /\ \A i \in 1 .. Len(w) : w[i] = a[k + i]
      /\ \A i \in 1 .. k : a[i] = 0
  BY <1>1 DEF Remembers
<1> HIDE DEF k
<1>3. /\ Len(Tail(a)) = Len(a) - 1
      /\ \A i \in 1 .. Len(a) - 1 : Tail(a)[i] = a[i + 1]
  BY <1>1, TailElements
<1>4. Len(Tail(a)) - Len(w) = k - 1 /\ k - 1 \in Nat
  BY <1>1, <1>2, <1>3
<1>5. \A i \in 1 .. Len(w) : w[i] = Tail(a)[(k - 1) + i]
  <2> TAKE i \in 1 .. Len(w)
  <2>1. (k - 1) + i \in 1 .. Len(a) - 1 /\ ((k - 1) + i) + 1 = k + i
    BY <1>1, <1>2, <1>4
  <2>2. Tail(a)[(k - 1) + i] = a[((k - 1) + i) + 1]
    BY <1>3, <2>1
  <2> QED BY <1>2, <2>1, <2>2
<1>6. \A i \in 1 .. k - 1 : Tail(a)[i] = 0
  BY <1>1, <1>2, <1>3, <1>4
<1>7. Len(Tail(a)) <= config.activates
  BY <1>1, <1>2, <1>3
<1>8. Len(Tail(a)) <= config.activates + 1
  BY <1>1, <1>3, <1>7
<1> QED BY <1>2, <1>4, <1>5, <1>6, <1>7, <1>8 DEF Remembers

LEMMA ForgetWindow ==
  ASSUME NEW a \in Seq(Nat), NEW w \in Seq(Nat), Remembers(a, w), w # <<>>, w[1] = 0
  PROVE  Remembers(a, Tail(w)) /\ Len(Tail(w)) < config.activates
<1> DEFINE k == Len(a) - Len(w)
<1>1. config.activates \in Nat \ {0} /\ Len(a) \in Nat /\ Len(w) \in Nat \ {0}
  BY ProtocolAssumption
<1>2. /\ k \in Nat
      /\ Len(a) = k + Len(w)
      /\ Len(w) <= config.activates
      /\ Len(a) <= config.activates + 1
      /\ \A i \in 1 .. Len(w) : w[i] = a[k + i]
      /\ \A i \in 1 .. k : a[i] = 0
  BY <1>1 DEF Remembers
<1> HIDE DEF k
<1>3. /\ Len(Tail(w)) = Len(w) - 1
      /\ \A i \in 1 .. Len(w) - 1 : Tail(w)[i] = w[i + 1]
  BY <1>1, TailElements
<1>4. Len(a) - Len(Tail(w)) = k + 1 /\ k + 1 \in Nat
  BY <1>1, <1>2, <1>3
<1>5. \A i \in 1 .. Len(Tail(w)) : Tail(w)[i] = a[(k + 1) + i]
  <2> TAKE i \in 1 .. Len(Tail(w))
  <2>1. i + 1 \in 1 .. Len(w) /\ k + (i + 1) = (k + 1) + i /\ i \in 1 .. Len(w) - 1
    BY <1>1, <1>2, <1>3
  <2> QED BY <1>2, <1>3, <2>1
<1>6. a[k + 1] = 0
  BY <1>1, <1>2
<1>7. \A i \in 1 .. k + 1 : a[i] = 0
  <2> TAKE i \in 1 .. k + 1
  <2>1. i = k + 1 \/ i \in 1 .. k
    BY <1>1, <1>2
  <2> QED BY <1>2, <1>6, <2>1
<1>8. Len(Tail(w)) <= config.activates /\ Len(Tail(w)) < config.activates
  BY <1>1, <1>2, <1>3
<1>9. Remembers(a, Tail(w))
  BY ONLY <1>2, <1>4, <1>5, <1>7, <1>8 DEF Remembers
<1> QED BY ONLY <1>8, <1>9

LEMMA RememberBoth ==
  ASSUME NEW a \in Seq(Nat), NEW w \in Seq(Nat), NEW x \in Nat, Remembers(a, w),
         Len(a) <= config.activates, Len(w) < config.activates
  PROVE  Remembers(Append(a, x), Append(w, x))
<1> DEFINE k == Len(a) - Len(w)
           A == Append(a, x)
           W == Append(w, x)
<1>1. config.activates \in Nat \ {0} /\ Len(a) \in Nat /\ Len(w) \in Nat
  BY ProtocolAssumption
<1>2. /\ k \in Nat
      /\ Len(a) = k + Len(w)
      /\ \A i \in 1 .. Len(w) : w[i] = a[k + i]
      /\ \A i \in 1 .. k : a[i] = 0
  BY <1>1 DEF Remembers
<1> HIDE DEF k
<1>3. /\ Len(A) = Len(a) + 1
      /\ A[Len(a) + 1] = x
      /\ \A i \in 1 .. Len(a) : A[i] = a[i]
  BY AppendElements
<1>4. /\ Len(W) = Len(w) + 1
      /\ W[Len(w) + 1] = x
      /\ \A i \in 1 .. Len(w) : W[i] = w[i]
  BY AppendElements
<1> HIDE DEF A, W
<1>5. Len(A) - Len(W) = k
  BY <1>1, <1>2, <1>3, <1>4
<1>6. \A i \in 1 .. Len(W) : W[i] = A[k + i]
  <2> TAKE i \in 1 .. Len(W)
  <2>1. CASE i = Len(w) + 1
    <3>1. k + i = Len(a) + 1
      BY <1>1, <1>2, <2>1
    <3> QED BY <1>3, <1>4, <2>1, <3>1
  <2>2. CASE i \in 1 .. Len(w)
    <3>1. k + i \in 1 .. Len(a)
      BY <1>1, <1>2, <2>2
    <3> QED BY <1>2, <1>3, <1>4, <2>2, <3>1
  <2> QED BY <1>1, <1>4, <2>1, <2>2
<1>7. \A i \in 1 .. k : A[i] = 0
  <2> TAKE i \in 1 .. k
  <2>1. i \in 1 .. Len(a)
    BY <1>1, <1>2
  <2> QED BY <1>2, <1>3, <2>1
<1>8. Len(W) <= config.activates /\ Len(A) <= config.activates + 1
  BY <1>1, <1>3, <1>4
<1>9. Remembers(A, W)
  BY <1>2, <1>5, <1>6, <1>7, <1>8 DEF Remembers
<1> QED BY <1>9 DEF A, W

LEMMA WindowStep ==
  ASSUME NEW a \in Seq(Nat), NEW w \in Seq(Nat), Remembers(a, w), WindowOpen(w, config.activates)
  PROVE  /\ Append(IF Len(a) > config.activates THEN Tail(a) ELSE a, config.tFAW) \in Seq(Nat)
         /\ Remembers(Append(IF Len(a) > config.activates THEN Tail(a) ELSE a, config.tFAW),
                      UpdateWindow(w, config.tFAW))
<1> DEFINE a1 == IF Len(a) > config.activates THEN Tail(a) ELSE a
           w1 == IF w # <<>> /\ w[1] = 0 THEN Tail(w) ELSE w
<1>1. config.tFAW \in Nat /\ config.activates \in Nat \ {0} /\ Len(a) \in Nat
  BY TimingAssumption, ProtocolAssumption
<1>2. a1 \in Seq(Nat) /\ Remembers(a1, w) /\ Len(a1) <= config.activates
  <2>1. CASE Len(a) > config.activates
    BY <1>1, <2>1, ForgetHistory, TailElements
  <2>2. CASE ~(Len(a) > config.activates)
    BY <1>1, <2>2
  <2> QED BY <2>1, <2>2
<1> HIDE DEF a1
<1>3. w1 \in Seq(Nat) /\ Remembers(a1, w1) /\ Len(w1) < config.activates
  <2>1. CASE w # <<>> /\ w[1] = 0
    <3>1. Len(w) > 0
      BY <2>1
    <3> QED BY <1>2, <2>1, <3>1, ForgetWindow, TailElements
  <2>2. CASE ~(w # <<>> /\ w[1] = 0)
    <3>1. Len(w) < config.activates
      BY <1>1, <2>2 DEF WindowOpen
    <3> QED BY <1>2, <2>2, <3>1
  <2> QED BY <2>1, <2>2
<1> HIDE DEF w1
<1>4. Remembers(Append(a1, config.tFAW), Append(w1, config.tFAW))
  BY <1>1, <1>2, <1>3, RememberBoth
<1> QED BY <1>1, <1>2, <1>4, AppendElements DEF UpdateWindow, a1, w1

LEMMA WindowTicks ==
  ASSUME NEW a \in Seq(Nat), NEW w \in Seq(Nat), Remembers(a, w)
  PROVE  WindowTick(a) \in Seq(Nat) /\ Remembers(WindowTick(a), WindowTick(w))
<1>1. ASSUME NEW s \in Seq(Nat)
      PROVE  /\ WindowTick(s) \in Seq(Nat)
             /\ Len(WindowTick(s)) = Len(s)
             /\ \A i \in 1 .. Len(s) : WindowTick(s)[i] = CountDown(s[i])
  BY DEF WindowTick, CountDown
<1> DEFINE k == Len(a) - Len(w)
<1>2. /\ k \in Nat
      /\ Len(a) = k + Len(w)
      /\ Len(w) <= config.activates
      /\ Len(a) <= config.activates + 1
      /\ \A i \in 1 .. Len(w) : w[i] = a[k + i]
      /\ \A i \in 1 .. k : a[i] = 0
  BY DEF Remembers
<1>3. Len(WindowTick(a)) - Len(WindowTick(w)) = k
  BY <1>1
<1> HIDE DEF k
<1>4. \A i \in 1 .. Len(w) : WindowTick(w)[i] = WindowTick(a)[k + i]
  <2> TAKE i \in 1 .. Len(w)
  <2>1. k + i \in 1 .. Len(a)
    BY <1>2
  <2>2. w[i] = a[k + i]
    BY <1>2
  <2>3. WindowTick(w)[i] = CountDown(w[i]) /\ WindowTick(a)[k + i] = CountDown(a[k + i])
    BY <1>1, <2>1
  <2> QED BY ONLY <2>2, <2>3
<1>5. \A i \in 1 .. k : WindowTick(a)[i] = 0
  <2> TAKE i \in 1 .. k
  <2>1. i \in 1 .. Len(a)
    BY <1>2
  <2>2. WindowTick(a)[i] = CountDown(0)
    BY <1>1, <1>2, <2>1
  <2> QED BY <2>2 DEF CountDown
<1>6. Len(WindowTick(w)) = Len(w) /\ Len(WindowTick(a)) = Len(a) /\ WindowTick(a) \in Seq(Nat)
  BY <1>1
<1> QED BY <1>2, <1>3, <1>4, <1>5, <1>6 DEF Remembers

-----------------------------------------------------------------------------
LEMMA DeviceInvInit ==
  TimedInit => DeviceInv
<1> SUFFICES ASSUME TimedInit PROVE DeviceInv
  OBVIOUS
<1>1. ChannelInv
  BY ChannelInvInit DEF TimedInit
<1>2. WindowInv
  <2>1. acts = [r \in Rank |-> <<>>] /\ four_aw = [r \in Rank |-> <<>>]
    BY DEF TimedInit, Init, ChannelInit
  <2>2. Remembers(<<>>, <<>>)
    BY ProtocolAssumption DEF Remembers
  <2> QED BY <2>1, <2>2 DEF WindowInv
<1>3. HoldType
  BY DEF TimedInit, HoldType
<1> QED BY <1>1, <1>2, <1>3 DEF DeviceInv

(* The times a command occupies a bank are natural numbers.                *)
LEMMA OccupyTypes ==
  ASSUME NEW cmd
  PROVE  Recovery(cmd) \in Nat /\ RefreshTime(cmd) \in Nat /\ tRC \in Nat
BY TimingAssumption DEF Recovery, RefreshTime, tRC, WL

LEMMA DeviceInvNext ==
  DeviceInv /\ [TimedNext]_vars => DeviceInv'
<1> SUFFICES ASSUME DeviceInv, [TimedNext]_vars PROVE DeviceInv'
  OBVIOUS
<1>1. /\ ChannelInv
      /\ acts \in [Rank -> Seq(Nat)]
      /\ four_aw \in [Rank -> Seq(Nat)]
      /\ \A r \in Rank : Remembers(acts[r], four_aw[r])
      /\ hold \in [Bank -> [act : Nat, data : Nat, ref : Nat]]
  BY DEF DeviceInv, WindowInv, HoldType, ChannelInv, TypeOK
<1>2. ChannelInv'
  BY <1>1, ChannelInvTimed
<1>3. ASSUME NEW ready \in Command, Issuing(ready) PROVE WindowInv' /\ HoldType'
  <2>1. ASSUME ready.type # "ACTIVATE" PROVE WindowInv'
    <3>1. acts' = acts /\ four_aw' = four_aw
      BY <1>3, <2>1 DEF Issuing, UpdateTimingAndStates, Remember
    <3> QED BY <1>1, <3>1 DEF WindowInv
  <2>2. ASSUME ready.type = "ACTIVATE" PROVE WindowInv'
    <3> DEFINE r == ready.bank[1]
               a == Append(IF Len(acts[r]) > config.activates THEN Tail(acts[r]) ELSE acts[r], config.tFAW)
    <3>1. r \in Rank /\ ActivationWindowOk(r)
      BY <1>1, <1>3, <2>2, IssuingTypes DEF Bank
    <3>2. a \in Seq(Nat) /\ Remembers(a, UpdateWindow(four_aw[r], config.tFAW))
      BY <1>1, <3>1, WindowStep DEF ActivationWindowOk
    <3>3. /\ acts' = [acts EXCEPT ![r] = a]
          /\ four_aw' = [four_aw EXCEPT ![r] = UpdateWindow(@, config.tFAW)]
      BY <1>3, <2>2 DEF Issuing, UpdateTimingAndStates, Remember
    <3> HIDE DEF r, a
    <3> QED BY <1>1, <3>1, <3>2, <3>3 DEF WindowInv
  <2>3. HoldType'
    <3>1. ASSUME NEW b \in Bank PROVE hold'[b] \in [act : Nat, data : Nat, ref : Nat]
      BY <1>1, <1>3, OccupyTypes DEF Issuing, Remember, Larger
    <3> QED BY <1>3, <3>1 DEF Issuing, Remember, HoldType
  <2> QED BY <2>1, <2>2, <2>3
<1>4. ASSUME TimedRequest PROVE WindowInv' /\ HoldType'
  BY <1>1, <1>4 DEF TimedRequest, NeedRefresh, WindowInv, HoldType
<1>5. ASSUME TimedTick PROVE WindowInv' /\ HoldType'
  <2>1. WindowInv'
    BY <1>1, <1>5, WindowTicks DEF TimedTick, Tick, ChannelTick, WindowInv
  <2>2. HoldType'
    BY <1>1, <1>5 DEF TimedTick, HoldType, CountDown
  <2> QED BY <2>1, <2>2
<1>6. ASSUME Standing PROVE WindowInv' /\ HoldType'
  BY <1>1, <1>6 DEF Standing, WindowInv, HoldType
<1> QED BY <1>1, <1>2, <1>3, <1>4, <1>5, <1>6, TimedSteps DEF DeviceInv

(* For every configuration: no more than config.activates ACTIVATEs of a   *)
(* rank within any tFAW cycles, although UpdateActivationTimes drops one   *)
(* expired entry at a time.                                                *)
THEOREM WindowNeverExceeded == TimedSpec => []ActivationsPerWindow
<1>1. TimedInit => DeviceInv
  BY DeviceInvInit
<1>2. DeviceInv /\ [TimedNext]_vars => DeviceInv'
  BY DeviceInvNext
<1>3. DeviceInv => ActivationsPerWindow
  <2> SUFFICES ASSUME DeviceInv, NEW r \in Rank, Len(acts[r]) > config.activates PROVE acts[r][1] = 0
    BY DEF ActivationsPerWindow
  <2>1. /\ Remembers(acts[r], four_aw[r])
        /\ acts[r] \in Seq(Nat)
        /\ four_aw[r] \in Seq(Nat)
        /\ config.activates \in Nat \ {0}
    BY ProtocolAssumption DEF DeviceInv, WindowInv, ChannelInv, TypeOK
  <2>2. 1 \in 1 .. Len(acts[r]) - Len(four_aw[r])
    BY <2>1 DEF Remembers
  <2> QED BY <2>1, <2>2 DEF Remembers
<1> QED BY <1>1, <1>2, <1>3, PTL DEF TimedSpec

-----------------------------------------------------------------------------
(* The entries of the tables that the rules about one bank rest on.        *)
LEMMA OwnWait ==
  ASSUME NEW cmd \in Command
  PROVE  /\ cmd.type \in ReadType \cup WriteType \cup {"ACTIVATE", "PRECHARGE"}
              => WaitAfter(cmd, cmd.bank) = same_bank[cmd.type]
         /\ cmd.type = "REFRESH" => \A b \in Addressed(cmd) : WaitAfter(cmd, b)["ACTIVATE"] = config.tRFC
<1>1. cmd.type \in CommandType
  BY DEF Command
<1>2. cmd.type \in ReadType \cup WriteType \cup {"ACTIVATE", "PRECHARGE"}
        => WaitAfter(cmd, cmd.bank) = same_bank[cmd.type]
  BY <1>1 DEF WaitAfter, RankType, ReadType, WriteType
<1>3. cmd.type = "REFRESH" => \A b \in Addressed(cmd) : WaitAfter(cmd, b) = same_rank["REFRESH"]
  BY DEF WaitAfter, SameRankWait, Addressed, RankType, RankBanks
<1>4. same_rank["REFRESH"]["ACTIVATE"] = config.tRFC
  BY DEF same_rank, Wait, CommandType
<1> QED BY <1>2, <1>3, <1>4

LEMMA SameBank ==
  /\ same_bank["READ"]["PRECHARGE"] = read_to_precharge
  /\ same_bank["WRITE"]["PRECHARGE"] = write_to_precharge
  /\ \A t \in IdleType : same_bank["READ_PRECHARGE"][t] = read_to_activate
  /\ same_bank["READ_PRECHARGE"]["ACTIVATE"] = readp_to_act
  /\ \A t \in IdleType \cup {"ACTIVATE"} : same_bank["WRITE_PRECHARGE"][t] = write_to_activate
  /\ same_bank["ACTIVATE"]["PRECHARGE"] = activate_to_precharge
  /\ \A t \in IdleType \cup {"ACTIVATE"} : same_bank["PRECHARGE"][t] = config.tRP
<1>1. same_bank["READ"]["PRECHARGE"] = read_to_precharge /\ same_bank["WRITE"]["PRECHARGE"] = write_to_precharge
  BY DEF same_bank, RWWait, CommandType
<1>2. \A t \in IdleType : same_bank["READ_PRECHARGE"][t] = read_to_activate
  BY DEF same_bank, Wait, CommandType, IdleType, RefreshType
<1>3. same_bank["READ_PRECHARGE"]["ACTIVATE"] = readp_to_act
  BY DEF same_bank, Wait, CommandType
<1>4. \A t \in IdleType \cup {"ACTIVATE"} : same_bank["WRITE_PRECHARGE"][t] = write_to_activate
  BY DEF same_bank, Wait, CommandType, IdleType, RefreshType
<1>5. same_bank["ACTIVATE"]["PRECHARGE"] = activate_to_precharge
  BY DEF same_bank, RWWait, CommandType
<1>6. \A t \in IdleType \cup {"ACTIVATE"} : same_bank["PRECHARGE"][t] = config.tRP
  BY DEF same_bank, Wait, CommandType, IdleType, RefreshType
<1> QED BY <1>1, <1>2, <1>3, <1>4, <1>5, <1>6

(* The banks after an issued command, with the facts the cases below use.  *)
LEMMA IssuingBank ==
  ASSUME ChannelInv, NEW ready \in Command, Issuing(ready), NEW b \in Bank
  PROVE  /\ bank_states[b] \in BankRecord
         /\ bank_states'[b] \in BankRecord
         /\ bank_states'[b].state = IF b \in Addressed(ready) THEN StateAfter(bank_states[b].state, ready.type)
                                    ELSE bank_states[b].state
         /\ \A t \in CommandType : /\ bank_states[b].cmd_timing[t] \in Nat
                                   /\ bank_states'[b].cmd_timing[t] \in Nat
                                   /\ bank_states'[b].cmd_timing[t] >= bank_states[b].cmd_timing[t]
                                   /\ bank_states'[b].cmd_timing[t] >= WaitAfter(ready, b)[t]
         /\ b \in Addressed(ready) => StateAfter(bank_states[b].state, ready.type) # "ABORT"
         /\ ready.type \notin RankType => (b \in Addressed(ready) <=> b = ready.bank)
<1>1. TypeOK /\ Legal(ready) /\ UpdateTimingAndStates(ready)
  BY IssuingTypes DEF ChannelInv, Issuing
<1>2. bank_states[b] \in BankRecord /\ bank_states'[b] \in BankRecord
  BY <1>1, BankAfter DEF TypeOK
<1>3. \A t \in CommandType : /\ bank_states[b].cmd_timing[t] \in Nat
                             /\ bank_states'[b].cmd_timing[t] \in Nat
  BY <1>2 DEF BankRecord
<1>4. ready.type \notin RankType => (b \in Addressed(ready) <=> b = ready.bank)
  BY DEF Addressed
<1>5. b \in Addressed(ready) => StateAfter(bank_states[b].state, ready.type) # "ABORT"
  BY <1>1 DEF Legal
<1> QED BY <1>1, <1>2, <1>3, <1>4, <1>5, BankAfter

(* Time that is covered stays covered when a command is issued: PRECHARGE  *)
(* carries it over to the closed bank, and there is none left when a bank  *)
(* is put to sleep. The commands excepted are those that change the state  *)
(* of a bank and whose time does not say that of a PRECHARGE is over.      *)
LEMMA CoversIssue ==
  ASSUME ChannelInv, NEW ready \in Command, Issuing(ready), NEW b \in Bank,
         NEW n \in Nat, Covers(bank_states[b], n),
         ready.type \in {"READ_PRECHARGE", "WRITE_PRECHARGE", "ACTIVATE"} /\ b = ready.bank => n = 0
  PROVE  Covers(bank_states'[b], n)
<1> DEFINE s == bank_states[b]
           p == bank_states'[b]
<1>1. /\ ready.type \in CommandType
      /\ ready.type # "SREF_EXIT" => \A c \in Addressed(ready) : bank_states[c].cmd_timing[ready.type] = 0
  BY IssuingTypes
<1>2. /\ s.state \in {"CLOSED", "OPEN", "SREF"}
      /\ config.tRP \in Nat
      /\ IdleType \subseteq CommandType
      /\ "PRECHARGE" \in CommandType
  BY IssuingBank, TimingAssumption DEF BankRecord, IdleType, RefreshType, CommandType
<1>3. /\ p.state = IF b \in Addressed(ready) THEN StateAfter(s.state, ready.type) ELSE s.state
      /\ b \in Addressed(ready) => StateAfter(s.state, ready.type) # "ABORT"
      /\ \A t \in CommandType : /\ s.cmd_timing[t] \in Nat
                                /\ p.cmd_timing[t] \in Nat
                                /\ p.cmd_timing[t] >= s.cmd_timing[t]
                                /\ p.cmd_timing[t] >= WaitAfter(ready, b)[t]
      /\ ready.type \notin RankType => (b \in Addressed(ready) <=> b = ready.bank)
  BY IssuingBank
<1>4. /\ s.state = "CLOSED" => \A t \in IdleType : n <= s.cmd_timing[t]
      /\ s.state = "OPEN" => n <= s.cmd_timing["PRECHARGE"] + config.tRP
      /\ s.state = "SREF" => n = 0
  BY DEF Covers
<1> HIDE DEF s, p
<1>5. CASE p.state = s.state
  BY <1>2, <1>3, <1>4, <1>5 DEF Covers, p
<1>6. CASE n = 0
  BY <1>2, <1>3, <1>6 DEF Covers, p
<1>7. CASE p.state # s.state /\ n # 0
  <2>1. b \in Addressed(ready) /\ p.state = StateAfter(s.state, ready.type) /\ p.state # "ABORT"
    BY <1>3, <1>7
  <2>2. CASE s.state = "OPEN"
    <3>1. ready.type = "PRECHARGE" /\ p.state = "CLOSED" /\ b = ready.bank
      BY <1>3, <1>7, <2>1, <2>2 DEF StateAfter, RankType
    <3>2. s.cmd_timing["PRECHARGE"] = 0
      BY <1>1, <2>1, <3>1 DEF s
    <3>3. \A t \in IdleType : WaitAfter(ready, b)[t] = config.tRP
      BY <3>1, OwnWait, SameBank
    <3>4. n <= config.tRP
      BY <1>2, <1>4, <2>2, <3>2
    <3>5. \A t \in IdleType : n <= p.cmd_timing[t]
      BY <1>2, <1>3, <3>3, <3>4
    <3> QED BY <3>1, <3>5 DEF Covers, p
  <2>3. CASE s.state = "CLOSED"
    <3>1. ready.type = "SREF_ENTER"
      BY <1>3, <1>7, <2>1, <2>3 DEF StateAfter, RankType
    <3>2. s.cmd_timing[ready.type] = 0
      BY <1>1, <2>1, <3>1 DEF s
    <3> QED BY <1>4, <1>7, <2>3, <3>1, <3>2 DEF IdleType
  <2>4. CASE s.state = "SREF"
    BY <1>4, <1>7, <2>4
  <2> QED BY <1>2, <2>2, <2>3, <2>4
<1> QED BY <1>5, <1>6, <1>7

LEMMA CoversTick ==
  ASSUME NEW s \in BankRecord, NEW n \in Nat, Covers(s, n)
  PROVE  Covers(BankTick(s), CountDown(n))
<1>1. /\ BankTick(s).state = s.state
      /\ \A t \in CommandType : /\ BankTick(s).cmd_timing[t] = CountDown(s.cmd_timing[t])
                                /\ s.cmd_timing[t] \in Nat
  BY BankTickType DEF BankRecord
<1>2. config.tRP \in Nat /\ IdleType \subseteq CommandType /\ "PRECHARGE" \in CommandType
  BY TimingAssumption DEF IdleType, RefreshType, CommandType
<1>3. ASSUME NEW m \in Nat, n <= m PROVE CountDown(n) <= CountDown(m)
  BY <1>3 DEF CountDown
<1>4. ASSUME NEW m \in Nat, n <= m + config.tRP PROVE CountDown(n) <= CountDown(m) + config.tRP
  BY <1>2, <1>4 DEF CountDown
<1>5. CountDown(0) = 0
  BY DEF CountDown
<1>6. CASE s.state = "CLOSED"
  <2>1. \A t \in IdleType : n <= s.cmd_timing[t]
    BY <1>6 DEF Covers
  <2>2. \A t \in IdleType : CountDown(n) <= BankTick(s).cmd_timing[t]
    BY <1>1, <1>2, <1>3, <2>1
  <2> QED BY <1>1, <1>6, <2>2 DEF Covers
<1>7. CASE s.state = "OPEN"
  <2>1. n <= s.cmd_timing["PRECHARGE"] + config.tRP
    BY <1>7 DEF Covers
  <2>2. CountDown(n) <= BankTick(s).cmd_timing["PRECHARGE"] + config.tRP
    BY <1>1, <1>2, <1>4, <2>1
  <2> QED BY <1>1, <1>7, <2>2 DEF Covers
<1>8. CASE s.state = "SREF"
  <2>1. n = 0
    BY <1>8 DEF Covers
  <2> QED BY <1>1, <1>5, <1>8, <2>1 DEF Covers
<1> QED BY <1>6, <1>7, <1>8 DEF BankRecord

(* What a transfer adds to the occupation of a bank is covered.            *)
LEMMA RecoveryCovered ==
  ASSUME ChannelInv, NEW ready \in Command, Issuing(ready), NEW b \in Addressed(ready)
  PROVE  /\ Covers(bank_states'[b], Recovery(ready))
         /\ bank_states'[b].state = "CLOSED" => Recovery(ready) <= bank_states'[b].cmd_timing["ACTIVATE"]
<1> DEFINE p == bank_states'[b]
<1>1. b \in Bank
  BY IssuingTypes DEF Addressed, RankBanks
<1>2. /\ p.state = StateAfter(bank_states[b].state, ready.type)
      /\ p.state # "ABORT"
      /\ \A t \in CommandType : p.cmd_timing[t] \in Nat /\ p.cmd_timing[t] >= WaitAfter(ready, b)[t]
      /\ ready.type \notin RankType => b = ready.bank
  BY <1>1, IssuingBank
<1>3. /\ config.tRP \in Nat /\ config.AL \in Nat /\ config.CWL \in Nat /\ config.tRTP \in Nat
      /\ config.burst_cycle \in Nat /\ config.tWR \in Nat
      /\ IdleType \cup {"PRECHARGE", "ACTIVATE"} \subseteq CommandType
  BY TimingAssumption DEF IdleType, RefreshType, CommandType
<1> HIDE DEF p
<1>4. CASE ready.type = "READ"
  <2>1. p.state = "OPEN" /\ b = ready.bank
    BY <1>2, <1>4 DEF StateAfter, RankType, RefreshType
  <2>2. p.cmd_timing["PRECHARGE"] >= read_to_precharge
    BY <1>2, <1>3, <1>4, <2>1, OwnWait, SameBank DEF ReadType
  <2>3. Recovery(ready) = config.AL + config.tRTP + config.tRP
    BY <1>4 DEF Recovery, ReadType, WriteType
  <2>4. Recovery(ready) <= p.cmd_timing["PRECHARGE"] + config.tRP
    BY <1>2, <1>3, <2>2, <2>3 DEF read_to_precharge
  <2> QED BY <2>1, <2>4 DEF Covers, p
<1>5. CASE ready.type = "WRITE"
  <2>1. p.state = "OPEN" /\ b = ready.bank
    BY <1>2, <1>5 DEF StateAfter, RankType, RefreshType
  <2>2. p.cmd_timing["PRECHARGE"] >= write_to_precharge
    BY <1>2, <1>3, <1>5, <2>1, OwnWait, SameBank DEF WriteType
  <2>3. Recovery(ready) = WL + config.burst_cycle + config.tWR + config.tRP
    BY <1>5 DEF Recovery, ReadType, WriteType
  <2>4. Recovery(ready) <= p.cmd_timing["PRECHARGE"] + config.tRP
    BY <1>2, <1>3, <2>2, <2>3 DEF write_to_precharge, WL
  <2> QED BY <2>1, <2>4 DEF Covers, p
<1>6. CASE ready.type = "READ_PRECHARGE"
  <2>1. p.state = "CLOSED" /\ b = ready.bank
    BY <1>2, <1>6 DEF StateAfter, RankType, RefreshType
  <2>2. /\ \A t \in IdleType : p.cmd_timing[t] >= read_to_activate
        /\ p.cmd_timing["ACTIVATE"] >= readp_to_act
    BY <1>2, <1>3, <1>6, <2>1, OwnWait, SameBank DEF ReadType
  <2>3. Recovery(ready) = config.AL + config.tRTP + config.tRP
    BY <1>6 DEF Recovery, ReadType, WriteType
  <2>4. /\ \A t \in IdleType : Recovery(ready) <= p.cmd_timing[t]
        /\ Recovery(ready) <= p.cmd_timing["ACTIVATE"]
    BY <1>2, <1>3, <2>2, <2>3 DEF read_to_activate, readp_to_act, read_to_precharge
  <2> QED BY <2>1, <2>4 DEF Covers, p
<1>7. CASE ready.type = "WRITE_PRECHARGE"
  <2>1. p.state = "CLOSED" /\ b = ready.bank
    BY <1>2, <1>7 DEF StateAfter, RankType, RefreshType
  <2>2. \A t \in IdleType \cup {"ACTIVATE"} : p.cmd_timing[t] >= write_to_activate
    BY <1>2, <1>3, <1>7, <2>1, OwnWait, SameBank DEF WriteType
  <2>3. Recovery(ready) = WL + config.burst_cycle + config.tWR + config.tRP
    BY <1>7 DEF Recovery, ReadType, WriteType
  <2>4. \A t \in IdleType \cup {"ACTIVATE"} : Recovery(ready) <= p.cmd_timing[t]
    BY <1>2, <1>3, <2>2, <2>3 DEF write_to_activate, write_to_precharge, WL
  <2> QED BY <2>1, <2>4 DEF Covers, p
<1>8. CASE ready.type \notin ReadWriteType
  <2>1. Recovery(ready) = 0
    BY <1>8 DEF Recovery, ReadWriteType, ReadType, WriteType
  <2> QED BY <1>2, <1>3, <2>1 DEF Covers, p
<1> QED BY <1>4, <1>5, <1>6, <1>7, <1>8 DEF ReadWriteType, ReadType, WriteType

-----------------------------------------------------------------------------
(* What holds a bank after a transfer.                                     *)
LEMMA DataHeldInit ==
  TimedInit => DataHeld /\ RowHeld
<1> SUFFICES ASSUME TimedInit, NEW b \in Bank
             PROVE  /\ hold[b].data = 0 /\ hold[b].act = 0
                    /\ bank_states[b].state = "CLOSED"
                    /\ \A t \in IdleType \cup {"ACTIVATE"} : bank_states[b].cmd_timing[t] = 0
  BY DEF DataHeld, RowHeld, Covers
<1>1. bank_states[b] = ClosedBank /\ hold[b] = [act |-> 0, data |-> 0, ref |-> 0]
  BY DEF TimedInit, Init, ChannelInit
<1> QED BY <1>1 DEF ClosedBank, IdleType, RefreshType, CommandType

LEMMA DataHeldIssue ==
  ASSUME DeviceInv, DataHeld, NEW ready \in Command, Issuing(ready)
  PROVE  DataHeld'
<1> SUFFICES ASSUME NEW b \in Bank
             PROVE  /\ Covers(bank_states'[b], hold'[b].data)
                    /\ bank_states'[b].state = "CLOSED" => hold'[b].data <= bank_states'[b].cmd_timing["ACTIVATE"]
                    /\ config.close_page /\ bank_states'[b].state = "OPEN" => hold'[b].data = 0
  BY DEF DataHeld
<1> DEFINE s == bank_states[b]
           p == bank_states'[b]
           n == hold[b].data
<1>1. ChannelInv /\ n \in Nat /\ Recovery(ready) \in Nat
  BY OccupyTypes DEF DeviceInv, HoldType
<1>2. /\ ready.type \in CommandType
      /\ ready.type \in {"READ", "WRITE"} => ~config.close_page
      /\ ready.type \in {"READ_PRECHARGE", "WRITE_PRECHARGE"} => config.close_page
      /\ ready.type # "SREF_EXIT" => \A c \in Addressed(ready) : bank_states[c].cmd_timing[ready.type] = 0
  BY <1>1, IssuingTypes
<1>3. /\ p.state = IF b \in Addressed(ready) THEN StateAfter(s.state, ready.type) ELSE s.state
      /\ b \in Addressed(ready) => StateAfter(s.state, ready.type) # "ABORT"
      /\ \A t \in CommandType : /\ s.cmd_timing[t] \in Nat
                                /\ p.cmd_timing[t] \in Nat
                                /\ p.cmd_timing[t] >= s.cmd_timing[t]
                                /\ p.cmd_timing[t] >= WaitAfter(ready, b)[t]
      /\ ready.type \notin RankType => (b \in Addressed(ready) <=> b = ready.bank)
      /\ s \in BankRecord
  BY <1>1, IssuingBank
<1>4. /\ Covers(s, n)
      /\ s.state = "CLOSED" => n <= s.cmd_timing["ACTIVATE"]
      /\ config.close_page /\ s.state = "OPEN" => n = 0
  BY DEF DataHeld
<1>5. "ACTIVATE" \in CommandType
  BY DEF CommandType
<1> HIDE DEF s, p, n
<1>6. ready.type \in {"READ_PRECHARGE", "WRITE_PRECHARGE", "ACTIVATE"} /\ b = ready.bank => n = 0
  <2> SUFFICES ASSUME ready.type \in {"READ_PRECHARGE", "WRITE_PRECHARGE", "ACTIVATE"}, b = ready.bank
               PROVE  n = 0
    OBVIOUS
  <2>1. b \in Addressed(ready)
    BY <1>3 DEF RankType
  <2>2. CASE ready.type = "ACTIVATE"
    <3>1. s.cmd_timing["ACTIVATE"] = 0 /\ s.state = "CLOSED"
      BY <1>2, <1>3, <2>1, <2>2 DEF StateAfter, s, RefreshType
    <3> QED BY <1>1, <1>4, <3>1
  <2>3. CASE ready.type \in {"READ_PRECHARGE", "WRITE_PRECHARGE"}
    <3>1. s.state = "OPEN"
      BY <1>3, <2>1, <2>3 DEF StateAfter, RefreshType
    <3> QED BY <1>2, <1>4, <2>3, <3>1
  <2> QED BY <2>2, <2>3
<1>7. Covers(p, n)
  BY <1>1, <1>4, <1>6, CoversIssue DEF s, p
<1>8. p.state = "CLOSED" => n <= p.cmd_timing["ACTIVATE"]
  <2>1. CASE s.state = "CLOSED"
    BY <1>1, <1>3, <1>4, <1>5, <2>1
  <2>2. CASE n = 0
    BY <1>3, <1>5, <2>2
  <2>3. CASE s.state = "OPEN" /\ p.state = "CLOSED" /\ n # 0
    <3>1. b \in Addressed(ready) /\ ready.type = "PRECHARGE" /\ b = ready.bank
      BY <1>3, <1>6, <2>3 DEF StateAfter, RankType
    <3>2. s.cmd_timing["PRECHARGE"] = 0
      BY <1>2, <3>1 DEF s
    <3>3. n <= config.tRP /\ config.tRP \in Nat
      BY <1>1, <1>4, <2>3, <3>2, TimingAssumption DEF Covers
    <3>4. p.cmd_timing["ACTIVATE"] >= config.tRP
      BY <1>3, <1>5, <3>1, OwnWait, SameBank
    <3> QED BY <1>1, <1>3, <1>5, <3>3, <3>4
  <2>4. s.state = "SREF" => n = 0
    BY <1>4 DEF Covers
  <2> QED BY <1>3, <2>1, <2>2, <2>3, <2>4 DEF BankRecord
<1>9. config.close_page /\ p.state = "OPEN" => n = 0 /\ (b \in Addressed(ready) => Recovery(ready) = 0)
  <2> SUFFICES ASSUME config.close_page, p.state = "OPEN"
               PROVE  n = 0 /\ (b \in Addressed(ready) => Recovery(ready) = 0)
    OBVIOUS
  <2>1. CASE b \notin Addressed(ready)
    BY <1>3, <1>4, <2>1
  <2>2. CASE b \in Addressed(ready)
    <3>1. ready.type = "ACTIVATE"
      BY <1>2, <1>3, <2>2 DEF StateAfter
    <3>2. Recovery(ready) = 0 /\ b = ready.bank
      BY <1>3, <2>2, <3>1 DEF Recovery, ReadType, WriteType, RankType
    <3> QED BY <1>6, <3>1, <3>2
  <2> QED BY <2>1, <2>2
<1>10. CASE b \notin Addressed(ready)
  <2>1. hold'[b].data = n
    BY <1>10 DEF Issuing, Remember, n
  <2> QED BY <1>7, <1>8, <1>9, <2>1 DEF p
<1>11. CASE b \in Addressed(ready)
  <2>1. hold'[b].data = Larger(n, Recovery(ready))
    BY <1>11 DEF Issuing, Remember, n
  <2>2. hold'[b].data \in {n, Recovery(ready)}
    BY <2>1 DEF Larger
  <2>3. /\ Covers(p, Recovery(ready))
        /\ p.state = "CLOSED" => Recovery(ready) <= p.cmd_timing["ACTIVATE"]
    BY <1>1, <1>11, RecoveryCovered DEF p
  <2> QED BY <1>7, <1>8, <1>9, <1>11, <2>2, <2>3 DEF p
<1> QED BY <1>10, <1>11

LEMMA DataHeldNext ==
  DeviceInv /\ DataHeld /\ [TimedNext]_vars => DataHeld'
<1> SUFFICES ASSUME DeviceInv, DataHeld, [TimedNext]_vars PROVE DataHeld'
  OBVIOUS
<1>1. ASSUME NEW ready \in Command, Issuing(ready) PROVE DataHeld'
  BY <1>1, DataHeldIssue
<1>2. CASE TimedRequest
  BY <1>2 DEF TimedRequest, NeedRefresh, DataHeld
<1>3. CASE TimedTick
  <2> SUFFICES ASSUME NEW b \in Bank
               PROVE  /\ Covers(bank_states'[b], hold'[b].data)
                      /\ bank_states'[b].state = "CLOSED"
                           => hold'[b].data <= bank_states'[b].cmd_timing["ACTIVATE"]
                      /\ config.close_page /\ bank_states'[b].state = "OPEN" => hold'[b].data = 0
    BY DEF DataHeld
  <2> DEFINE s == bank_states[b]
             n == hold[b].data
  <2>1. bank_states'[b] = BankTick(s) /\ hold'[b].data = CountDown(n)
    BY <1>3 DEF TimedTick, Tick, ChannelTick
  <2>2. s \in BankRecord /\ n \in Nat
    BY DEF DeviceInv, ChannelInv, TypeOK, HoldType
  <2>3. /\ Covers(s, n)
        /\ s.state = "CLOSED" => n <= s.cmd_timing["ACTIVATE"]
        /\ config.close_page /\ s.state = "OPEN" => n = 0
    BY DEF DataHeld
  <2> HIDE DEF s, n
  <2>4. Covers(BankTick(s), CountDown(n))
    BY <2>2, <2>3, CoversTick
  <2>5. /\ BankTick(s).state = s.state
        /\ BankTick(s).cmd_timing["ACTIVATE"] = CountDown(s.cmd_timing["ACTIVATE"])
        /\ s.cmd_timing["ACTIVATE"] \in Nat
    BY <2>2, BankTickType DEF BankRecord, CommandType
  <2>6. s.state = "CLOSED" => CountDown(n) <= CountDown(s.cmd_timing["ACTIVATE"])
    BY <2>2, <2>3, <2>5 DEF CountDown
  <2>7. config.close_page /\ s.state = "OPEN" => CountDown(n) = 0
    BY <2>3 DEF CountDown
  <2> QED BY <2>1, <2>4, <2>5, <2>6, <2>7
<1>4. CASE Standing
  BY <1>4 DEF Standing, DataHeld
<1> QED BY <1>1, <1>2, <1>3, <1>4, TimedSteps DEF DeviceInv

(* A command that needs its banks idle finds them closed, and their times  *)
(* over.                                                                   *)
LEMMA IdleCommand ==
  ASSUME ChannelInv, NEW ready \in Command, Issuing(ready),
         ready.type \in IdleType \cup {"ACTIVATE"}, NEW b \in Addressed(ready)
  PROVE  /\ b \in Bank
         /\ bank_states[b].state = "CLOSED"
         /\ bank_states[b].cmd_timing[ready.type] = 0
<1>1. b \in Bank /\ bank_states[b].cmd_timing[ready.type] = 0
  BY IssuingTypes DEF Addressed, RankBanks, IdleType, RefreshType
<1>2. StateAfter(bank_states[b].state, ready.type) # "ABORT"
  BY <1>1, IssuingBank
<1> QED BY <1>1, <1>2 DEF StateAfter, IdleType, RefreshType

(* A step that leaves a type a rule speaks of has issued that command.     *)
LEMMA IssuedStep ==
  ASSUME DeviceInv, [TimedNext]_vars, ~(UNCHANGED vars), issued'.type \notin {"SIZE", "ABORT"}
  PROVE  \E ready \in Command : Issuing(ready) /\ issued' = ready
<1>1. ASSUME TimedRequest \/ TimedTick PROVE issued'.type = "SIZE"
  BY <1>1 DEF TimedRequest, TimedTick, NoCommand
<1>2. PICK ready \in Command : Issuing(ready)
  BY <1>1, TimedSteps DEF DeviceInv
<1> QED BY <1>2 DEF Issuing, Remember

(* For every configuration: no ACTIVATE, refresh or self refresh reaches a *)
(* bank before the recovery and the precharge after its last transfer are  *)
(* over.                                                                   *)
THEOREM DataAlwaysRestored == TimedSpec => DataRestored
<1> DEFINE Rule == issued'.type \in IdleType \cup {"ACTIVATE"} => \A b \in Addressed(issued') : hold[b].data = 0
<1>1. TimedInit => DeviceInv /\ DataHeld
  BY DeviceInvInit, DataHeldInit
<1>2. DeviceInv /\ DataHeld /\ [TimedNext]_vars => (DeviceInv /\ DataHeld)'
  BY DeviceInvNext, DataHeldNext
<1>3. DeviceInv /\ DataHeld /\ [TimedNext]_vars => [Rule]_vars
  <2> SUFFICES ASSUME DeviceInv, DataHeld, [TimedNext]_vars, ~(UNCHANGED vars),
                      issued'.type \in IdleType \cup {"ACTIVATE"}, NEW b \in Addressed(issued')
               PROVE  hold[b].data = 0
    OBVIOUS
  <2>1. PICK ready \in Command : Issuing(ready) /\ issued' = ready
    BY IssuedStep DEF IdleType, RefreshType
  <2>2. /\ b \in Bank
        /\ bank_states[b].state = "CLOSED"
        /\ bank_states[b].cmd_timing[ready.type] = 0
    BY <2>1, IdleCommand DEF DeviceInv
  <2>3. hold[b].data <= bank_states[b].cmd_timing[ready.type] /\ hold[b].data \in Nat
    BY <2>1, <2>2 DEF DataHeld, Covers, DeviceInv, HoldType
  <2> QED BY <2>2, <2>3
<1> QED BY <1>1, <1>2, <1>3, PTL DEF TimedSpec, DataRestored

-----------------------------------------------------------------------------
(* What holds a bank after an ACTIVATE.                                    *)
LEMMA RowHeldNext ==
  ASSUME ~config.close_page
  PROVE  DeviceInv /\ RowHeld /\ [TimedNext]_vars => RowHeld'
<1> SUFFICES ASSUME DeviceInv, RowHeld, [TimedNext]_vars, NEW b \in Bank
             PROVE  Covers(bank_states'[b], hold'[b].act)
  BY DEF RowHeld
<1> DEFINE s == bank_states[b]
           n == hold[b].act
<1>1. ChannelInv /\ n \in Nat /\ s \in BankRecord /\ Covers(s, n)
  BY DEF DeviceInv, HoldType, ChannelInv, TypeOK, RowHeld
<1>2. ASSUME NEW ready \in Command, Issuing(ready) PROVE Covers(bank_states'[b], hold'[b].act)
  <2>1. CASE ready.type = "ACTIVATE" /\ b = ready.bank
    <3>1. b \in Addressed(ready) /\ hold'[b].act = tRC
      BY <1>2, <2>1 DEF Issuing, Remember, Addressed, RankType
    <3>2. bank_states'[b].state = "OPEN"
      BY <1>1, <1>2, <2>1, <3>1, IssuingBank DEF StateAfter, RefreshType
    <3>3. bank_states'[b].cmd_timing["PRECHARGE"] \in Nat
          /\ bank_states'[b].cmd_timing["PRECHARGE"] >= WaitAfter(ready, b)["PRECHARGE"]
      BY <1>1, <1>2, IssuingBank DEF CommandType
    <3>4. WaitAfter(ready, b)["PRECHARGE"] = config.tRAS
      BY <2>1, OwnWait, SameBank DEF activate_to_precharge
    <3>5. tRC <= bank_states'[b].cmd_timing["PRECHARGE"] + config.tRP
      BY <3>3, <3>4, TimingAssumption DEF tRC
    <3> QED BY <3>1, <3>2, <3>5 DEF Covers
  <2>2. CASE ~(ready.type = "ACTIVATE" /\ b = ready.bank)
    <3>1. hold'[b].act = n
      BY <1>2, <2>2 DEF Issuing, Remember, Addressed, RankType
    <3>2. ready.type \notin {"READ_PRECHARGE", "WRITE_PRECHARGE"}
      BY <1>1, <1>2, IssuingTypes
    <3>3. Covers(bank_states'[b], n)
      BY <1>1, <1>2, <2>2, <3>2, CoversIssue
    <3> QED BY <3>1, <3>3
  <2> QED BY <2>1, <2>2
<1>3. CASE TimedRequest
  BY <1>1, <1>3 DEF TimedRequest, NeedRefresh
<1>4. CASE TimedTick
  <2>1. bank_states'[b] = BankTick(s) /\ hold'[b].act = CountDown(n)
    BY <1>4 DEF TimedTick, Tick, ChannelTick
  <2> QED BY <1>1, <2>1, CoversTick
<1>5. CASE Standing
  BY <1>1, <1>5 DEF Standing
<1> QED BY <1>1, <1>2, <1>3, <1>4, <1>5, TimedSteps DEF DeviceInv

(* With the open-page policy a refresh never reaches a bank earlier than   *)
(* tRC after its ACTIVATE, for every configuration.                        *)
THEOREM OpenPageRefreshAfterRowCycle ==
  ASSUME ~config.close_page
  PROVE  TimedSpec => RefreshAfterRowCycle
<1> DEFINE Rule == issued'.type \in RefreshType => \A b \in Addressed(issued') : hold[b].act = 0
           Inv == DeviceInv /\ RowHeld
<1>1. TimedInit => Inv
  BY DeviceInvInit, DataHeldInit
<1>2. Inv /\ [TimedNext]_vars => Inv'
  BY DeviceInvNext, RowHeldNext
<1>3. Inv /\ [TimedNext]_vars => [Rule]_vars
  <2> SUFFICES ASSUME Inv, [TimedNext]_vars, ~(UNCHANGED vars),
                      issued'.type \in RefreshType, NEW b \in Addressed(issued')
               PROVE  hold[b].act = 0
    OBVIOUS
  <2>1. PICK ready \in Command : Issuing(ready) /\ issued' = ready
    BY IssuedStep DEF RefreshType
  <2>2. /\ b \in Bank
        /\ bank_states[b].state = "CLOSED"
        /\ bank_states[b].cmd_timing[ready.type] = 0
    BY <2>1, IdleCommand DEF DeviceInv, IdleType
  <2>3. hold[b].act <= bank_states[b].cmd_timing[ready.type] /\ hold[b].act \in Nat
    BY <2>1, <2>2 DEF RowHeld, Covers, DeviceInv, HoldType, IdleType
  <2> QED BY <2>2, <2>3
<1> HIDE DEF Inv
<1> QED BY <1>1, <1>2, <1>3, PTL DEF TimedSpec, RefreshAfterRowCycle

-----------------------------------------------------------------------------
(* What holds a bank after a refresh of its rank.                          *)
LEMMA RefreshHeldNext ==
  DeviceInv /\ RefreshHeld /\ [TimedNext]_vars => RefreshHeld'
<1> SUFFICES ASSUME DeviceInv, RefreshHeld, [TimedNext]_vars PROVE RefreshHeld'
  OBVIOUS
<1>1. /\ ChannelInv
      /\ hold \in [Bank -> [act : Nat, data : Nat, ref : Nat]]
      /\ bank_states \in [Bank -> BankRecord]
      /\ "ACTIVATE" \in CommandType
  BY DEF DeviceInv, HoldType, ChannelInv, TypeOK, CommandType
<1>2. ASSUME NEW ready \in Command, Issuing(ready) PROVE RefreshHeld'
  <2>1. ASSUME NEW b \in Bank PROVE hold'[b].ref <= bank_states'[b].cmd_timing["ACTIVATE"]
    <3>1. /\ hold[b].ref <= bank_states[b].cmd_timing["ACTIVATE"]
          /\ hold[b].ref \in Nat
          /\ bank_states[b].cmd_timing["ACTIVATE"] \in Nat
          /\ bank_states'[b].cmd_timing["ACTIVATE"] \in Nat
          /\ bank_states'[b].cmd_timing["ACTIVATE"] >= bank_states[b].cmd_timing["ACTIVATE"]
          /\ bank_states'[b].cmd_timing["ACTIVATE"] >= WaitAfter(ready, b)["ACTIVATE"]
      BY <1>1, <1>2, IssuingBank DEF RefreshHeld
    <3>2. hold'[b].ref \in {hold[b].ref, RefreshTime(ready)}
      BY <1>2 DEF Issuing, Remember, Larger
    <3>3. CASE b \notin Addressed(ready)
      <4>1. hold'[b] = hold[b]
        BY <1>2, <3>3 DEF Issuing, Remember
      <4> QED BY <3>1, <4>1
    <3>4. CASE b \in Addressed(ready) /\ ready.type = "REFRESH"
      <4>1. RefreshTime(ready) = config.tRFC /\ WaitAfter(ready, b)["ACTIVATE"] = config.tRFC
        BY <3>4, OwnWait DEF RefreshTime
      <4>2. config.tRFC \in Nat
        BY TimingAssumption
      <4> QED BY <3>1, <3>2, <4>1, <4>2
    <3>5. CASE ready.type # "REFRESH"
      <4>1. RefreshTime(ready) = 0
        BY <3>5 DEF RefreshTime
      <4> QED BY <3>1, <3>2, <4>1
    <3> QED BY <3>3, <3>4, <3>5
  <2> QED BY <2>1 DEF RefreshHeld
<1>3. CASE TimedRequest
  BY <1>3 DEF TimedRequest, NeedRefresh, RefreshHeld
<1>4. CASE TimedTick
  <2>1. ASSUME NEW b \in Bank PROVE hold'[b].ref <= bank_states'[b].cmd_timing["ACTIVATE"]
    <3>1. /\ hold'[b].ref = CountDown(hold[b].ref)
          /\ bank_states'[b].cmd_timing["ACTIVATE"] = CountDown(bank_states[b].cmd_timing["ACTIVATE"])
      BY <1>1, <1>4, BankTickType DEF TimedTick, Tick, ChannelTick
    <3>2. /\ hold[b].ref \in Nat
          /\ bank_states[b].cmd_timing["ACTIVATE"] \in Nat
          /\ hold[b].ref <= bank_states[b].cmd_timing["ACTIVATE"]
      BY <1>1 DEF BankRecord, RefreshHeld
    <3> QED BY <3>1, <3>2 DEF CountDown
  <2> QED BY <2>1 DEF RefreshHeld
<1>5. CASE Standing
  BY <1>5 DEF Standing, RefreshHeld
<1> QED BY <1>1, <1>2, <1>3, <1>4, <1>5, TimedSteps DEF DeviceInv

(* For every configuration: no bank is activated within tRFC of a refresh  *)
(* of its rank. Nothing is claimed of a refresh of one bank.               *)
THEOREM RankRefreshKeepsRowsClosed == TimedSpec => ActivateAfterRefresh
<1> DEFINE Rule == issued'.type = "ACTIVATE" => hold[issued'.bank].ref = 0
           Inv == DeviceInv /\ RefreshHeld
<1>1. TimedInit => Inv
  <2> SUFFICES ASSUME TimedInit PROVE RefreshHeld
    BY DeviceInvInit
  <2>1. ClosedBank.cmd_timing["ACTIVATE"] = 0
    BY DEF ClosedBank, CommandType
  <2> QED BY <2>1 DEF TimedInit, Init, ChannelInit, RefreshHeld
<1>2. Inv /\ [TimedNext]_vars => Inv'
  BY DeviceInvNext, RefreshHeldNext
<1>3. Inv /\ [TimedNext]_vars => [Rule]_vars
  <2> SUFFICES ASSUME Inv, [TimedNext]_vars, ~(UNCHANGED vars), issued'.type = "ACTIVATE"
               PROVE  hold[issued'.bank].ref = 0
    OBVIOUS
  <2>1. PICK ready \in Command : Issuing(ready) /\ issued' = ready
    BY IssuedStep
  <2>2. ready.bank \in Addressed(ready)
    BY <2>1 DEF Addressed, RankType
  <2>3. /\ ready.bank \in Bank
        /\ bank_states[ready.bank].cmd_timing["ACTIVATE"] = 0
    BY <2>1, <2>2, IdleCommand DEF DeviceInv
  <2>4. hold[ready.bank].ref <= 0 /\ hold[ready.bank].ref \in Nat
    BY <2>3 DEF RefreshHeld, DeviceInv, HoldType
  <2> QED BY <2>1, <2>4
<1> HIDE DEF Inv
<1> QED BY <1>1, <1>2, <1>3, PTL DEF TimedSpec, ActivateAfterRefresh
=============================================================================
