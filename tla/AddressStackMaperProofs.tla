---------------------- MODULE AddressStackMaperProofs ----------------------
(***************************************************************************)
(* For every number and every width of the stacks: no two addresses are    *)
(* mapped to the same place of the same stack.                             *)
(***************************************************************************)
EXTENDS AddressStackMaper, TLAPS

LEMMA ProductGrows ==
  ASSUME NEW b \in Nat, NEW p \in Nat, NEW q \in Nat, p < q
  PROVE  b * p + b <= b * q
<1>1. PICK d \in Nat : q = p + 1 + d
  <2>1. q - p - 1 \in Nat
    OBVIOUS
  <2> WITNESS q - p - 1 \in Nat
  <2> QED OBVIOUS
<1>2. b * q = b * p + b + b * d
  BY <1>1
<1>3. b * d \in Nat
  OBVIOUS
<1> QED BY <1>2, <1>3

(* Quotient and remainder are unique.                                      *)
LEMMA DivModUnique ==
  ASSUME NEW a \in Nat, NEW b \in Nat \ {0}, NEW q \in Nat, NEW r \in Nat, r < b,
         a = b * q + r
  PROVE  a \div b = q /\ a % b = r
<1> DEFINE p == a \div b
           s == a % b
<1>1. p \in Nat /\ s \in Nat /\ s < b /\ a = b * p + s
  OBVIOUS
<1> HIDE DEF p, s
<1>2. ~ (p < q)
  <2> SUFFICES ASSUME p < q PROVE FALSE
    OBVIOUS
  <2>1. b * p + b <= b * q
    BY <1>1, ProductGrows
  <2>2. b * p \in Nat /\ b * q \in Nat
    BY <1>1
  <2> QED BY <1>1, <2>1, <2>2
<1>3. ~ (q < p)
  <2> SUFFICES ASSUME q < p PROVE FALSE
    OBVIOUS
  <2>1. b * q + b <= b * p
    BY <1>1, ProductGrows
  <2>2. b * p \in Nat /\ b * q \in Nat
    BY <1>1
  <2> QED BY <1>1, <2>1, <2>2
<1>4. p = q
  BY <1>1, <1>2, <1>3
<1>5. s = r
  <2>1. b * q \in Nat
    OBVIOUS
  <2> QED BY <1>1, <1>4, <2>1
<1> QED BY <1>4, <1>5 DEF p, s

(* An address of low bits l, stack s and high bits h, in this order.       *)
LEMMA SplitAddress ==
  ASSUME NEW l \in Nat, NEW s \in Nat, NEW h \in Nat, l < LowSize, s < StackNum,
         NEW x \in Nat, x = l + LowSize * (s + StackNum * h)
  PROVE  /\ StackOf(x) = s /\ AddrOf(x) = l + LowSize * h
         /\ AddrOf(x) \in Nat /\ Unmap(StackOf(x), AddrOf(x)) = x
<1>1. /\ LowSize \in Nat \ {0} /\ StackNum \in Nat \ {0}
      /\ StackNum * h \in Nat /\ LowSize * h \in Nat /\ LowSize * s \in Nat
      /\ LowSize * StackNum \in Nat \ {0}
  BY MaperAssumption
<1>2. x = LowSize * (s + StackNum * h) + l
  <2>1. LowSize * (s + StackNum * h) \in Nat
    BY <1>1
  <2> QED BY <2>1
<1>3. x \div LowSize = s + StackNum * h /\ x % LowSize = l
  <2> DEFINE q == s + StackNum * h
  <2>1. q \in Nat /\ x = LowSize * q + l
    BY <1>1, <1>2
  <2> HIDE DEF q
  <2>2. x \div LowSize = q /\ x % LowSize = l
    BY <1>1, <2>1, DivModUnique
  <2> QED BY <2>2 DEF q
<1>4. (s + StackNum * h) % StackNum = s
  BY <1>1, DivModUnique
<1>5. x \div (LowSize * StackNum) = h
  <2>1. x = (LowSize * StackNum) * h + (LowSize * s + l)
    BY <1>1, <1>2
  <2>2. LowSize * s + l < LowSize * StackNum
    <3>1. LowSize * s + LowSize <= LowSize * StackNum
      BY <1>1, ProductGrows
    <3> QED BY <1>1, <3>1
  <2>3. LowSize * s + l \in Nat
    BY <1>1
  <2> QED BY <1>1, <2>1, <2>2, <2>3, DivModUnique
<1>6. StackOf(x) = s /\ AddrOf(x) = l + LowSize * h
  BY <1>3, <1>4, <1>5 DEF StackOf, AddrOf
<1>7. (l + LowSize * h) \div LowSize = h /\ (l + LowSize * h) % LowSize = l
  <2>1. l + LowSize * h = LowSize * h + l /\ l + LowSize * h \in Nat
    BY <1>1
  <2> QED BY <1>1, <2>1, DivModUnique
<1>8. Unmap(s, l + LowSize * h) = x
  BY <1>7 DEF Unmap
<1> QED BY <1>1, <1>6, <1>8

(* AddressStackMaper::map takes an address apart without losing a bit: the *)
(* stack exists, and the address can be put together again, so two reads   *)
(* with the same stack and address there are reads of the same address.    *)
THEOREM MapIsInjective ==
  /\ \A x \in Nat : StackOf(x) \in Stack /\ Unmap(StackOf(x), AddrOf(x)) = x
  /\ \A x, y \in Nat : StackOf(x) = StackOf(y) /\ AddrOf(x) = AddrOf(y) => x = y
<1>1. ASSUME NEW x \in Nat
      PROVE  StackOf(x) \in Stack /\ Unmap(StackOf(x), AddrOf(x)) = x
  <2> DEFINE l == x % LowSize
             t == x \div LowSize
             s == t % StackNum
             h == t \div StackNum
  <2>1. LowSize \in Nat \ {0} /\ StackNum \in Nat \ {0}
    BY MaperAssumption
  <2>2. l \in Nat /\ t \in Nat /\ l < LowSize /\ x = LowSize * t + l
    BY <2>1
  <2>3. s \in Nat /\ h \in Nat /\ s < StackNum /\ t = StackNum * h + s
    BY <2>1, <2>2
  <2> HIDE DEF l, t, s, h
  <2>4. x = l + LowSize * (s + StackNum * h)
    <3>1. StackNum * h \in Nat
      BY <2>1, <2>3
    <3>2. t = s + StackNum * h
      BY <2>3, <3>1
    <3>3. LowSize * t \in Nat
      BY <2>1, <2>2
    <3> QED BY <2>2, <3>2, <3>3
  <2>5. StackOf(x) = s /\ Unmap(StackOf(x), AddrOf(x)) = x
    BY <2>2, <2>3, <2>4, SplitAddress
  <2> QED BY <2>1, <2>3, <2>5 DEF Stack
<1>2. ASSUME NEW x \in Nat, NEW y \in Nat, StackOf(x) = StackOf(y), AddrOf(x) = AddrOf(y)
      PROVE  x = y
  BY <1>1, <1>2
<1> QED BY <1>1, <1>2
=============================================================================
