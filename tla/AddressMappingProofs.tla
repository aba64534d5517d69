------------------------- MODULE AddressMappingProofs -------------------------
(***************************************************************************)
(* SetAddressMapping lays the fields out without gap or overlap, for every *)
(* structure of the memory and every order of the fields.                  *)
(***************************************************************************)
EXTENDS AddressMapping, FiniteSetTheorems, TLAPS

width == field_widths(structure)
Bits(f) == field_pos[f] .. field_pos[f] + width[f] - 1

(* No field is placed twice, and what is placed fills the bits below pos.  *)
LayoutInv ==
  /\ structure \in Structure
  /\ fields \in Seq(FieldName)
  /\ \A i, j \in 1 .. Len(fields) : i # j => fields[i] # fields[j]
  /\ \A i \in 1 .. Len(fields) : fields[i] \notin DOMAIN field_pos
  /\ DOMAIN field_pos \subseteq FieldName
  /\ pos \in Nat
  /\ \A f \in DOMAIN field_pos : field_pos[f] \in Nat /\ field_pos[f] + width[f] <= pos
  /\ \A f, g \in DOMAIN field_pos : f # g => Bits(f) \cap Bits(g) = {}
  /\ \A k \in 0 .. pos - 1 : \E f \in DOMAIN field_pos : k \in Bits(f)

LEMMA LayoutInit ==
  MappingInit => LayoutInv
<1> SUFFICES ASSUME MappingInit PROVE LayoutInv
  OBVIOUS
<1>1. IsFiniteSet(FieldName)
  <2>1. ASSUME NEW S, IsFiniteSet(S), NEW x PROVE IsFiniteSet(S \cup {x})
    BY <2>1, FS_AddElement
  <2>2. IsFiniteSet({} \cup {"ch"} \cup {"ra"} \cup {"bg"})
    BY <2>1, FS_EmptySet
  <2>3. IsFiniteSet({} \cup {"ch"} \cup {"ra"} \cup {"bg"} \cup {"ba"} \cup {"ro"} \cup {"co"})
    BY <2>1, <2>2
  <2>4. FieldName = {} \cup {"ch"} \cup {"ra"} \cup {"bg"} \cup {"ba"} \cup {"ro"} \cup {"co"}
    BY DEF FieldName
  <2> QED BY <2>3, <2>4
<1>2. Cardinality(FieldName) \in Nat
  BY <1>1, FS_CardinalityType
<1>3. /\ fields \in Seq(FieldName)
      /\ \A i, j \in 1 .. Len(fields) : i # j => fields[i] # fields[j]
  BY <1>2 DEF MappingInit, SetToSeqs
<1>4. DOMAIN field_pos = {} /\ pos = 0 /\ structure \in Structure
  BY DEF MappingInit
<1> QED BY <1>3, <1>4 DEF LayoutInv

(* A sequence without its last element.                                    *)
LEMMA FrontElements ==
  ASSUME NEW S, NEW s \in Seq(S), s # <<>>
  PROVE  /\ Front(s) \in Seq(S)
         /\ Len(Front(s)) = Len(s) - 1
         /\ \A i \in 1 .. Len(s) - 1 : Front(s)[i] = s[i]
<1>1. Len(s) \in Nat /\ Len(s) # 0 /\ Len(s) - 1 \in Nat
  OBVIOUS
<1>2. \A i \in 1 .. Len(s) - 1 : s[i] \in S
  BY <1>1
<1>3. SubSeq(s, 1, Len(s) - 1) = [i \in 1 .. Len(s) - 1 |-> s[i]]
  BY <1>1
<1>4. ASSUME NEW m \in Nat, \A i \in 1 .. m : s[i] \in S
      PROVE  /\ [i \in 1 .. m |-> s[i]] \in Seq(S)
             /\ Len([i \in 1 .. m |-> s[i]]) = m
  BY <1>4
<1> QED BY <1>1, <1>2, <1>3, <1>4 DEF Front

(* One field placed: it begins where the ones before it end.               *)
LEMMA LayoutNext ==
  LayoutInv /\ [MappingNext]_mappingVars => LayoutInv'
<1> SUFFICES ASSUME LayoutInv, PlaceField PROVE LayoutInv'
  <2>1. ASSUME LayoutInv, UNCHANGED mappingVars PROVE LayoutInv'
    BY <2>1 DEF LayoutInv, mappingVars, Bits, width
  <2> QED BY <2>1 DEF MappingNext
<1> PICK token : token = Last(fields)
  OBVIOUS
<1> PICK n : n = Len(fields)
  OBVIOUS
<1>1. /\ fields \in Seq(FieldName)
      /\ n \in Nat \ {0}
      /\ token = fields[n]
      /\ token \in FieldName \ DOMAIN field_pos
  BY DEF LayoutInv, PlaceField, Last
<1>2. /\ fields' \in Seq(FieldName)
      /\ Len(fields') = n - 1
      /\ \A i \in 1 .. n - 1 : fields'[i] = fields[i]
  BY <1>1, FrontElements DEF PlaceField
<1>3. /\ structure' = structure
      /\ width' = width
      /\ width \in [FieldName -> Nat]
      /\ pos \in Nat
      /\ pos' = pos + width[token]
  BY MappingAssumption DEF LayoutInv, PlaceField, NextPos, width
<1>4. /\ DOMAIN field_pos' = DOMAIN field_pos \cup {token}
      /\ field_pos'[token] = pos
      /\ \A f \in DOMAIN field_pos : field_pos'[f] = field_pos[f]
  BY <1>1 DEF PlaceField
<1>5. pos' \in Nat /\ pos <= pos' /\ width[token] \in Nat
  BY <1>1, <1>3
<1>6. \A f \in DOMAIN field_pos : Bits(f)' = Bits(f)
  BY <1>3, <1>4 DEF Bits
<1>7. Bits(token)' = pos .. pos' - 1
  BY <1>3, <1>4, <1>5 DEF Bits
<1>8. \A f \in DOMAIN field_pos : Bits(f) \subseteq 0 .. pos - 1
  <2> TAKE f \in DOMAIN field_pos
  <2>1. /\ field_pos[f] \in Nat
        /\ f \in FieldName
        /\ field_pos[f] + width[f] <= pos
    BY DEF LayoutInv
  <2> QED BY <1>3, <2>1 DEF Bits
<1>9. /\ \A i, j \in 1 .. Len(fields') : i # j => fields'[i] # fields'[j]
      /\ \A i \in 1 .. Len(fields') : fields'[i] \notin DOMAIN field_pos'
  <2>1. \A i \in 1 .. n - 1 : i \in 1 .. Len(fields) /\ n \in 1 .. Len(fields) /\ i # n
    BY <1>1
  <2>2. ASSUME NEW i \in 1 .. n - 1, NEW j \in 1 .. n - 1, i # j PROVE fields'[i] # fields'[j]
    BY <1>2, <2>1, <2>2 DEF LayoutInv
  <2>3. ASSUME NEW i \in 1 .. n - 1 PROVE fields'[i] \notin DOMAIN field_pos \cup {token}
    <3>1. fields'[i] = fields[i] /\ i \in 1 .. Len(fields) /\ n \in 1 .. Len(fields) /\ i # n
      BY <1>2, <2>1
    <3>2. fields[i] # fields[n] /\ fields[i] \notin DOMAIN field_pos
      BY <3>1 DEF LayoutInv
    <3> QED BY <1>1, <3>1, <3>2
  <2> QED BY <1>2, <1>4, <2>2, <2>3
<1>10. \A f \in DOMAIN field_pos' : field_pos'[f] \in Nat /\ field_pos'[f] + width'[f] <= pos'
  <2> TAKE f \in DOMAIN field_pos'
  <2>1. CASE f = token
    BY <1>3, <1>4, <1>5, <2>1
  <2>2. CASE f \in DOMAIN field_pos
    <3>1. field_pos[f] \in Nat /\ field_pos[f] + width[f] <= pos /\ width[f] \in Nat
      BY <1>3, <2>2 DEF LayoutInv
    <3> QED BY <1>3, <1>4, <1>5, <2>2, <3>1
  <2> QED BY <1>4, <2>1, <2>2
<1>11. \A f, g \in DOMAIN field_pos' : f # g => Bits(f)' \cap Bits(g)' = {}
  <2>1. ASSUME NEW f \in DOMAIN field_pos PROVE Bits(f)' \cap Bits(token)' = {}
    BY <1>3, <1>5, <1>6, <1>7, <1>8
  <2>2. ASSUME NEW f \in DOMAIN field_pos, NEW g \in DOMAIN field_pos, f # g PROVE Bits(f)' \cap Bits(g)' = {}
    BY <1>6, <2>2 DEF LayoutInv
  <2> QED BY <1>4, <2>1, <2>2
<1>12. \A k \in 0 .. pos' - 1 : \E f \in DOMAIN field_pos' : k \in Bits(f)'
  <2> TAKE k \in 0 .. pos' - 1
  <2>1. CASE k < pos
    <3>1. \E f \in DOMAIN field_pos : k \in Bits(f)
      BY <1>3, <2>1 DEF LayoutInv
    <3> QED BY <1>4, <1>6, <3>1
  <2>2. CASE k >= pos
    BY <1>3, <1>4, <1>5, <1>7, <2>2
  <2> QED BY <1>3, <1>5, <2>1, <2>2
<1>13. structure' \in Structure /\ DOMAIN field_pos' \subseteq FieldName
  BY <1>1, <1>3, <1>4 DEF LayoutInv
<1> QED BY <1>2, <1>5, <1>9, <1>10, <1>11, <1>12, <1>13 DEF LayoutInv

(* SetAddressMapping, for every structure and every order of the fields:   *)
(* at every step the fields placed share no bit and leave none unused.     *)
THEOREM LayoutIsPartition == MappingSpec => []FieldsPartitionBits
<1>1. MappingInit => LayoutInv
  BY LayoutInit
<1>2. LayoutInv /\ [MappingNext]_mappingVars => LayoutInv'
  BY LayoutNext
<1>3. LayoutInv => FieldsPartitionBits
  <2> SUFFICES ASSUME LayoutInv PROVE FieldsPartitionBits
    OBVIOUS
  <2>1. \A f, g \in DOMAIN field_pos : f # g => Bits(f) \cap Bits(g) = {}
    BY DEF LayoutInv
  <2>2. UNION {Bits(f) : f \in DOMAIN field_pos} = 0 .. pos - 1
    <3>1. \A f \in DOMAIN field_pos : Bits(f) \subseteq 0 .. pos - 1
      <4> TAKE f \in DOMAIN field_pos
      <4>1. field_pos[f] \in Nat /\ width[f] \in Nat /\ field_pos[f] + width[f] <= pos /\ pos \in Nat
        BY MappingAssumption DEF LayoutInv, width
      <4> QED BY <4>1 DEF Bits
    <3>2. \A k \in 0 .. pos - 1 : \E f \in DOMAIN field_pos : k \in Bits(f)
      BY DEF LayoutInv
    <3> QED BY <3>1, <3>2
  <2> QED BY <2>1, <2>2 DEF FieldsPartitionBits, Bits, width
<1> QED BY <1>1, <1>2, <1>3, PTL DEF MappingSpec
=============================================================================
