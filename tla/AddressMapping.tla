---------------------------- MODULE AddressMapping ----------------------------
(***************************************************************************)
(* How dramsim3 finds the place of an address (configuration.cc): the size *)
(* of the memory is computed from the structure of its devices, the fields *)
(* of an address are laid out as the address_mapping string says, and      *)
(* AddressMapping cuts an address into them. SetAddressMapping places one  *)
(* field per step, from the last token of the string.                      *)
(***************************************************************************)
EXTENDS Integers, Sequences, FiniteSets, SequencesExt, FiniteSetsExt

CONSTANT Structure    \* the configurations: records of the .ini parameters

FieldName == {"ch", "ra", "bg", "ba", "ro", "co"}

VARIABLES structure,   \* the configuration that is set up
          fields,      \* the tokens of address_mapping not placed yet
          field_pos,   \* the position of every field placed
          pos          \* the first free bit

mappingVars == <<structure, fields, field_pos, pos>>

LogBase2[n \in Nat] == IF n <= 1 THEN 0 ELSE 1 + LogBase2[n \div 2]

(* InitDRAMParams and CalculateSize. Megabytes are truncated to integers.  *)
IsHBM(s) == s.protocol \in {"HBM", "HBM2"}
IsGDDR(s) == s.protocol \in {"GDDR5", "GDDR5X", "GDDR6"}
BL(s) == LET given == IF s.protocol = "HMC" THEN (s.block_size * 8) \div s.device_width ELSE s.BL
         IN  IF given # 0 THEN given ELSE IF IsHBM(s) THEN 4 ELSE 8
columns(s) == s.columns * (IF IsGDDR(s) THEN BL(s) ELSE IF IsHBM(s) THEN 2 ELSE 1)
banks_per_group(s) == IF s.bankgroup_enable THEN s.banks_per_group ELSE s.banks_per_group * s.bankgroups
bankgroups(s) == IF s.bankgroup_enable THEN s.bankgroups ELSE 1
devices_per_rank(s) == s.bus_width \div s.device_width
megs_per_bank(s) == (((columns(s) * s.device_width) \div 8) * (s.rows \div 1024)) \div 1024
megs_per_rank(s) == megs_per_bank(s) * bankgroups(s) * banks_per_group(s) * devices_per_rank(s)
ranks(s) == IF megs_per_rank(s) > s.channel_size THEN 1 ELSE s.channel_size \div megs_per_rank(s)
channel_size(s) == ranks(s) * megs_per_rank(s)

shift_bits(s) == LogBase2[(s.bus_width \div 8) * BL(s)]
actual_col_bits(s) == LogBase2[columns(s)] - LogBase2[BL(s)]

field_widths(s) == [f \in FieldName |->
  CASE f = "ch" -> LogBase2[s.channels]
    [] f = "ra" -> LogBase2[ranks(s)]
    [] f = "bg" -> LogBase2[bankgroups(s)]
    [] f = "ba" -> LogBase2[banks_per_group(s)]
    [] f = "ro" -> LogBase2[s.rows]
    [] f = "co" -> actual_col_bits(s)]

ASSUME MappingAssumption == \A s \in Structure : field_widths(s) \in [FieldName -> Nat]

MappingInit == /\ structure \in Structure
               /\ fields \in SetToSeqs(FieldName)
               /\ field_pos = [f \in {} |-> 0]
               /\ pos = 0

NextPos(f) == pos + field_widths(structure)[f]

PlaceField ==
  LET token == Last(fields)
  IN  /\ fields # <<>>
      /\ fields' = Front(fields)
      /\ field_pos' = [f \in DOMAIN field_pos \cup {token} |-> IF f = token THEN pos ELSE field_pos[f]]
      /\ pos' = NextPos(token)
      /\ UNCHANGED structure

MappingNext == PlaceField
MappingSpec == MappingInit /\ [][MappingNext]_mappingVars

(* Mutant: the fields above are not masked away.                           *)
Unmasked(hex_addr) ==
  [f \in FieldName |-> hex_addr \div 2^(shift_bits(structure) + field_pos[f])]

(* AddressMapping, once every field is placed.                             *)
Mapping(hex_addr) ==
  LET addr == hex_addr \div 2^shift_bits(structure)
  IN  [f \in FieldName |-> (addr \div 2^field_pos[f]) % 2^field_widths(structure)[f]]

-----------------------------------------------------------------------------
(* While SetAddressMapping runs, the fields placed so far share no bit,    *)
(* and leave no bit below pos unused: every address has one place, and     *)
(* every place an address, whatever the order of the fields and whichever  *)
(* of them are empty.                                                      *)
FieldsPartitionBits ==
  LET bits(f) == field_pos[f] .. field_pos[f] + field_widths(structure)[f] - 1
  IN  /\ \A f, g \in DOMAIN field_pos : f # g => bits(f) \cap bits(g) = {}
      /\ UNION {bits(f) : f \in DOMAIN field_pos} = 0 .. pos - 1

(* AddressMapping moves bits, so the addresses with one bit set say all:   *)
(* the bits within a request ("64byte per request", configuration.cc:350)  *)
(* change nothing, and the others are exactly the bits of the numbers of   *)
(* the channels, ranks, bank groups, banks, rows and columns there are, as *)
(* many as the capacity that CalculateSize announces needs.                *)
OnePlacePerRequest ==
  fields = <<>> =>
    LET size == [ch |-> structure.channels, ra |-> ranks(structure), bg |-> bankgroups(structure),
                 ba |-> banks_per_group(structure), ro |-> structure.rows,
                 co |-> columns(structure) \div BL(structure)]
        one(f, k) == [g \in FieldName |-> IF g = f THEN 2^k ELSE 0]
        shift == shift_bits(structure)
    IN  /\ 2^shift = (structure.bus_width \div 8) * BL(structure)
        /\ \A k \in 0 .. shift - 1 : Mapping(2^k) = Mapping(0)
        /\ {Mapping(2^k) : k \in shift .. shift + pos - 1}
             = UNION {{one(f, k) : k \in {i \in 0 .. 20 : 2^i < size[f]}} : f \in FieldName}
        /\ shift + pos = 20 + LogBase2[channel_size(structure)] + LogBase2[structure.channels]
=============================================================================
