---------------------------- MODULE OfTypeTables ----------------------------
(***************************************************************************)
(* The version-indexed translation tables the codecs look identifiers and *)
(* wire type codes up in (of_object_to_type_map, of_<family>_type_to_id,  *)
(* of_object_fixed_len), the experimenter constants, and the registered   *)
(* experimenter extensions.  The tables are generated code that is not    *)
(* under src/; they are modelled from spec sections 4.5 and 4.6,          *)
(* restricted to a few identifiers of each TLV16 family.                  *)
(***************************************************************************)
EXTENDS Integers

OF_VERSION_1_0 == 1
OF_VERSION_1_1 == 2
OF_VERSION_1_2 == 3
OF_VERSION_1_3 == 4
Versions == {OF_VERSION_1_0, OF_VERSION_1_1, OF_VERSION_1_2, OF_VERSION_1_3}

OF_EXPERIMENTER_TYPE      == 65535
OF_EXPERIMENTER_ID_BSN    == 6035143   \* 0x005c16c7
OF_EXPERIMENTER_ID_NICIRA == 8992      \* 0x00002320

\* Sentinels: an identifier missing from a reverse table, and the result of
\* a lookup that reaches an ASSERT (the process aborts).
OF_OBJECT_INVALID == "OF_OBJECT_INVALID"
Fatal == "FATAL"

(***************************************************************************)
(* The identifiers of the TLV16 families, one row each: family, wire type *)
(* code, the versions that have it, and of_object_fixed_len.  The generic *)
(* experimenter rows and the registered extensions share code 0xffff.     *)
(***************************************************************************)
From(v) == {x \in Versions : x >= v}
Row(id, family, code, vs, fixed) ==
    [id |-> id, family |-> family, code |-> code, versions |-> vs, fixed |-> fixed]

TypeTable ==
  { Row("OF_ACTION_OUTPUT",             "action", 0, Versions, 8),
    Row("OF_ACTION_SET_VLAN_VID",       "action", 1, {OF_VERSION_1_0, OF_VERSION_1_1}, 8),
    Row("OF_ACTION_POP_VLAN",           "action", 18, From(OF_VERSION_1_1), 8),
    Row("OF_ACTION_EXPERIMENTER",       "action", OF_EXPERIMENTER_TYPE, Versions, 8),
    Row("OF_ACTION_BSN_MIRROR",         "action", OF_EXPERIMENTER_TYPE, Versions, 16),
    Row("OF_ACTION_BSN_SET_TUNNEL_DST", "action", OF_EXPERIMENTER_TYPE, Versions, 16),
    Row("OF_ACTION_NICIRA_DEC_TTL",     "action", OF_EXPERIMENTER_TYPE, Versions, 16),
    Row("OF_ACTION_ID_OUTPUT",             "action_id", 0, {OF_VERSION_1_3}, 4),
    Row("OF_ACTION_ID_POP_VLAN",           "action_id", 18, {OF_VERSION_1_3}, 4),
    Row("OF_ACTION_ID_EXPERIMENTER",       "action_id", OF_EXPERIMENTER_TYPE, {OF_VERSION_1_3}, 8),
    Row("OF_ACTION_ID_BSN_MIRROR",         "action_id", OF_EXPERIMENTER_TYPE, {OF_VERSION_1_3}, 12),
    Row("OF_ACTION_ID_BSN_SET_TUNNEL_DST", "action_id", OF_EXPERIMENTER_TYPE, {OF_VERSION_1_3}, 12),
    Row("OF_ACTION_ID_NICIRA_DEC_TTL",     "action_id", OF_EXPERIMENTER_TYPE, {OF_VERSION_1_3}, 10),
    Row("OF_INSTRUCTION_GOTO_TABLE",     "instruction", 1, From(OF_VERSION_1_1), 8),
    Row("OF_INSTRUCTION_WRITE_METADATA", "instruction", 2, From(OF_VERSION_1_1), 24),
    Row("OF_INSTRUCTION_EXPERIMENTER",   "instruction", OF_EXPERIMENTER_TYPE, From(OF_VERSION_1_1), 8),
    Row("OF_QUEUE_PROP_MIN_RATE",     "queue_prop", 1, Versions, 16),
    Row("OF_QUEUE_PROP_MAX_RATE",     "queue_prop", 2, From(OF_VERSION_1_2), 16),
    Row("OF_QUEUE_PROP_EXPERIMENTER", "queue_prop", OF_EXPERIMENTER_TYPE, From(OF_VERSION_1_2), 16),
    Row("OF_TABLE_FEATURE_PROP_INSTRUCTIONS",      "table_feature_prop", 0, {OF_VERSION_1_3}, 4),
    Row("OF_TABLE_FEATURE_PROP_INSTRUCTIONS_MISS", "table_feature_prop", 1, {OF_VERSION_1_3}, 4),
    Row("OF_TABLE_FEATURE_PROP_EXPERIMENTER",      "table_feature_prop", OF_EXPERIMENTER_TYPE, {OF_VERSION_1_3}, 12),
    Row("OF_METER_BAND_DROP",         "meter_band", 1, {OF_VERSION_1_3}, 16),
    Row("OF_METER_BAND_DSCP_REMARK",  "meter_band", 2, {OF_VERSION_1_3}, 16),
    Row("OF_METER_BAND_EXPERIMENTER", "meter_band", OF_EXPERIMENTER_TYPE, {OF_VERSION_1_3}, 16),
    Row("OF_HELLO_ELEM_VERSIONBITMAP", "hello_elem", 1, {OF_VERSION_1_3}, 4) }

Tlv16Ids == {r.id : r \in TypeTable}
IdsOfFamily(f) == {r.id : r \in {x \in TypeTable : x.family = f}}
FamilyOf(id) == (CHOOSE r \in TypeTable : r.id = id).family

ActionIds   == IdsOfFamily("action")
ActionIdIds == IdsOfFamily("action_id")

\* The generic identifier of each family that has experimenter variants.
GenericExperimenter == {"OF_ACTION_EXPERIMENTER", "OF_ACTION_ID_EXPERIMENTER"}

(***************************************************************************)
(* The registered extensions: vendor, sub-type, width in bytes of the      *)
(* sub-type field, and the identifier in the action and action-id          *)
(* families.                                                               *)
(***************************************************************************)
ExtensionEntries ==
  { [vendor |-> OF_EXPERIMENTER_ID_BSN, subtype |-> 1, width |-> 4,
     action |-> "OF_ACTION_BSN_MIRROR", action_id |-> "OF_ACTION_ID_BSN_MIRROR"],
    [vendor |-> OF_EXPERIMENTER_ID_BSN, subtype |-> 2, width |-> 4,
     action |-> "OF_ACTION_BSN_SET_TUNNEL_DST",
     action_id |-> "OF_ACTION_ID_BSN_SET_TUNNEL_DST"],
    [vendor |-> OF_EXPERIMENTER_ID_NICIRA, subtype |-> 18, width |-> 2,
     action |-> "OF_ACTION_NICIRA_DEC_TTL",
     action_id |-> "OF_ACTION_ID_NICIRA_DEC_TTL"] }

ExtensionIds == {e.action : e \in ExtensionEntries}
                  \cup {e.action_id : e \in ExtensionEntries}

\* of_object_to_type_map[version][id]: the wire type code, -1 if absent.
ObjectToTypeMap(v, id) ==
    LET rs == {r \in TypeTable : r.id = id /\ v \in r.versions}
    IN  IF rs = {} THEN -1 ELSE (CHOOSE r \in rs : TRUE).code

\* The identifiers that exist in version v.
IdsOf(v) == {id \in Tlv16Ids : ObjectToTypeMap(v, id) >= 0}

\* of_<family>_type_to_id[version][code]: the identifier with that code in
\* the version, OF_OBJECT_INVALID where the generated table has a hole.
TypeToId(f, v, t) ==
    LET rs == {r \in TypeTable : r.family = f /\ v \in r.versions /\ r.code = t}
    IN  IF rs = {} THEN OF_OBJECT_INVALID ELSE (CHOOSE r \in rs : TRUE).id

OF_ACTION_ITEM_COUNT             == 19
OF_ACTION_ID_ITEM_COUNT          == 19
OF_INSTRUCTION_ITEM_COUNT        == 3
OF_QUEUE_PROP_ITEM_COUNT         == 3
OF_TABLE_FEATURE_PROP_ITEM_COUNT == 2
OF_METER_BAND_ITEM_COUNT         == 3
OF_HELLO_ELEM_ITEM_COUNT         == 2

of_action_type_to_id(v, t)             == TypeToId("action", v, t)
of_action_id_type_to_id(v, t)          == TypeToId("action_id", v, t)
of_instruction_type_to_id(v, t)        == TypeToId("instruction", v, t)
of_queue_prop_type_to_id(v, t)         == TypeToId("queue_prop", v, t)
of_table_feature_prop_type_to_id(v, t) == TypeToId("table_feature_prop", v, t)
of_meter_band_type_to_id(v, t)         == TypeToId("meter_band", v, t)
of_hello_elem_type_to_id(v, t)         == TypeToId("hello_elem", v, t)

\* of_object_fixed_len[v][id] (the same in every version that has id).
FixedLength(id) == (CHOOSE r \in TypeTable : r.id = id).fixed

=============================================================================
