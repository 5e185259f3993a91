----------------------------- MODULE Tlv16Codec -----------------------------
(***************************************************************************)
(* The TLV16 and experimenter codecs of of_type_maps.c as operators on a   *)
(* handle o ([version, object_id, offset]) and a buffer b:                 *)
(* of_tlv16_wire_length_get/set, of_tlv16_wire_type_get,                   *)
(* of_tlv16_wire_object_id_set, of_extension_object_id_set,                *)
(* of_extension_object_wire_push, the extension decoders and the           *)
(* object-id getter of every TLV16 family.  Tlv16Object drives them on one *)
(* object; PacketQueue on the properties of a queue-config reply.          *)
(***************************************************************************)
EXTENDS Integers, WireBuffer, OfTypeTables

TLV16_WIRE_TYPE_OFFSET == 0
TLV16_WIRE_LENGTH_OFFSET == 2
OF_ACTION_EXPERIMENTER_ID_OFFSET == 4
OF_ACTION_EXPERIMENTER_SUBTYPE_OFFSET == 8

\* Mutant: the length read from the type field's offset.
Tlv16LengthGetAtType(o, b) ==
    U16Get(b, AbsoluteOffset(o, TLV16_WIRE_TYPE_OFFSET))

\* of_tlv16_wire_length_get
of_tlv16_wire_length_get(o, b) ==
    U16Get(b, AbsoluteOffset(o, TLV16_WIRE_LENGTH_OFFSET))

\* of_tlv16_wire_length_set
of_tlv16_wire_length_set(o, b, bytes) ==
    U16Set(b, AbsoluteOffset(o, TLV16_WIRE_LENGTH_OFFSET), bytes)

\* of_tlv16_wire_type_get
of_tlv16_wire_type_get(o, b) ==
    U16Get(b, AbsoluteOffset(o, TLV16_WIRE_TYPE_OFFSET))

\* The sub-type field of a vendor: u32 for BSN, u16 for Nicira.  Read as a
\* u32 it may have its top bit set, so it is compared as a word.
SubtypeGet(b, at, width) ==
    IF width = 4 THEN U32WordGet(b, at) ELSE U16Get(b, at)
Subtype(e) == IF e.width = 4 THEN U32Word(e.subtype) ELSE e.subtype
SubtypeSet(b, at, width, v) ==
    IF width = 4 THEN U32Set(b, at, v) ELSE U16Set(b, at, v)

(***************************************************************************)
(* The experimenter decode shared by extension_action_object_id_get and    *)
(* extension_action_id_object_id_get: default to the generic identifier,   *)
(* read the vendor, and for a known vendor read its sub-type at its width; *)
(* a registered (vendor, sub-type) pair gives the family's identifier.     *)
(***************************************************************************)
ExtensionDecode(o, b, family, generic) ==
    LET at      == AbsoluteOffset(o, 0)
        exp_id  == U32WordGet(b, at + OF_ACTION_EXPERIMENTER_ID_OFFSET)
        matches == {e \in ExtensionEntries :
                      /\ U32Word(e.vendor) = exp_id
                      /\ SubtypeGet(b, at + OF_ACTION_EXPERIMENTER_SUBTYPE_OFFSET,
                                    e.width) = Subtype(e)}
    IN  IF matches = {} THEN generic ELSE (CHOOSE e \in matches : TRUE)[family]

extension_action_object_id_get(o, b) ==
    ExtensionDecode(o, b, "action", "OF_ACTION_EXPERIMENTER")

extension_action_id_object_id_get(o, b) ==
    ExtensionDecode(o, b, "action_id", "OF_ACTION_ID_EXPERIMENTER")

\* Mutant: the Nicira sub-type written as a u32 like BSN's.
ExtensionIdSetAllU32(o, b, id) ==
    LET at == AbsoluteOffset(o, 0)
        es == {e \in ExtensionEntries : id \in {e.action, e.action_id}}
    IN  IF es = {} THEN b
        ELSE LET e == CHOOSE x \in es : TRUE
             IN  U32Set(U32Set(b, at + 4, e.vendor), at + 8, e.subtype)

(***************************************************************************)
(* of_extension_object_id_set: write the vendor and sub-type registered    *)
(* for id; an identifier with no registered entry leaves the bytes alone.  *)
(***************************************************************************)
of_extension_object_id_set(o, b, id) ==
    LET at == AbsoluteOffset(o, 0)
        es == {e \in ExtensionEntries : id \in {e.action, e.action_id}}
    IN  IF es = {} THEN b
        ELSE LET e == CHOOSE x \in es : TRUE
             IN  SubtypeSet(U32Set(b, at + OF_ACTION_EXPERIMENTER_ID_OFFSET, e.vendor),
                            at + OF_ACTION_EXPERIMENTER_SUBTYPE_OFFSET,
                            e.width, e.subtype)

\* Mutant: the int wire type stored as a u32, over the length field.
Tlv16IdSetU32(o, b, id) ==
    LET wire_type == ObjectToTypeMap(o.version, id)
        b1        == U32Set(b, AbsoluteOffset(o, 0), wire_type)
    IN  IF wire_type = OF_EXPERIMENTER_TYPE
        THEN of_extension_object_id_set(o, b1, id)
        ELSE b1

\* of_tlv16_wire_object_id_set, past its ASSERT(wire_type >= 0).
of_tlv16_wire_object_id_set(o, b, id) ==
    LET wire_type == ObjectToTypeMap(o.version, id)
        b1        == U16Set(b, AbsoluteOffset(o, TLV16_WIRE_TYPE_OFFSET), wire_type)
    IN  IF wire_type = OF_EXPERIMENTER_TYPE
        THEN of_extension_object_id_set(o, b1, id)
        ELSE b1

\* Mutant: the Nicira sub-type pushed through a u32 setter.
WirePushAllU32(o, b) ==
    LET at == AbsoluteOffset(o, 0)
        es == {e \in ExtensionEntries : o.object_id \in {e.action, e.action_id}}
    IN  IF es = {} THEN b
        ELSE LET e == CHOOSE x \in es : TRUE
             IN  U32Set(U32Set(b, at + 4, e.vendor), at + 8, e.subtype)

(* of_extension_object_wire_push: the generated experimenter/subtype       *)
(* setters of the object's own identifier, which write the same fields.    *)
(***************************************************************************)
of_extension_object_wire_push(o, b) ==
    LET at == AbsoluteOffset(o, 0)
        es == {e \in ExtensionEntries : o.object_id \in {e.action, e.action_id}}
    IN  IF es = {} THEN b
        ELSE LET e == CHOOSE x \in es : TRUE
             IN  SubtypeSet(U32Set(b, at + 4, e.vendor), at + 8, e.width, e.subtype)

\* A reverse lookup with the ASSERTs of the code: out of range or INVALID
\* is fatal.
ReverseLookup(t, count, id) ==
    IF t < 0 \/ t >= count \/ id = OF_OBJECT_INVALID THEN Fatal ELSE id

\* of_action_wire_object_id_get
of_action_wire_object_id_get(o, b) ==
    LET wire_type == of_tlv16_wire_type_get(o, b)
    IN  IF wire_type = OF_EXPERIMENTER_TYPE
        THEN extension_action_object_id_get(o, b)
        ELSE ReverseLookup(wire_type, OF_ACTION_ITEM_COUNT,
                           of_action_type_to_id(o.version, wire_type))

\* of_action_id_wire_object_id_get
of_action_id_wire_object_id_get(o, b) ==
    LET wire_type == of_tlv16_wire_type_get(o, b)
    IN  IF wire_type = OF_EXPERIMENTER_TYPE
        THEN extension_action_id_object_id_get(o, b)
        ELSE ReverseLookup(wire_type, OF_ACTION_ID_ITEM_COUNT,
                           of_action_id_type_to_id(o.version, wire_type))

\* extension_instruction_object_id_get: no instruction extensions yet.
extension_instruction_object_id_get(o, b) == "OF_INSTRUCTION_EXPERIMENTER"

\* of_instruction_wire_object_id_get
of_instruction_wire_object_id_get(o, b) ==
    LET wire_type == of_tlv16_wire_type_get(o, b)
    IN  IF wire_type = OF_EXPERIMENTER_TYPE
        THEN extension_instruction_object_id_get(o, b)
        ELSE ReverseLookup(wire_type, OF_INSTRUCTION_ITEM_COUNT,
                           of_instruction_type_to_id(o.version, wire_type))

\* extension_queue_prop_object_id_get: no queue-prop extensions yet.
extension_queue_prop_object_id_get(o, b) == "OF_QUEUE_PROP_EXPERIMENTER"

\* of_queue_prop_wire_object_id_get
of_queue_prop_wire_object_id_get(o, b) ==
    LET wire_type == of_tlv16_wire_type_get(o, b)
    IN  IF wire_type = OF_EXPERIMENTER_TYPE
        THEN extension_queue_prop_object_id_get(o, b)
        ELSE ReverseLookup(wire_type, OF_QUEUE_PROP_ITEM_COUNT,
                           of_queue_prop_type_to_id(o.version, wire_type))

\* extension_table_feature_prop_object_id_get: no extensions yet.
extension_table_feature_prop_object_id_get(o, b) ==
    "OF_TABLE_FEATURE_PROP_EXPERIMENTER"

\* of_table_feature_prop_wire_object_id_get
of_table_feature_prop_wire_object_id_get(o, b) ==
    LET wire_type == of_tlv16_wire_type_get(o, b)
    IN  IF wire_type = OF_EXPERIMENTER_TYPE
        THEN extension_table_feature_prop_object_id_get(o, b)
        ELSE ReverseLookup(wire_type, OF_TABLE_FEATURE_PROP_ITEM_COUNT,
                           of_table_feature_prop_type_to_id(o.version, wire_type))

\* of_meter_band_wire_object_id_get: the generic id inline.
of_meter_band_wire_object_id_get(o, b) ==
    LET wire_type == of_tlv16_wire_type_get(o, b)
    IN  IF wire_type = OF_EXPERIMENTER_TYPE
        THEN "OF_METER_BAND_EXPERIMENTER"
        ELSE ReverseLookup(wire_type, OF_METER_BAND_ITEM_COUNT,
                           of_meter_band_type_to_id(o.version, wire_type))

\* of_hello_elem_wire_object_id_get: no experimenter branch, so 0xffff
\* fails the range ASSERT.
of_hello_elem_wire_object_id_get(o, b) ==
    LET wire_type == of_tlv16_wire_type_get(o, b)
    IN  ReverseLookup(wire_type, OF_HELLO_ELEM_ITEM_COUNT,
                      of_hello_elem_type_to_id(o.version, wire_type))

\* The family getter the caller selects from the object's static type.
WireObjectId(o, b) ==
    CASE FamilyOf(o.object_id) = "action"      -> of_action_wire_object_id_get(o, b)
      [] FamilyOf(o.object_id) = "action_id"   -> of_action_id_wire_object_id_get(o, b)
      [] FamilyOf(o.object_id) = "instruction" -> of_instruction_wire_object_id_get(o, b)
      [] FamilyOf(o.object_id) = "queue_prop"  -> of_queue_prop_wire_object_id_get(o, b)
      [] FamilyOf(o.object_id) = "table_feature_prop" ->
             of_table_feature_prop_wire_object_id_get(o, b)
      [] FamilyOf(o.object_id) = "meter_band"  -> of_meter_band_wire_object_id_get(o, b)
      [] FamilyOf(o.object_id) = "hello_elem"  -> of_hello_elem_wire_object_id_get(o, b)

=============================================================================
