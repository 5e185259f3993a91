----------------------------- MODULE OxmObject -----------------------------
(***************************************************************************)
(* One OXM match-field TLV at an offset of a shared buffer, with the OXM   *)
(* codec of of_type_maps.c: of_oxm_wire_length_get/set and                 *)
(* of_oxm_wire_object_id_get/set.  The header is one big-endian u32        *)
(* holding class (16 bits), field (7), has-mask (1) and length (8); class, *)
(* field and has-mask together are the masked type.  Both setters          *)
(* read-modify-write the whole word.                                       *)
(*                                                                         *)
(* The header bit macros and the OXM tables are not under src/; they are   *)
(* modelled from spec section 4.3.                                         *)
(***************************************************************************)
EXTENDS Integers, WireBuffer, OfTypeTables

CONSTANTS
    BufLen,      \* bytes in the shared buffer
    ObjOffset,   \* where the OXM starts in it
    OxmLengths,  \* lengths callers pass, one past the 8-bit field included
    InitBufs     \* buffer contents the OXM can be created over

ASSUME ObjOffset + 4 <= BufLen /\ OxmLengths \subseteq Nat

NoId  == "none"
NoLen == -1

VARIABLES
    wbuf,     \* the shared wire buffer
    obj,      \* the handle: [version, offset]
    lastId,   \* history: identity last written by of_oxm_wire_object_id_set
    lastLen   \* history: length last written by of_oxm_wire_length_set

vars == <<wbuf, obj, lastId, lastLen>>

\* OXMs exist from OpenFlow 1.2 on.
Handles == [version : {v \in Versions : v >= OF_VERSION_1_2}, offset : {ObjOffset}]

OxmIds == {"OF_OXM_IN_PORT", "OF_OXM_IN_PORT_MASKED", "OF_OXM_ETH_TYPE",
           "OF_OXM_BSN_IN_PORTS_128"}

\* OF_OXM_VALID_ID
OF_OXM_VALID_ID(id) == id \in OxmIds

\* The masked type (class << 8 | field << 1 | has-mask) of each OXM.
MaskedType ==
    [OF_OXM_IN_PORT          |-> 32768 * 256 + 0 * 2 + 0,
     OF_OXM_IN_PORT_MASKED   |-> 32768 * 256 + 0 * 2 + 1,
     OF_OXM_ETH_TYPE         |-> 32768 * 256 + 5 * 2 + 0,
     OF_OXM_BSN_IN_PORTS_128 |-> 3 * 256 + 0 * 2 + 0]

\* of_object_to_wire_type for an OXM: OXMs exist from 1.2 on.
of_object_to_wire_type(id, v) ==
    IF v >= OF_VERSION_1_2 THEN MaskedType[id] ELSE -1

\* of_oxm_to_object_id: an unknown masked type is OF_OBJECT_INVALID.
of_oxm_to_object_id(wire_type, v) ==
    LET ids == {id \in OxmIds : of_object_to_wire_type(id, v) = wire_type}
    IN  IF ids = {} THEN OF_OBJECT_INVALID ELSE CHOOSE id \in ids : TRUE

\* The header bit macros, on the word as [hi, lo] 16-bit halves.
OF_OXM_LENGTH_GET(hdr) == hdr.lo % 256
OF_OXM_MASKED_TYPE_GET(hdr) == hdr.hi * 256 + hdr.lo \div 256

OF_OXM_LENGTH_SET(hdr, val) == [hdr EXCEPT !.lo = (@ - (@ % 256)) + (val % 256)]
OF_OXM_MASKED_TYPE_SET(hdr, val) ==
    [hi |-> (val % 16777216) \div 256,
     lo |-> (val % 256) * 256 + (hdr.lo % 256)]

OXM_HDR_OFFSET == 0

\* _GET_OXM_TYPE_LEN
GetOxmTypeLen(o, b) == U32WordGet(b, AbsoluteOffset(o, OXM_HDR_OFFSET))

\* _SET_OXM_TYPE_LEN
SetOxmTypeLen(o, b, hdr) == U32WordSet(b, AbsoluteOffset(o, OXM_HDR_OFFSET), hdr)

\* of_oxm_wire_length_get
of_oxm_wire_length_get(o, b) == OF_OXM_LENGTH_GET(GetOxmTypeLen(o, b))

\* Mutant: the header written back at offset 0 of the buffer, not of the
\* object.
OxmLengthSetUnrelocated(o, b, bytes) ==
    U32WordSet(b, OXM_HDR_OFFSET, OF_OXM_LENGTH_SET(GetOxmTypeLen(o, b), bytes))

\* Mutant: the header word built afresh instead of read, modified, written.
OxmLengthSetNoRead(o, b, bytes) ==
    SetOxmTypeLen(o, b, OF_OXM_LENGTH_SET([hi |-> 0, lo |-> 0], bytes))

\* of_oxm_wire_length_set, past its ASSERT(bytes >= 0 && bytes < 256).
of_oxm_wire_length_set(o, b, bytes) ==
    SetOxmTypeLen(o, b, OF_OXM_LENGTH_SET(GetOxmTypeLen(o, b), bytes))

\* of_oxm_wire_object_id_get
of_oxm_wire_object_id_get(o, b) ==
    of_oxm_to_object_id(OF_OXM_MASKED_TYPE_GET(GetOxmTypeLen(o, b)), o.version)

\* of_oxm_wire_object_id_set, past its ASSERTs.
of_oxm_wire_object_id_set(o, b, id) ==
    SetOxmTypeLen(o, b, OF_OXM_MASKED_TYPE_SET(GetOxmTypeLen(o, b),
                                               of_object_to_wire_type(id, o.version)))

-----------------------------------------------------------------------------

Init ==
    /\ obj \in Handles
    /\ wbuf \in InitBufs
    /\ lastId = NoId
    /\ lastLen = NoLen

\* Mutant: the ASSERT(bytes >= 0 && bytes < 256) compiled out.
OxmLengthSetNoAssert ==
    \E bytes \in OxmLengths :
        /\ wbuf' = of_oxm_wire_length_set(obj, wbuf, bytes)
        /\ lastLen' = bytes
        /\ UNCHANGED <<obj, lastId>>

OxmLengthSet ==
    \E bytes \in OxmLengths :
        /\ bytes >= 0 /\ bytes < 256
        /\ wbuf' = of_oxm_wire_length_set(obj, wbuf, bytes)
        /\ lastLen' = bytes
        /\ UNCHANGED <<obj, lastId>>

OxmObjectIdSet ==
    \E id \in OxmIds :
        /\ OF_OXM_VALID_ID(id)
        /\ of_object_to_wire_type(id, obj.version) >= 0
        /\ wbuf' = of_oxm_wire_object_id_set(obj, wbuf, id)
        /\ lastId' = id
        /\ UNCHANGED <<obj, lastLen>>

Next == OxmLengthSet \/ OxmObjectIdSet

Spec == Init /\ [][Next]_vars

-----------------------------------------------------------------------------

TypeOK ==
    /\ wbuf \in Buffers(BufLen)
    /\ obj \in Handles
    /\ lastId \in OxmIds \cup {NoId}
    /\ lastLen \in (OxmLengths \cap 0 .. 255) \cup {NoLen}

(***************************************************************************)
(* Bit isolation of the read-modify-write setters: after any interleaving  *)
(* of type and length writes over whatever header the buffer held, the     *)
(* identity decodes to the last identity written and the length to the     *)
(* last length written.                                                    *)
(***************************************************************************)
OxmFieldIsolation ==
    /\ lastId # NoId => of_oxm_wire_object_id_get(obj, wbuf) = lastId
    /\ lastLen # NoLen => of_oxm_wire_length_get(obj, wbuf) = lastLen

(***************************************************************************)
(* The setters write back only the OXM's own 4-byte header, at the         *)
(* object's offset: the bytes of the enclosing match before it and of its  *)
(* payload after it never change.                                          *)
(***************************************************************************)
StaysInHeader ==
    [][\A i \in DOMAIN wbuf \ Field(obj.offset + OXM_HDR_OFFSET, 4) :
          wbuf'[i] = wbuf[i]]_vars

=============================================================================
