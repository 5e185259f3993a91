---------------------------- MODULE Tlv16Object ----------------------------
(***************************************************************************)
(* One object of a TLV16 family (action, action-id, instruction, queue    *)
(* property, table-feature property, meter band, hello element) living at *)
(* an offset of a shared wire buffer, driven through the setters of        *)
(* Tlv16Codec and read back through its family getters.                    *)
(*                                                                         *)
(* The buffer may first hold bytes parsed from the wire or left by an      *)
(* earlier object; the handle's own identifier is fixed when it is created *)
(* and every identity write uses it, as the object layer does.             *)
(***************************************************************************)
EXTENDS Integers, Tlv16Codec

CONSTANTS
    BufLen,      \* bytes in the shared buffer
    ObjOffset,   \* where the object starts in it
    ObjIds,      \* identifiers the handle may have
    Lengths,     \* lengths callers write (caller keeps them in 16 bits)
    InitBufs     \* buffer contents the object can be created over

ASSUME ObjOffset + 16 <= BufLen /\ Lengths \subseteq 0 .. 65535

NoId  == "none"
NoLen == -1

VARIABLES
    wbuf,     \* the shared wire buffer
    obj,      \* the handle: [version, object_id, offset]
    lastId,   \* history: identity last written by of_tlv16_wire_object_id_set
    lastLen   \* history: length last written by of_tlv16_wire_length_set

vars == <<wbuf, obj, lastId, lastLen>>

Handles == [version : Versions, object_id : ObjIds, offset : {ObjOffset}]

-----------------------------------------------------------------------------

\* A handle can be created for an identifier its version lacks; the first
\* identity write then stops at the ASSERT.
Init ==
    /\ obj \in Handles
    /\ wbuf \in InitBufs
    /\ lastId = NoId
    /\ lastLen = NoLen

\* Mutant: the ASSERT(wire_type >= 0) compiled out.
WireObjectIdSetNoAssert ==
    /\ wbuf' = of_tlv16_wire_object_id_set(obj, wbuf, obj.object_id)
    /\ lastId' = obj.object_id
    /\ UNCHANGED <<obj, lastLen>>

\* The object layer writes the handle's identity (wire_type_set hook).
WireObjectIdSet ==
    /\ ObjectToTypeMap(obj.version, obj.object_id) >= 0
    /\ wbuf' = of_tlv16_wire_object_id_set(obj, wbuf, obj.object_id)
    /\ lastId' = obj.object_id
    /\ UNCHANGED <<obj, lastLen>>

\* of_extension_object_id_set called directly with the handle's identity.
ExtensionObjectIdSet ==
    /\ wbuf' = of_extension_object_id_set(obj, wbuf, obj.object_id)
    /\ UNCHANGED <<obj, lastId, lastLen>>

ExtensionObjectWirePush ==
    /\ wbuf' = of_extension_object_wire_push(obj, wbuf)
    /\ UNCHANGED <<obj, lastId, lastLen>>

WireLengthSet ==
    \E bytes \in Lengths :
        /\ wbuf' = of_tlv16_wire_length_set(obj, wbuf, bytes)
        /\ lastLen' = bytes
        /\ UNCHANGED <<obj, lastId>>

Next ==
    \/ WireObjectIdSet
    \/ ExtensionObjectIdSet
    \/ ExtensionObjectWirePush
    \/ WireLengthSet

Spec == Init /\ [][Next]_vars

-----------------------------------------------------------------------------

TypeOK ==
    /\ wbuf \in Buffers(BufLen)
    /\ obj \in Handles
    /\ lastId \in (ObjIds \cap IdsOf(obj.version)) \cup {NoId}
    /\ lastLen \in Lengths \cup {NoLen}

(***************************************************************************)
(* Once the object layer has written the handle's identity, the family     *)
(* getter decodes exactly that identity, whatever the buffer held before   *)
(* (another vendor's extension, a sub-type of another width) and whatever  *)
(* length writes and experimenter pushes followed.                         *)
(***************************************************************************)
IdentityRoundTrip ==
    lastId # NoId => WireObjectId(obj, wbuf) = lastId

(***************************************************************************)
(* A length written by of_tlv16_wire_length_set is read back unchanged by  *)
(* of_tlv16_wire_length_get after any later identity or experimenter       *)
(* write: the type, vendor and sub-type writes never reach bytes 2..3.     *)
(***************************************************************************)
LengthRoundTrip ==
    lastLen # NoLen => of_tlv16_wire_length_get(obj, wbuf) = lastLen

(***************************************************************************)
(* No codec step writes a byte outside the object's own fixed-length       *)
(* extent: the neighbour objects packed around it in the shared buffer     *)
(* (the rest of an action list) are never touched.                         *)
(***************************************************************************)
ObjectExtent(o) == Field(o.offset, FixedLength(o.object_id))

StaysInObject ==
    [][\A i \in DOMAIN wbuf \ ObjectExtent(obj) : wbuf'[i] = wbuf[i]]_vars

=============================================================================
