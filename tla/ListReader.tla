----------------------------- MODULE ListReader -----------------------------
(***************************************************************************)
(* A reader iterating a TLV16 list of one family the way the object layer  *)
(* walks a parsed list: at each entry it decodes the identity through the  *)
(* family getter and advances by the length of_tlv16_wire_length_get       *)
(* reads, until it reaches the end of the list.  of_tlv16_wire_length_get  *)
(* reads the 16-bit field with no range validation (spec section 4.2);     *)
(* the loop itself is the upstream object layer, not under src/, and is    *)
(* modelled from spec sections 4.2 and 6.                                  *)
(*                                                                         *)
(* The list's bytes are laid down entry after entry through                *)
(* of_tlv16_wire_object_id_set and of_tlv16_wire_length_set: each entry    *)
(* occupies its identifier's fixed length and declares the length `len`,   *)
(* which a well-formed list sets to that fixed length and a malformed      *)
(* parsed one may not.  A generic experimenter entry may also carry a      *)
(* `vendor` that the caller wrote through its generated experimenter       *)
(* setter (0: left as it was).                                             *)
(***************************************************************************)
EXTENDS Integers, SequencesExt, Tlv16Codec

CONSTANTS
    Family,     \* the TLV16 family the list holds
    MaxItems,   \* entries a list holds at most
    Lists       \* the lists a reader may be given: sequences of [id, len, vendor]

\* A reader that has decoded this many entries without reaching the end is
\* not advancing: the bound on its loop in the model.
MaxReads == MaxItems + 1

\* Bytes an entry occupies, where a list starts, and its size.
Extent(e) == FixedLength(e.id)
LIST_START == 0
BufLen == MaxItems * 16 + 16

VARIABLES
    version,  \* the version of the list's handles
    items,    \* the entries the list was laid down with
    wbuf,     \* the buffer holding the list
    off,      \* the reader's cursor
    seen      \* identifiers the reader has decoded, in order

vars == <<version, items, wbuf, off, seen>>

ListEnd == LIST_START + FoldLeft(LAMBDA acc, e : acc + Extent(e), 0, items)

\* The handle of an entry at offset at: the family getter is chosen from
\* the list's static type, so any identifier of the family selects it.
Entry(at) == [version |-> version, offset |-> at,
              object_id |-> CHOOSE id \in IdsOfFamily(Family) : TRUE]

\* The generated of_<family>_experimenter_experimenter_set: the vendor u32
\* at offset 4 of a generic experimenter.
ExperimenterSet(o, b, vendor) ==
    IF vendor = 0 THEN b ELSE U32Set(b, AbsoluteOffset(o, OF_ACTION_EXPERIMENTER_ID_OFFSET), vendor)

\* Lay entries es down from offset at: identity, length, then the vendor.
RECURSIVE LayDown(_, _, _, _)
LayDown(v, b, at, es) ==
    IF es = <<>> THEN b
    ELSE LET e == Head(es)
             o == [version |-> v, offset |-> at, object_id |-> e.id]
             b1 == of_tlv16_wire_length_set(o, of_tlv16_wire_object_id_set(o, b, e.id), e.len)
         IN  LayDown(v, ExperimenterSet(o, b1, e.vendor), at + Extent(e), Tail(es))

-----------------------------------------------------------------------------

Init ==
    /\ version \in Versions
    /\ items \in {l \in Lists : \A k \in DOMAIN l : ObjectToTypeMap(version, l[k].id) >= 0}
    /\ wbuf = LayDown(version, [i \in 0 .. BufLen - 1 |-> 0], LIST_START, items)
    /\ off = LIST_START
    /\ seen = <<>>

(***************************************************************************)
(* One iteration: decode the entry at the cursor and move past it by its   *)
(* wire length.  An entry whose header would pass the buffer ends the      *)
(* walk (the wire buffer's bounds check).                                  *)
(***************************************************************************)
ReadEntry ==
    /\ off < ListEnd
    /\ off + 4 <= BufLen
    /\ Len(seen) < MaxReads
    /\ seen' = Append(seen, WireObjectId(Entry(off), wbuf))
    /\ off' = off + of_tlv16_wire_length_get(Entry(off), wbuf)
    /\ UNCHANGED <<version, items, wbuf>>

Next == ReadEntry

\* The iteration is a loop of one thread: once it can take a step it does.
Spec == Init /\ [][Next]_vars /\ WF_vars(ReadEntry)

-----------------------------------------------------------------------------

TypeOK ==
    /\ version \in Versions
    /\ items \in Lists
    /\ off \in LIST_START .. ListEnd
    /\ Len(seen) <= MaxReads

(***************************************************************************)
(* Every reader eventually stops exactly at the end of the list having     *)
(* decoded each entry's identifier, in order: the lengths the TLV16        *)
(* codec wrote are the steps that carry the cursor from one header to the  *)
(* next, and a zero or short wire length would leave it spinning or        *)
(* misaligned.                                                             *)
(***************************************************************************)
ReaderDecodesList ==
    <>(off = ListEnd /\ seen = [k \in DOMAIN items |-> items[k].id])

=============================================================================
