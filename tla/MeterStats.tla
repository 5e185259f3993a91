----------------------------- MODULE MeterStats -----------------------------
(***************************************************************************)
(* A 1.3 meter-stats reply: the message (header and multipart header, 16   *)
(* bytes), one meter-stats entry at offset 16 (40 fixed bytes, its u16     *)
(* length at entry offset 4) and the entry's band-stats list (16 bytes per *)
(* band).  Modelled from of_type_maps.c: of_object_message_wire_length_    *)
(* get/set, of_meter_stats_wire_length_get/set and                         *)
(* of_list_meter_band_stats_wire_length_get, which derives the list length *)
(* from the parent's in-memory length, not from the wire.                  *)
(*                                                                         *)
(* The object layer that appends to a list and propagates the new length   *)
(* to the enclosing objects (of_list_append, of_object_parent_length_      *)
(* update) is not under src/; it is modelled from spec section 3.          *)
(***************************************************************************)
EXTENDS Integers, SequencesExt, WireBuffer, OfMessage

CONSTANTS
    MaxEntries,     \* meter-stats entries a reply can grow to
    MaxBands,       \* bands an entry's list can grow to
    InitEntries,    \* entry lists a reply can be parsed with
    MeterIds        \* meter ids of entries

MSG_HEADER_LEN == 16   \* of_header + multipart header
METER_STATS_FIXED_LEN == 40
BAND_STATS_LEN == 16
BufLen == MSG_HEADER_LEN + MaxEntries * (METER_STATS_FIXED_LEN + MaxBands * BAND_STATS_LEN)

\* An entry as the object layer holds it: obj->length, its bands, meter id.
Entry(n, m) == [length |-> METER_STATS_FIXED_LEN + n * BAND_STATS_LEN,
                bands |-> n, meterId |-> m]

VARIABLES
    wbuf,       \* the message's wire buffer
    msgLength,  \* obj->length of the message
    entries     \* the meter-stats entries, in wire order

vars == <<wbuf, msgLength, entries>>

\* Where entry k starts: after the header and the entries before it.
EntryOffset(k) ==
    MSG_HEADER_LEN + FoldLeft(LAMBDA acc, e : acc + e.length, 0, SubSeq(entries, 1, k - 1))

\* The meter-stats handle of entry k, and the band-stats list handle in it.
Stats(k) == [offset |-> EntryOffset(k), object_id |-> "OF_METER_STATS"]
List(k)  == [offset |-> EntryOffset(k) + METER_STATS_FIXED_LEN, parent |-> Stats(k)]

\* OF_OBJECT_FIXED_LENGTH of a meter-stats entry.
OF_OBJECT_FIXED_LENGTH(o) == METER_STATS_FIXED_LEN

\* Mutant: the length placed where a TLV16 keeps it.
MeterStatsLengthOffsetTlv == 2

OF_METER_STATS_LENGTH_OFFSET == 4

of_meter_stats_wire_length_get(o, b) ==
    U16Get(b, AbsoluteOffset(o, OF_METER_STATS_LENGTH_OFFSET))

of_meter_stats_wire_length_set(o, b, bytes) ==
    U16Set(b, AbsoluteOffset(o, OF_METER_STATS_LENGTH_OFFSET), bytes)

\* of_list_meter_band_stats_wire_length_get, past its ASSERTs on the parent;
\* parentLength is obj->parent->length.
of_list_meter_band_stats_wire_length_get(o, parentLength) ==
    parentLength - OF_OBJECT_FIXED_LENGTH(o.parent)

\* Write a new entry's meter id and wire length at offset off.
PushEntry(b, off, e) ==
    of_meter_stats_wire_length_set([offset |-> off], U32Set(b, off, e.meterId), e.length)

\* The bytes of a reply parsed with the entries es.
RECURSIVE ParsedEntries(_, _, _)
ParsedEntries(b, off, es) ==
    IF es = <<>> THEN b
    ELSE ParsedEntries(PushEntry(b, off, Head(es)), off + Head(es).length, Tail(es))

ParsedBuf(es) ==
    LET zero == [i \in 0 .. BufLen - 1 |-> IF i = 0 THEN 4 ELSE 0]
        len  == MSG_HEADER_LEN + FoldLeft(LAMBDA acc, e : acc + e.length, 0, es)
    IN  of_message_length_set(ParsedEntries(zero, MSG_HEADER_LEN, es), len)

-----------------------------------------------------------------------------

\* Parsing sets each object's length from its wire length field.
Init ==
    /\ entries \in InitEntries
    /\ wbuf = ParsedBuf(entries)
    /\ msgLength = of_object_message_wire_length_get(wbuf)

\* Mutant: the new entry counted into the message twice.
AppendEntryDoubleCount ==
    /\ Len(entries) < MaxEntries
    /\ \E m \in MeterIds :
         LET e == Entry(0, m) IN
         /\ entries' = Append(entries, e)
         /\ msgLength' = msgLength + 2 * e.length
         /\ wbuf' = of_object_message_wire_length_set(PushEntry(wbuf, msgLength, e),
                                                      msgLength')

(***************************************************************************)
(* Appending an entry at the end of the reply: its meter id and fixed      *)
(* length are written, and the message grows by the entry.                 *)
(***************************************************************************)
AppendEntry ==
    /\ Len(entries) < MaxEntries
    /\ \E m \in MeterIds :
         LET e == Entry(0, m) IN
         /\ entries' = Append(entries, e)
         /\ msgLength' = msgLength + e.length
         /\ wbuf' = of_object_message_wire_length_set(PushEntry(wbuf, msgLength, e),
                                                      msgLength')

(***************************************************************************)
(* Appending a band stat to the last entry's list: the list, the entry and *)
(* the message each grow by 16 bytes, and the new lengths are written      *)
(* through the entry's and the message's wire-length setters.             *)
(***************************************************************************)
AppendBandStats ==
    LET k == Len(entries) IN
    /\ k > 0
    /\ entries[k].bands < MaxBands
    /\ entries' = [entries EXCEPT ![k] = [@ EXCEPT !.bands = @ + 1,
                                                   !.length = @ + BAND_STATS_LEN]]
    /\ msgLength' = msgLength + BAND_STATS_LEN
    /\ wbuf' = of_object_message_wire_length_set(
                 of_meter_stats_wire_length_set(Stats(k), wbuf, entries'[k].length),
                 msgLength')

Next == AppendEntry \/ AppendBandStats

Spec == Init /\ [][Next]_vars

-----------------------------------------------------------------------------

TypeOK ==
    /\ wbuf \in Buffers(BufLen)
    /\ msgLength \in MSG_HEADER_LEN .. BufLen
    /\ entries \in Seq([length : Nat, bands : 0 .. MaxBands, meterId : MeterIds])
    /\ Len(entries) <= MaxEntries

(***************************************************************************)
(* A parser that walks the reply by wire lengths alone (the message        *)
(* length, then each entry's length at offset 4, which becomes the         *)
(* entry's obj->length) and sizes each entry's band-stats list with        *)
(* of_list_meter_band_stats_wire_length_get from that parent length finds  *)
(* exactly the entries that were built, at their offsets, with their       *)
(* meter ids and with a list of exactly their band stats: no length write  *)
(* desynchronises the walk, lands on another field, or leaves the          *)
(* derived list length disagreeing with the bands appended.                *)
(***************************************************************************)
RECURSIVE Walk(_, _)
Walk(b, off) ==
    IF off >= of_object_message_wire_length_get(b) \/ off + 8 > BufLen THEN <<>>
    ELSE LET len   == of_meter_stats_wire_length_get([offset |-> off], b)
             stats == [offset |-> off, object_id |-> "OF_METER_STATS"]
             list  == [offset |-> off + METER_STATS_FIXED_LEN, parent |-> stats]
         IN  <<[offset |-> off, meterId |-> U32Get(b, off),
                listBytes |-> of_list_meter_band_stats_wire_length_get(list, len)]>>
               \o (IF len = 0 THEN <<>> ELSE Walk(b, off + len))

WalkFindsEntries ==
    Walk(wbuf, MSG_HEADER_LEN)
      = [k \in 1 .. Len(entries) |-> [offset |-> EntryOffset(k),
                                       meterId |-> entries[k].meterId,
                                       listBytes |-> entries[k].bands * BAND_STATS_LEN]]

=============================================================================
