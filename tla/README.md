# TLA+ models of the loci type/length resolution layer

This directory holds model-checked TLA+ specifications of
`src/Modules/loci/src/of_type_maps.c`. That file is the part of the loci OpenFlow
object library that reads and writes the wire type and length of a structure
inside a shared wire buffer. It also maps wire type codes to internal object
identifiers, including vendor ("experimenter") extensions.

## 1. Inventory

### Components and their state

| Component | Code | State it keeps |
|---|---|---|
| Wire buffer (external) | `of_wire_buffer_u16/u32_get/set`, `buf_u16/u32_get/set` | the bytes of a message, big-endian fields |
| Offset resolver | `OF_OBJECT_ABSOLUTE_OFFSET`, `OF_OBJECT_BUFFER_INDEX` | none; it reads the object's `obj_offset` |
| TLV16 codec | `of_tlv16_wire_length_get/set`, `of_tlv16_wire_type_get`, `of_tlv16_wire_object_id_set` (56–136) | type u16 at object offset 0, length u16 at offset 2 |
| Experimenter dispatcher | `extension_action(_id)_object_id_get`, `of_extension_object_id_set`, `of_extension_object_wire_push` (147–259, 715–772) | vendor u32 at offset 4; sub-type at offset 8, a u32 for BSN and a u16 for Nicira |
| Family object-id getters | `of_action/_action_id/_instruction/_queue_prop/_table_feature_prop/_meter_band/_hello_elem_wire_object_id_get` (262–461) | none; they read the type field, then a reverse table or the dispatcher |
| OXM codec | `of_oxm_wire_length_get/set`, `of_oxm_wire_object_id_get/set` (463–568) | one u32 header: class, field, has-mask and length |
| Length codecs | message (20–46), u16-len (572–611), packet queue (614–661), meter-band-stats list (663–681), meter stats (683–713) | a u16 length at a per-family offset; the band-stats list length is derived from the parent's in-memory `length` |
| Translation tables (external, generated) | `of_object_to_type_map`, `of_*_type_to_id`, `of_oxm_to_object_id` | static data |

### How the components interact

Every function is a synchronous call on an object handle (`of_object_t`). The
handle has a version, an object id, an offset into a wire buffer that is shared
with its enclosing objects and its siblings, a cached `length`, and a `parent`
link. Setters write through the wire buffer at the handle's absolute offset.

- For the experimenter wire type, `of_tlv16_wire_object_id_set` calls
  `of_extension_object_id_set`.
- The family getters call `of_tlv16_wire_type_get`, then either the per-family
  extension decoder or a reverse table.
- The band-stats list length reads its parent's cached `length`.

The object layer outside `src/` calls these functions through hooks. For
example, `wire_type_set` is invoked with `obj->object_id`, and the wire-length
setters are called when a list grows.

### What is hard

There are no threads. What is hard is the shared byte buffer: many writes with
different widths land at nearby offsets of one buffer. The questions this raises:

- Does a write stay inside its field and its object?
- Does a decode still give the right answer after a sequence of writes, over
  bytes left by a parsed or earlier object?
- Does a walk by wire lengths, and a length derived from one, find what was
  built?

The list of hazards in `PROJECT.json` gives each one at its source line.

### Properties that make each component correct

- **TLV16 and experimenter codecs.** After an identity write, the family getter
  returns that identity. After a length write, the length getter returns that
  length. No write changes a byte outside the object.
- **OXM codec.** The type and length setters are bit-isolated, and both write
  back only the 4-byte header at the object's offset.
- **Length codecs.**
  - A reader that walks the message by wire lengths finds every entry, and the
    band-stats list length derived from each parsed entry length covers
    exactly the band stats present.
  - The packet-queue length lands at the version's offset, and a bucket's u16
    length at offset 0, so that a parser walking a reply or a group by wire
    lengths finds every queue, bucket, property and action with its fields.
- **Readers of the lengths.** A list iterator that advances by
  `of_tlv16_wire_length_get` eventually stops exactly at the list's end,
  having decoded every entry. This is the project's one liveness property.

## 2. Plan

The modules are listed in the order they are built:

1. `WireBuffer`, `OfTypeTables`: shared operators. These are byte accessors and
   the tables, modelled from the spec. **Done.**
2. `Tlv16Object` + `MCTlv16Object`: the TLV16 codec
   and the experimenter dispatcher for action and action-id objects. This is the
   most-used path and the most delicate. **Done.**
3. `OxmObject` + `MCOxmObject`: OXM read-modify-write. **Done.**
4. `MeterStats` + `MCMeterStats`: message, meter-stats and band-stats list
   lengths in a reply built by appending. **Done.**
5. `PacketQueue` + `MCPacketQueue`: the version-dependent packet-queue length
   offset in a queue-config reply, composed with queue properties decoded by
   `of_queue_prop_wire_object_id_get`. **Done.**
6. `Tlv16Codec`: the codec operators split out of `Tlv16Object` and extended to
   the getters of every TLV16 family (instruction, queue-prop,
   table-feature-prop, meter-band, hello-elem), so that `Tlv16Object`'s round
   trip covers all seven families. The bounds hazard (the raw sub-type read past
   a short object) was first a run over raw parsed bytes. Step 10 replaced it
   with a list built through the setters. **Done.**
7. `GroupBuckets` + `MCGroupBuckets`: a composed action-list model. Buckets with
   a u16 length carry actions of every kind back to back, built by appends, and
   a length-walk decode is checked. **Done.**
8. Abstract specifications (`TypedObject`, `NestedList`) refined by the
   TLV16, OXM, queue and bucket models. **Withdrawn**: each refinement followed
   from the round-trip or walk invariant of the same run, because every builder
   step only appends, so the refinement properties said nothing of their own.
9. `ListReader`, a list iterator under weak fairness that advances by the
   TLV16 wire length (run `list_reader_terminates`). Runs over parsed lengths
   the code never validates (a zero TLV16 length, a meter-stats entry shorter
   than its fixed part) were **withdrawn**: spec §4.2 and §4.5 leave those
   checks to the upstream parser, and each failure was one arithmetic step on
   an input chosen to fail. **Done.**
10. Built lists: `ListReader` lays its lists down through the setters, the
   generic experimenter's vendor included. Finding 3 then shows on a list
   with every length correct (run `list_reader_vendor_header`). **Done.**
11. Left open: hello and other lists from a newer peer (each unknown code is
   a fatal ASSERT by design, spec §4.5), and lengths of 64 KiB and more
   (which need buffers TLC cannot hold, see §6).


## 3. Modules

### `WireBuffer` (spec-modelled)

The buffer is a function from offsets to `0..255`.

- `U16Get/U16Set/U32Get/U32Set` are big-endian, and truncate the value the way
  C's conversion to `uint16_t`/`uint32_t` does.
- TLC's integers are 31-bit, so a u32 whose top bit may be set is carried as two
  16-bit halves (`U32WordGet/Set`). The OXM header is handled this way.
- `AbsoluteOffset` is `OF_OBJECT_ABSOLUTE_OFFSET`.

### `OfTypeTables` (spec-modelled, except `ExtensionEntries`)

- **Versions:** 1.0–1.3.
- **Identifiers:** `TypeTable` has one row per identifier: family, wire code,
  versions that have it, and fixed length. There are seven action ids and six
  action-id ids, and two or three ids of each other TLV16 family (the generic
  experimenter among them). Action ids exist only in 1.3. `SET_VLAN_VID`
  exists only in 1.0 and 1.1. `POP_VLAN` (type 18) exists from 1.1 as an action
  and in 1.3 as an action id, so the action item counts are 19. Instructions start in 1.1, and max-rate and
  experimenter queue properties in 1.2.
- **Reverse tables:** `of_<family>_type_to_id` is derived from the rows: the
  identifier with that code in that version, else INVALID. Each family has its
  `OF_<FAMILY>_ITEM_COUNT`. Action code 1 is INVALID from 1.2 on, so the
  INVALID ASSERT is reachable.
- **`ExtensionEntries`:** this is the registration table that the `switch`
  statements of lines 163–181 and 195–213 hard-code, as
  (vendor, sub-type, width, action id, action-id id) records.

### `OfMessage` (spec-modelled length field)

`of_object_message_wire_length_get/set` over the u16 at offset 2 of the
message header. It is shared by the three reply/message models.

### `Tlv16Codec`

The codec as operators on a handle and a buffer:
- the TLV16 getters and setters;
- the experimenter decode (`ExtensionDecode`) and encoders;
- the object-id getter of each of the seven families.

`of_meter_band_wire_object_id_get` returns its generic id inline.
`of_hello_elem_wire_object_id_get` has no experimenter branch, so 0xffff fails
its range ASSERT (`Fatal`). `WireObjectId` is the getter the caller selects
from the object's family. A vendor id or a BSN sub-type is a u32 whose top bit
may be set, beyond TLC's 31-bit integers. The decode therefore compares it as
a pair of 16-bit halves (`U32WordGet` against `U32Word`), which is what the C
`switch` on a `uint32_t` distinguishes.

### `Tlv16Object`

State:
- `wbuf`, the shared buffer;
- `obj`, the handle `[version, object_id, offset]`;
- two history variables: `lastId` and `lastLen`.

Each action models one of the file's setters, applied with the handle's own id
the way the object layer calls them:
- `WireObjectIdSet` models `of_tlv16_wire_object_id_set`. Its guard is the
  `ASSERT(wire_type >= 0)`, and it includes the call to
  `of_extension_object_id_set`.
- `ExtensionObjectIdSet` and `ExtensionObjectWirePush` model the two extension
  setters.
- `WireLengthSet` models `of_tlv16_wire_length_set`.

The getters come from `Tlv16Codec`. They return `Fatal` where the code's range
or INVALID ASSERT would abort. `ExtensionDecode` is the decode shared by the two
`extension_action(_id)_object_id_get` functions. It defaults to the generic id,
reads the vendor, and reads the sub-type at that vendor's width.

### `OxmObject`

State is the same shape as `Tlv16Object`. The bit macros work on the header
word held as `[hi, lo]`:
- length is the low 8 bits;
- the masked type is the upper 24 bits.

`OxmLengthSet` has the `bytes < 256` ASSERT as its guard. `OxmObjectIdSet` has
`OF_OXM_VALID_ID` and `wire_type >= 0` as its guards.

### `MeterStats`

State:
- `wbuf`;
- the message's cached `msgLength`;
- `entries`, the meter-stats entries. Each entry has its cached `length`, its
  `bands` and its `meterId`.

Actions:
- **`AppendEntry` and `AppendBandStats`.** These model how the object layer grows
  a list: only at the end, and the new lengths are written through
  `of_meter_stats_wire_length_set` and `of_object_message_wire_length_set`.

`Walk` is the parser: it follows the message length and each entry's u16 at
offset 4, takes that as the entry's `obj->length`, and sizes the entry's
band-stats list with `of_list_meter_band_stats_wire_length_get` (line 680).

### `PacketQueue`

State:
- `wbuf`;
- the reply's `version`;
- `msgLength`;
- `queues`: each queue has its queue id, its port (0 before 1.2) and its
  property identifiers.

Actions:
- **`AppendQueue`** writes the queue's id and port and its fixed length
  (8 before 1.2, 16 from 1.2) through `of_packet_queue_wire_length_set`, then
  the message length.
- **`AppendQueueProp`** initialises a 16-byte property with
  `of_tlv16_wire_object_id_set` (its ASSERT is the guard) and
  `of_tlv16_wire_length_set`. It then rewrites the queue's and the message's
  lengths.

`QueueWalk`/`PropWalk` are the parser: they follow wire lengths only.

### `GroupBuckets`

This has the same shape as `PacketQueue`, for a group-mod from 1.1:
- buckets carry a weight (u16 at 2) and a u16 length at offset 0
  (`of_u16_len_wire_length_set`);
- actions of every kind, extensions included, are initialised by `ActionInit`.
  `ActionInit` is `of_tlv16_wire_object_id_set` then `of_tlv16_wire_length_set`
  with the action's fixed length.

### `ListReader`

A TLV16 list of one family (`Family`, an action list in `MCListReader`) is laid
down entry by entry through `of_tlv16_wire_object_id_set` and
`of_tlv16_wire_length_set` (`LayDown`). Each entry occupies its identifier's
fixed length and declares a length `len`. A well-formed list declares the fixed
length. A malformed parsed list may declare something else. A generic
experimenter entry may carry a `vendor`, written after its header through the
generated experimenter setter (`ExperimenterSet`). This is how a caller builds
a vendor action that this build has no entry for.

State:
- `version`, `items` and `wbuf`: the list;
- `off`, the reader's cursor;
- `seen`, the identifiers decoded so far.

The one action, `ReadEntry`, is one iteration of the object layer's list
walk. It decodes the entry at the cursor through the family getter
(`WireObjectId`) and advances by `of_tlv16_wire_length_get`. The walk is not
under `src/`; it is modelled from spec §4.2 and §6. `MaxReads` (one more than
the longest list) bounds a reader that does not advance.

## 4. Runs

| Run | Checks | Shows |
|---|---|---|
| `tlv16_roundtrip` (`MCTlv16Object.cfg`, pass) | TypeOK, IdentityRoundTrip, LengthRoundTrip, StaysInObject | Handles of every version and of every identifier of the seven TLV16 families (except the two generic action experimenters) are checked, including the handles a version lacks. They are created over 9 byte images: fresh; output; type 1; BSN mirror; BSN tunnel; BSN unknown sub-type; Nicira dec_ttl; Nicira with 18 in the wrong half; unknown vendor. Identity and length round-trip, and no write leaves the object's fixed extent. The tunnel-dst and Nicira identities round-trip only because the code writes them, against its own comment (finding 2). |
| `tlv16_generic_experimenter` (`MCTlv16Generic.cfg`, violation) | IdentityRoundTrip | A generic `OF_ACTION_EXPERIMENTER` handle over Nicira dec_ttl bytes still decodes as `OF_ACTION_NICIRA_DEC_TTL` after its identity is written (BSN-mirror bytes fail the same way, as `OF_ACTION_BSN_MIRROR`). |
| `oxm_isolation` (`MCOxmObject.cfg`, pass) | TypeOK, OxmFieldIsolation, StaysInHeader | The OXM is checked over 7 headers (known fields, masked, other class, unknown field, all ones) and lengths {0,4,8,255,256}. The type and length writes keep each other's bits and stay in the header. 256 is refused. |
| `meter_stats_lengths` (`MCMeterStats.cfg`, pass) | TypeOK, WalkFindsEntries | A reply grows to 3 entries of up to 2 bands each. A wire-length walk finds every entry at its offset with its meter id, and the band-stats list length line 680 derives from each parsed entry length covers exactly the bands appended. |
| `packet_queue_walk` (`MCPacketQueue.cfg`, pass) | TypeOK, WalkFindsQueues | Replies of all four versions grow to 2 queues of 2 properties, every queue property among the inputs (including those a version lacks). A parser finds every queue id, port and property. |
| `group_buckets_walk` (`MCGroupBuckets.cfg`, pass) | TypeOK, WalkFindsBuckets | Group-mods of 1.1–1.3 grow to 2 buckets of 2 actions, six action ids among the inputs (POP_VLAN, a plain 8-byte TLV like OUTPUT, is left out to keep the run under three minutes). A parser finds every weight and every action's identity, BSN and Nicira extensions included. |
| `list_reader_terminates` (`MCListReader.cfg`, pass) | TypeOK, ReaderDecodesList | Every action list of up to 3 entries over all seven actions, in every version that has them, is read under weak fairness. The reader stops exactly at the list's end having decoded each identifier in order, extensions included. |
| `list_reader_vendor_header` (`MCListReaderVendor.cfg`, violation) | ReaderDecodesList | A built, well-formed list: a generic 8-byte experimenter action with vendor Nicira or BSN, then any other action. With Nicira followed by POP_VLAN, the first entry decodes as `OF_ACTION_NICIRA_DEC_TTL`. |

**Bounds.**
- *TLV16 objects.* Each sits at offset 4 of a 24-byte buffer, so a missing
  relocation or an over-wide write reaches a neighbour. The images cover every
  branch of the decoders: each vendor, each sub-type, and each width confusion.
- *Lengths.* The lengths are 0, 16 and 65535, the two edges of the u16 field and
  an ordinary value.
- *Meter-stats replies.* Three entries are enough for a band to be appended
  after earlier entries have shifted the later offsets.

- *Queue-config replies and groups.* Two containers of two children each is the
  smallest case where a child is appended to a container that sits after
  another one. Every length write is then relocated, and the packet-queue
  offset of each version is exercised with a port and a queue id in both u16
  halves. TLV16 `IdentityRoundTrip` covers all 24 identifiers of the seven
  families.

**Deadlock.** `meter_stats_lengths`, `packet_queue_walk` and
`group_buckets_walk` set `CHECK_DEADLOCK FALSE` because building a
reply really ends: once the list is complete, the message is sent.

**Fairness and liveness.** Every operation of `of_type_maps.c` is a synchronous,
terminating memory access, and the code has no waiting or retries (spec §5, §7).
Liveness belongs to the code's callers. `ListReader`'s `Spec` conjoins
`WF_vars(ReadEntry)`: the list walk is a loop in one thread, so once it can take
a step it does. Under that fairness, `ReaderDecodesList` says the walk ends at
the list's end. `list_reader_terminates` also sets `CHECK_DEADLOCK FALSE`,
because a finished reader really stops.

*Lists.* Lists of 0 to 3 actions, over all seven actions, give 1177 initial states.
They include an extension after a shorter action and two extensions back to
back, where a misread length would land the cursor in a vendor field.

## 5. Findings

1. **Stale experimenter bytes** (spec §8 vs `of_extension_object_id_set`,
   line 214). Writing the generic experimenter identity does not clear the
   vendor or sub-type. Spec §9 calls the no-op deliberate, but its §8 round-trip
   claim then fails for the generic identifiers over reused or parsed bytes.
2. **Out-of-date comment on `of_extension_object_id_set`** (lines 185–187,
   run `tlv16_roundtrip`). The comment says the function "currently only
   handles BSN mirror; ignores all others". Lines 202–212 also write the BSN
   set-tunnel-dst and the Nicira dec_ttl vendor and sub-type, and
   `IdentityRoundTrip` holds for those identities over stale bytes only because
   of those writes. A caller who trusts the comment would write them again.

3. **Sub-type read past the object** (lines 175 and 252, run
   `list_reader_vendor_header`). The experimenter decode reads the sub-type at
   offset 8 whatever the object's wire length. It uses raw
   `buf_u16_get`/`buf_u32_get`, so the read is bounded by neither the object
   nor the buffer. On a list built entirely through the setters, with every
   length correct, a generic `OF_ACTION_EXPERIMENTER` (8 bytes) whose
   experimenter field the caller set to Nicira, followed by
   `OF_ACTION_POP_VLAN`, decodes as `OF_ACTION_NICIRA_DEC_TTL`: the u16
   sub-type at offset 8 is POP_VLAN's type, 18. The bug needs no malformed
   input, only a vendor id without a registered extension;
   `extension_action_id_object_id_get` reads the action-id sub-type the same
   way.

## 6. Not modelled

- The range ASSERTs of the family getters on parsed input (a hello element of
  an unknown type aborts). This is listed as a hazard without a run: spec §4.5
  makes it a fatal contract breach by design.
- Parsed lengths the code does not validate: a TLV16 length of 0 or a
  meter-stats entry shorter than 40 bytes (line 680 would give a negative list
  length). Spec §4.2 and §4.5 leave those checks to the upstream parser; they
  are listed as hazards without a run.
- Lengths of 65536 and more: the u16 setters would truncate them; the spec
  makes fitting in 16 bits the caller's duty, and the built messages stay far
  below.
- Buffer growth and the bounds-check ASSERTs of the wire buffer. Every modelled
  offset is in range.
- The generated tables beyond a few identifiers per family.
- Allocation, parsing traversal and message dispatch (out of scope in the spec).
- Concurrency: the layer is single-threaded (spec §5).
