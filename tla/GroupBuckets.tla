---------------------------- MODULE GroupBuckets ----------------------------
(***************************************************************************)
(* A group-mod message (1.1 on) built by appending buckets and actions:    *)
(* the message (16 fixed bytes), the buckets (a u16 length as first member *)
(* at offset 0, weight u16 at 2, 16 fixed bytes) and in each bucket its    *)
(* action list, TLV16 objects whose experimenter variants carry a vendor   *)
(* and sub-type.  Modelled from of_type_maps.c:                            *)
(* of_u16_len_wire_length_get/set, and through Tlv16Codec the TLV16 and    *)
(* experimenter setters and of_action_wire_object_id_get.                  *)
(*                                                                         *)
(* The object layer that appends to a list, writes the bucket's weight and *)
(* propagates lengths to the enclosing objects is not under src/; it is    *)
(* modelled from spec section 3.                                           *)
(***************************************************************************)
EXTENDS Integers, SequencesExt, Tlv16Codec, OfMessage

CONSTANTS
    MaxBuckets,  \* buckets a group can grow to
    MaxActions,  \* actions a bucket can grow to
    Weights,     \* bucket weights
    ActIds       \* action identifiers callers append

GROUP_MOD_FIXED_LEN == 16
BUCKET_FIXED_LEN == 16
MaxActionLen == 16

GroupVersions == From(OF_VERSION_1_1)

BufLen == GROUP_MOD_FIXED_LEN + MaxBuckets * (BUCKET_FIXED_LEN + MaxActions * MaxActionLen)

VARIABLES
    wbuf,       \* the message's wire buffer
    version,    \* the message's version
    msgLength,  \* obj->length of the message
    buckets     \* the buckets, in wire order: [weight, actions]

vars == <<wbuf, version, msgLength, buckets>>

\* obj->length of an action list, and of bucket u.
ActionsLength(as) == FoldLeft(LAMBDA acc, id : acc + FixedLength(id), 0, as)
BucketLength(u) == BUCKET_FIXED_LEN + ActionsLength(u.actions)

\* Where bucket k starts, its handle, and the handle of an action at off.
BucketOffset(k) ==
    GROUP_MOD_FIXED_LEN
      + FoldLeft(LAMBDA acc, u : acc + BucketLength(u), 0, SubSeq(buckets, 1, k - 1))
Bucket(k) == [version |-> version, offset |-> BucketOffset(k)]
Action(off, id) == [version |-> version, object_id |-> id, offset |-> off]

OF_U16_LEN_LENGTH_OFFSET == 0

of_u16_len_wire_length_get(o, b) ==
    U16Get(b, AbsoluteOffset(o, OF_U16_LEN_LENGTH_OFFSET))

of_u16_len_wire_length_set(o, b, bytes) ==
    U16Set(b, AbsoluteOffset(o, OF_U16_LEN_LENGTH_OFFSET), bytes)

\* The bucket's weight, written by its generated setter.
BucketWeightSet(o, b, w) == U16Set(b, AbsoluteOffset(o, 2), w)

(***************************************************************************)
(* A new action's header as the object layer initialises it: the identity  *)
(* through of_tlv16_wire_object_id_set (type, and for an extension the     *)
(* vendor and sub-type) and the fixed length through                       *)
(* of_tlv16_wire_length_set.                                               *)
(***************************************************************************)
ActionInit(a, b) ==
    of_tlv16_wire_length_set(a, of_tlv16_wire_object_id_set(a, b, a.object_id),
                             FixedLength(a.object_id))

-----------------------------------------------------------------------------

Init ==
    /\ version \in GroupVersions
    /\ buckets = <<>>
    /\ msgLength = GROUP_MOD_FIXED_LEN
    /\ wbuf = of_object_message_wire_length_set(
                [i \in 0 .. BufLen - 1 |-> IF i = 0 THEN version ELSE 0], msgLength)

(***************************************************************************)
(* Appending a bucket at the end of the group: its weight and its fixed    *)
(* length (of_u16_len_wire_length_set) are written, and the message grows. *)
(***************************************************************************)
AppendBucket ==
    /\ Len(buckets) < MaxBuckets
    /\ \E w \in Weights :
         LET u == [weight |-> w, actions |-> <<>>]
             o == [version |-> version, offset |-> msgLength]
         IN  /\ buckets' = Append(buckets, u)
             /\ msgLength' = msgLength + BucketLength(u)
             /\ wbuf' = of_object_message_wire_length_set(
                          of_u16_len_wire_length_set(o,
                            BucketWeightSet(o, wbuf, w), BucketLength(u)),
                          msgLength')
    /\ UNCHANGED version

\* Mutant: the ASSERT(wire_type >= 0) of of_tlv16_wire_object_id_set
\* compiled out.
AppendActionNoAssert ==
    LET k == Len(buckets) IN
    /\ k > 0
    /\ Len(buckets[k].actions) < MaxActions
    /\ \E id \in ActIds :
         LET a == Action(BucketOffset(k) + BucketLength(buckets[k]), id)
         IN  /\ buckets' = [buckets EXCEPT ![k].actions = Append(@, id)]
             /\ msgLength' = msgLength + FixedLength(id)
             /\ wbuf' = of_object_message_wire_length_set(
                          of_u16_len_wire_length_set(Bucket(k), ActionInit(a, wbuf),
                            BucketLength(buckets'[k])),
                          msgLength')
    /\ UNCHANGED version

(***************************************************************************)
(* Appending an action to the last bucket: the action's header is          *)
(* initialised (ActionInit; the ASSERT(wire_type >= 0) is the guard), the  *)
(* bucket's length is rewritten through of_u16_len_wire_length_set and the *)
(* message's through of_object_message_wire_length_set.                    *)
(***************************************************************************)
AppendAction ==
    LET k == Len(buckets) IN
    /\ k > 0
    /\ Len(buckets[k].actions) < MaxActions
    /\ \E id \in ActIds :
         LET a == Action(BucketOffset(k) + BucketLength(buckets[k]), id)
         IN  /\ ObjectToTypeMap(version, id) >= 0
             /\ buckets' = [buckets EXCEPT ![k].actions = Append(@, id)]
             /\ msgLength' = msgLength + FixedLength(id)
             /\ wbuf' = of_object_message_wire_length_set(
                          of_u16_len_wire_length_set(Bucket(k), ActionInit(a, wbuf),
                            BucketLength(buckets'[k])),
                          msgLength')
    /\ UNCHANGED version

Next == AppendBucket \/ AppendAction

Spec == Init /\ [][Next]_vars

-----------------------------------------------------------------------------

TypeOK ==
    /\ wbuf \in Buffers(BufLen)
    /\ version \in GroupVersions
    /\ msgLength \in GROUP_MOD_FIXED_LEN .. BufLen
    /\ Len(buckets) <= MaxBuckets
    /\ \A k \in 1 .. Len(buckets) :
         /\ buckets[k].weight \in Weights
         /\ buckets[k].actions \in Seq(ActIds \cap IdsOf(version))

(***************************************************************************)
(* A reader that walks the group by wire lengths alone (the message        *)
(* length, each bucket's u16 length at offset 0, each action's TLV16       *)
(* length) finds exactly the buckets that were built, each with its weight *)
(* and with actions that of_action_wire_object_id_get decodes to the      *)
(* identifiers appended: no length, type, vendor or sub-type write of one  *)
(* object lands on a field of another.                                     *)
(***************************************************************************)
RECURSIVE ActionWalk(_, _, _)
ActionWalk(b, off, end) ==
    IF off + 4 > end \/ off + 4 > BufLen THEN <<>>
    ELSE LET a   == [version |-> version, offset |-> off]
             len == of_tlv16_wire_length_get(a, b)
         IN  <<of_action_wire_object_id_get(a, b)>>
               \o (IF len = 0 THEN <<>> ELSE ActionWalk(b, off + len, end))

RECURSIVE BucketWalk(_, _)
BucketWalk(b, off) ==
    IF off >= of_object_message_wire_length_get(b) \/ off + 16 > BufLen THEN <<>>
    ELSE LET o   == [version |-> version, offset |-> off]
             len == of_u16_len_wire_length_get(o, b)
         IN  <<[weight  |-> U16Get(b, off + 2),
                actions |-> ActionWalk(b, off + BUCKET_FIXED_LEN, off + len)]>>
               \o (IF len = 0 THEN <<>> ELSE BucketWalk(b, off + len))

WalkFindsBuckets ==
    BucketWalk(wbuf, GROUP_MOD_FIXED_LEN) = buckets

=============================================================================
