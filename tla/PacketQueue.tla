---------------------------- MODULE PacketQueue ----------------------------
(***************************************************************************)
(* A queue-get-config reply of one version, built by appending packet      *)
(* queues and queue properties: the message (16 fixed bytes), the packet   *)
(* queues (queue_id u32 at 0; from 1.2 a port u32 at 4; the u16 length at *)
(* OF_PACKET_QUEUE_LENGTH_OFFSET(version)) and in each queue its           *)
(* properties, TLV16 objects of 16 bytes.  Modelled from of_type_maps.c:   *)
(* of_packet_queue_wire_length_get/set, and through Tlv16Codec the TLV16   *)
(* setters and of_queue_prop_wire_object_id_get.                           *)
(*                                                                         *)
(* The object layer that appends to a list, writes the queue's own fields  *)
(* and propagates lengths to the enclosing objects is not under src/; it   *)
(* is modelled from spec section 3.                                        *)
(***************************************************************************)
EXTENDS Integers, SequencesExt, Tlv16Codec, OfMessage

CONSTANTS
    MaxQueues,   \* packet queues a reply can grow to
    MaxProps,    \* properties a queue can grow to
    QueueIds,    \* queue ids of appended queues
    Ports,       \* port numbers of appended queues (1.2 on)
    PropIds      \* queue-property identifiers callers append

QUEUE_GET_CONFIG_REPLY_FIXED_LEN == 16
QUEUE_PROP_LEN == 16

\* of_object_fixed_len of a packet queue: 8 bytes before 1.2, 16 from 1.2.
PacketQueueFixedLen(v) == IF v >= OF_VERSION_1_2 THEN 16 ELSE 8

\* A packet queue has a port only from 1.2 on.
PortsOf(v) == IF v >= OF_VERSION_1_2 THEN Ports ELSE {0}

BufLen == QUEUE_GET_CONFIG_REPLY_FIXED_LEN + MaxQueues * (16 + MaxProps * QUEUE_PROP_LEN)

VARIABLES
    wbuf,       \* the message's wire buffer
    version,    \* the reply's version
    msgLength,  \* obj->length of the message
    queues      \* the packet queues, in wire order: [queueId, port, props]

vars == <<wbuf, version, msgLength, queues>>

\* obj->length of queue q.
QueueLength(q) == PacketQueueFixedLen(version) + Len(q.props) * QUEUE_PROP_LEN

\* Where queue k starts, and the handles of queue k and of its j-th property.
QueueOffset(k) ==
    QUEUE_GET_CONFIG_REPLY_FIXED_LEN
      + FoldLeft(LAMBDA acc, q : acc + QueueLength(q), 0, SubSeq(queues, 1, k - 1))
Queue(k) == [version |-> version, offset |-> QueueOffset(k)]
Prop(k, j, id) ==
    [version |-> version, object_id |-> id,
     offset |-> QueueOffset(k) + PacketQueueFixedLen(version) + (j - 1) * QUEUE_PROP_LEN]

\* Mutant: the 1.2 layout taken only after 1.2.
PacketQueueLengthOffsetAfter12(ver) == IF ver > OF_VERSION_1_2 THEN 8 ELSE 4

OF_PACKET_QUEUE_LENGTH_OFFSET(ver) == IF ver >= OF_VERSION_1_2 THEN 8 ELSE 4

of_packet_queue_wire_length_get(o, b) ==
    U16Get(b, AbsoluteOffset(o, OF_PACKET_QUEUE_LENGTH_OFFSET(o.version)))

of_packet_queue_wire_length_set(o, b, bytes) ==
    U16Set(b, AbsoluteOffset(o, OF_PACKET_QUEUE_LENGTH_OFFSET(o.version)), bytes)

\* The queue's own fields, written by the generated setters.
QueueFieldsSet(o, b, q) ==
    LET b1 == U32Set(b, AbsoluteOffset(o, 0), q.queueId)
    IN  IF o.version >= OF_VERSION_1_2 THEN U32Set(b1, AbsoluteOffset(o, 4), q.port) ELSE b1

-----------------------------------------------------------------------------

Init ==
    /\ version \in Versions
    /\ queues = <<>>
    /\ msgLength = QUEUE_GET_CONFIG_REPLY_FIXED_LEN
    /\ wbuf = of_object_message_wire_length_set(
                [i \in 0 .. BufLen - 1 |-> IF i = 0 THEN version ELSE 0], msgLength)

(***************************************************************************)
(* Appending a packet queue at the end of the reply: its queue id (and     *)
(* port) and its fixed length are written, and the message grows by it.   *)
(***************************************************************************)
AppendQueue ==
    /\ Len(queues) < MaxQueues
    /\ \E qid \in QueueIds, port \in PortsOf(version) :
         LET q == [queueId |-> qid, port |-> port, props |-> <<>>]
             o == [version |-> version, offset |-> msgLength]
         IN  /\ queues' = Append(queues, q)
             /\ msgLength' = msgLength + QueueLength(q)
             /\ wbuf' = of_object_message_wire_length_set(
                          of_packet_queue_wire_length_set(o,
                            QueueFieldsSet(o, wbuf, q), QueueLength(q)),
                          msgLength')
    /\ UNCHANGED version

\* Mutant: the ASSERT(wire_type >= 0) of of_tlv16_wire_object_id_set
\* compiled out.
AppendQueuePropNoAssert ==
    LET k == Len(queues) IN
    /\ k > 0
    /\ Len(queues[k].props) < MaxProps
    /\ \E id \in PropIds :
         LET p  == Prop(k, Len(queues[k].props) + 1, id)
             b1 == of_tlv16_wire_length_set(p,
                     of_tlv16_wire_object_id_set(p, wbuf, id), QUEUE_PROP_LEN)
         IN  /\ queues' = [queues EXCEPT ![k].props = Append(@, id)]
             /\ msgLength' = msgLength + QUEUE_PROP_LEN
             /\ wbuf' = of_object_message_wire_length_set(
                          of_packet_queue_wire_length_set(Queue(k), b1,
                            QueueLength(queues'[k])),
                          msgLength')
    /\ UNCHANGED version

(***************************************************************************)
(* Appending a property to the last queue: the property's type is written  *)
(* by of_tlv16_wire_object_id_set (its ASSERT(wire_type >= 0) is the       *)
(* guard) and its length by of_tlv16_wire_length_set; the queue's length   *)
(* is rewritten through of_packet_queue_wire_length_set and the message's  *)
(* through of_object_message_wire_length_set.                              *)
(***************************************************************************)
AppendQueueProp ==
    LET k == Len(queues) IN
    /\ k > 0
    /\ Len(queues[k].props) < MaxProps
    /\ \E id \in PropIds :
         LET p  == Prop(k, Len(queues[k].props) + 1, id)
             b1 == of_tlv16_wire_length_set(p,
                     of_tlv16_wire_object_id_set(p, wbuf, id), QUEUE_PROP_LEN)
         IN  /\ ObjectToTypeMap(version, id) >= 0
             /\ queues' = [queues EXCEPT ![k].props = Append(@, id)]
             /\ msgLength' = msgLength + QUEUE_PROP_LEN
             /\ wbuf' = of_object_message_wire_length_set(
                          of_packet_queue_wire_length_set(Queue(k), b1,
                            QueueLength(queues'[k])),
                          msgLength')
    /\ UNCHANGED version

Next == AppendQueue \/ AppendQueueProp

Spec == Init /\ [][Next]_vars

-----------------------------------------------------------------------------

TypeOK ==
    /\ wbuf \in Buffers(BufLen)
    /\ version \in Versions
    /\ msgLength \in QUEUE_GET_CONFIG_REPLY_FIXED_LEN .. BufLen
    /\ Len(queues) <= MaxQueues
    /\ \A k \in 1 .. Len(queues) :
         /\ queues[k].queueId \in QueueIds
         /\ queues[k].port \in PortsOf(version)
         /\ queues[k].props \in Seq(PropIds \cap IdsOf(version))

(***************************************************************************)
(* A reader that walks the reply by wire lengths alone, as a parser does   *)
(* (the message length, each queue's length at its version's offset, each  *)
(* property's TLV16 length), finds exactly the queues that were built,     *)
(* each with its queue id, its port from 1.2 on, and properties that       *)
(* of_queue_prop_wire_object_id_get decodes to the identifiers appended:   *)
(* no length write lands on a queue's id or port or on a property header.  *)
(***************************************************************************)
RECURSIVE PropWalk(_, _, _)
PropWalk(b, off, end) ==
    IF off + 4 > end \/ off + 4 > BufLen THEN <<>>
    ELSE LET p   == [version |-> version, offset |-> off]
             len == of_tlv16_wire_length_get(p, b)
         IN  <<of_queue_prop_wire_object_id_get(p, b)>>
               \o (IF len = 0 THEN <<>> ELSE PropWalk(b, off + len, end))

RECURSIVE QueueWalk(_, _)
QueueWalk(b, off) ==
    IF off >= of_object_message_wire_length_get(b) \/ off + 16 > BufLen THEN <<>>
    ELSE LET o   == [version |-> version, offset |-> off]
             len == of_packet_queue_wire_length_get(o, b)
         IN  <<[queueId |-> U32Get(b, off),
                port    |-> IF version >= OF_VERSION_1_2 THEN U32Get(b, off + 4) ELSE 0,
                props   |-> PropWalk(b, off + PacketQueueFixedLen(version), off + len)]>>
               \o (IF len = 0 THEN <<>> ELSE QueueWalk(b, off + len))

WalkFindsQueues ==
    QueueWalk(wbuf, QUEUE_GET_CONFIG_REPLY_FIXED_LEN)
      = [k \in 1 .. Len(queues) |->
           [queueId |-> queues[k].queueId, port |-> queues[k].port,
            props   |-> queues[k].props]]

=============================================================================
