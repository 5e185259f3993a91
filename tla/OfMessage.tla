------------------------------ MODULE OfMessage ------------------------------
(***************************************************************************)
(* The whole-message length codec: of_object_message_wire_length_get/set   *)
(* of of_type_maps.c over of_message_length_get/set (of_message.h, not     *)
(* under src/), which keep the message length as the u16 at offset 2 of    *)
(* the OpenFlow header.  A message always starts at offset 0 of its        *)
(* buffer.                                                                 *)
(***************************************************************************)
EXTENDS WireBuffer

of_message_length_get(b) == U16Get(b, 2)
of_message_length_set(b, n) == U16Set(b, 2, n)

\* Mutant: the length read from the start of the header (version, type).
MessageWireLengthGetAtStart(b) == U16Get(b, 0)

of_object_message_wire_length_get(b) == of_message_length_get(b)
of_object_message_wire_length_set(b, bytes) == of_message_length_set(b, bytes)

=============================================================================
