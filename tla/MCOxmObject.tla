---------------------------- MODULE MCOxmObject ----------------------------
(***************************************************************************)
(* An OXM at offset 4 of a 12-byte match buffer: 4 bytes of match header   *)
(* before it, its 4-byte TLV header, 4 payload bytes.  The header can be   *)
(* fresh, one parsed from the wire (with or without mask, of another       *)
(* class, of an unknown type) or all ones.                                 *)
(***************************************************************************)
EXTENDS OxmObject, Sequences

MCBufLen == 12
MCObjOffset == 4

\* Zero, a payload length, a masked-field length, the 8-bit maximum and the
\* first length the ASSERT rejects.
MCOxmLengths == {0, 4, 8, 255, 256}

Headers ==
  { <<0, 0, 0, 0>>,
    <<128, 0, 0, 4>>,       \* in_port, length 4
    <<128, 0, 1, 8>>,       \* in_port masked, length 8
    <<128, 0, 10, 2>>,      \* eth_type, length 2
    <<0, 3, 0, 16>>,        \* BSN in_ports_128, length 16
    <<128, 0, 62, 4>>,      \* a field this build does not know
    <<255, 255, 255, 255>> }

MCInitBufs ==
  { LET s == <<0, 1, 0, 12>> \o h \o <<0, 0, 0, 7>>
    IN  [i \in 0 .. MCBufLen - 1 |-> s[i + 1]] : h \in Headers }

=============================================================================
