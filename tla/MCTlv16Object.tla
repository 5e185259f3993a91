--------------------------- MODULE MCTlv16Object ---------------------------
(***************************************************************************)
(* Model of one action / action-id object at offset 4 of a 24-byte buffer, *)
(* between a 4-byte neighbour before it and the bytes of the next object   *)
(* after it.  The object can be created over a fresh (zeroed) buffer or    *)
(* over the bytes of a parsed or earlier object of every kind the codec    *)
(* distinguishes.                                                          *)
(***************************************************************************)
EXTENDS Tlv16Object, Sequences

MCBufLen == 24
MCObjOffset == 4

\* Lengths at the edges of the 16-bit field and an ordinary one.
MCLengths == {0, 16, 65535}

\* 16 bytes of object: type, length, vendor, sub-type, padding.
Neighbour == <<0, 0, 0, 4>>
Pad4 == <<0, 0, 0, 0>>
Vendor(v) == <<(v \div 16777216) % 256, (v \div 65536) % 256,
               (v \div 256) % 256, v % 256>>
Exp(vendor, sub) == <<255, 255, 0, 16>> \o Vendor(vendor) \o sub \o Pad4

ObjectImages ==
  { <<0, 0, 0, 0>> \o Pad4 \o Pad4 \o Pad4,                     \* fresh
    <<0, 0, 0, 8>> \o <<0, 0, 0, 1>> \o Pad4 \o Pad4,           \* output
    <<0, 1, 0, 8>> \o <<0, 5, 0, 0>> \o Pad4 \o Pad4,           \* type 1
    Exp(OF_EXPERIMENTER_ID_BSN, <<0, 0, 0, 1>>),                \* mirror
    Exp(OF_EXPERIMENTER_ID_BSN, <<0, 0, 0, 2>>),                \* tunnel dst
    Exp(OF_EXPERIMENTER_ID_BSN, <<0, 0, 0, 7>>),                \* unknown BSN
    Exp(OF_EXPERIMENTER_ID_NICIRA, <<0, 18, 0, 0>>),            \* dec_ttl
    Exp(OF_EXPERIMENTER_ID_NICIRA, <<0, 0, 0, 18>>),            \* 18 in low half
    Exp(42, <<0, 0, 0, 1>>) }                                   \* unknown vendor

MCInitBufs ==
  { LET s == Neighbour \o img \o Neighbour IN [i \in 0 .. MCBufLen - 1 |-> s[i + 1]]
      : img \in ObjectImages }

\* Handles whose identity round-trips through the wire header.
MCObjIds == Tlv16Ids \ GenericExperimenter

\* The generic experimenter handles.
MCGenericIds == GenericExperimenter

=============================================================================
