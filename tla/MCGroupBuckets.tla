---------------------------- MODULE MCGroupBuckets ----------------------------
(***************************************************************************)
(* A group of each version from 1.1 growing to two buckets of two actions  *)
(* of every kind: plain, vendor extensions with u32 and u16 sub-types, the *)
(* generic experimenter, and SET_VLAN_VID, which 1.2 and 1.3 lack.         *)
(***************************************************************************)
EXTENDS GroupBuckets

MCMaxBuckets == 2
MCMaxActions == 2
MCWeights == {1, 256}   \* a weight in the low and one in the high byte
\* POP_VLAN, a plain 8-byte TLV like OUTPUT, is left out to keep the run short.
MCActIds == ActionIds \ {"OF_ACTION_POP_VLAN"}
=============================================================================
