--------------------------- MODULE MCListReader ---------------------------
(***************************************************************************)
(* Action lists of up to three entries, of every action the tables know    *)
(* (the vendor extensions included), in every version that has them.      *)
(***************************************************************************)
EXTENDS ListReader

MCFamily == "action"
MCMaxItems == 3

\* An entry as a well-formed list lays it down: its fixed length declared.
WellFormed(id) == [id |-> id, len |-> FixedLength(id), vendor |-> 0]

MCLists ==
    UNION {[1 .. n -> {WellFormed(id) : id \in ActionIds}] : n \in 0 .. MCMaxItems}

(***************************************************************************)
Zero(id) == [id |-> id, len |-> 0, vendor |-> 0]

MCZeroLists ==
    { <<Zero(a), WellFormed(b)>> : a, b \in {"OF_ACTION_OUTPUT", "OF_ACTION_BSN_MIRROR"} }
      \cup { <<WellFormed(a), Zero(b)>> : a, b \in {"OF_ACTION_OUTPUT", "OF_ACTION_BSN_MIRROR"} }

(***************************************************************************)
(* Well-formed built lists in which the caller gave a generic 8-byte       *)
(* experimenter action the Nicira or BSN vendor id (an extension this      *)
(* build has no entry for), followed by another action.                    *)
(***************************************************************************)
VendorExp(vendor) ==
    [id |-> "OF_ACTION_EXPERIMENTER", len |-> FixedLength("OF_ACTION_EXPERIMENTER"),
     vendor |-> vendor]

MCVendorLists ==
    { <<VendorExp(vendor), WellFormed(next)>> :
        vendor \in {OF_EXPERIMENTER_ID_NICIRA, OF_EXPERIMENTER_ID_BSN},
        next \in ActionIds \ GenericExperimenter }

=============================================================================
