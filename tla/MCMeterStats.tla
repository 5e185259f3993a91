---------------------------- MODULE MCMeterStats ----------------------------
(***************************************************************************)
(* A reply parsed empty or with one entry of zero or one band, growing to  *)
(* three entries of two bands: enough for bands appended after later       *)
(* entries moved off their first offsets.                                  *)
(***************************************************************************)
EXTENDS MeterStats

MCMaxEntries == 3
MCMaxBands == 2
MCMeterIds == {1, 65536}   \* a meter id in the low and one in the high half
MCInitEntries == {<<>>} \cup {<<Entry(n, m)>> : n \in {0, 1}, m \in MCMeterIds}

=============================================================================
