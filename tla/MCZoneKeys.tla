----------------------------- MODULE MCZoneKeys -----------------------------
(* TTLs of nothing, and below and above MaxAllowedTTL. *)
EXTENDS ZoneKeys

MCTTLs == {0, 1, 3}
=============================================================================
