------------------------------- MODULE MCSyncer -------------------------------
(* Small instances of Syncer for TLC. *)
EXTENDS Syncer

CONSTANTS Keys, Values

MCConfigs == UNION {[S -> Values] : S \in SUBSET Keys}
MCEmpty == [k \in {} |-> k]
=============================================================================
