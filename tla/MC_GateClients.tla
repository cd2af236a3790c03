--------------------------- MODULE MC_GateClients ---------------------------
(* TLC instances of GateClients: connections and users are                *)
(* interchangeable.                                                        *)
EXTENDS GateClients, TLC

MCSymmetry == Permutations(Conns) \cup Permutations(Uids)
=============================================================================
