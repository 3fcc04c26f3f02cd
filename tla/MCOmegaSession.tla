--------------------------- MODULE MCOmegaSession ---------------------------
(* TLC instances of OmegaSession. *)
EXTENDS OmegaSession

RecoveringOps == {"sat", "valid", "simplify"}
SatAndHull == {"sat", "hull"}
NeverRestart == -1
DistinctOps == {"sat", "simplify", "pairwise", "hull"}
=============================================================================
