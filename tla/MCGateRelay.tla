----------------------------- MODULE MCGateRelay -----------------------------
(* Instances of GateRelay.                                                   *)
EXTENDS GateRelay

\* Only equality tells options from each other, and texts (run gate).
Alike == Permutations(Options) \cup Permutations(Texts)
=============================================================================
