-------------------------- MODULE MCMergeOverrides --------------------------
(* MergeOverrides on small instances. No symmetry: the runs with several    *)
(* processes check liveness, the others have one of everything.             *)
EXTENDS MergeOverrides
=============================================================================
