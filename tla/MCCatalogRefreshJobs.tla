------------------------- MODULE MCCatalogRefreshJobs -------------------------
(* Instances of CatalogRefreshJobs for TLC. *)
EXTENDS CatalogRefreshJobs, TLC

CallerSymmetry == Permutations(Caller)
ProcSymmetry   == Permutations(Proc)
SourceSymmetry == Permutations(Source)
=============================================================================
