----------------------------- MODULE MCRankingJobs -----------------------------
(* RankingJobs on a small instance for TLC.                                  *)
EXTENDS RankingJobs, TLC

CallSymmetry == Permutations(Call)
=============================================================================
