---------------------------- MODULE MCOAuthBinding ----------------------------
(* OAuthBinding on a small instance for TLC.                                 *)
EXTENDS OAuthBinding, TLC

CallSymmetry == Permutations(Call)
=============================================================================
