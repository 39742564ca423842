--------------------------- MODULE MCMtpSpeculative ---------------------------
(* MtpSpeculative for TLC: one token is as good as another.                  *)
EXTENDS MtpSpeculative, TLC

Symmetry == Permutations(Tokens)
===============================================================================
