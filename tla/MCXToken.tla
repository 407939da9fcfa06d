------------------------------ MODULE MCXToken ------------------------------
(* Three accounts, one of them the issuer; ratios and smallest fees such   *)
(* that fees of zero, the smallest fee and larger ones all occur.          *)
EXTENDS XToken, TLC

CONSTANTS issuer, a, b

MCSymmetry == Permutations({a, b})
=============================================================================
