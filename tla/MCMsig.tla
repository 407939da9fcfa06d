------------------------------- MODULE MCMsig -------------------------------
(* Two of three accounts authorize each of two transactions, one of them   *)
(* with a delay; one name that is used again and again.                    *)
EXTENDS Msig, TLC

CONSTANTS a, b, c, delayed, prompt,
          MaxSent   \* bound: signed approvals on their way at a time

MCLevels == {a, b, c}
MCEnough == [t \in {delayed, prompt} |-> {s \in SUBSET MCLevels : Cardinality(s) >= 2}]
MCDelay == delayed :> 2 @@ prompt :> 0
MCExpiration == delayed :> 3 @@ prompt :> 2
FewSent == Cardinality(sent) <= MaxSent
MCSymmetry == Permutations(MCLevels)
=============================================================================
