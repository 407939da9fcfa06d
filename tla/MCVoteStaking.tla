--------------------------- MODULE MCVoteStaking ---------------------------
(***************************************************************************)
(* Instances of VoteStaking for TLC: two voters with tokens for one or two *)
(* votes each, and up to two producers, of which one shares rewards.       *)
(***************************************************************************)
EXTENDS VoteStaking

CONSTANTS Payer,   \* the producer that pays rewards
          v2

Tokens2 == [a \in Accounts |->
              CASE a \in Voters -> 2 [] a = Payer -> 1 [] OTHER -> 0]
Tokens3 == [a \in Accounts |->
              CASE a = v2 -> 1 [] a \in Voters -> 2 [] a = Payer -> 2 [] OTHER -> 0]

\* Bound: the other producer does not unregister.
OnlyPayerLeaves == \A p \in Producers \ {Payer} : prods[p].known => prods[p].active
=============================================================================
