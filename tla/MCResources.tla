---------------------------- MODULE MCResources ----------------------------
(***************************************************************************)
(* An instance of Resources for TLC: two accounts and a small market.  One *)
(* account is made without limits, the system manages those of the other.  *)
(***************************************************************************)
EXTENDS Resources

CONSTANTS a, b

MCFunds == [x \in Accounts |-> IF x = a THEN 6 ELSE 1]

\* Bounds: up to three tokens are staked or refunded; RAM is traded, and limits
\* are managed, while there is at most one, and both while there is none; RAM
\* is traded after the elections only, and blocks count while the supply grows,
\* up to a size.
MCMaxSize == 16
MCStaked == MapThenSumSet(LAMBDA x : voter[x].staked + Total(refunds[x]), Accounts)
MCTrading == ram # [size |-> InitialSize, reserved |-> 0, stake |-> 0, rate |-> 0]
MCManaging == \E x \in Accounts : voter[x].managed # {}
MCBound ==
  /\ MCStaked <= CASE MCTrading /\ MCManaging -> 0
                   [] MCTrading \/ MCManaging -> 1
                   [] OTHER -> 3
  /\ MCTrading => electionsOn /\ activated
  /\ ram.size <= MCMaxSize
  /\ elapsed > 0 => ram.rate > 0
  /\ voter[b].managed = {}
  /\ MCTrading => voter[a].managed \subseteq {"ram"}
=============================================================================
