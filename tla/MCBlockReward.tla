--------------------------- MODULE MCBlockReward ---------------------------
(***************************************************************************)
(* An instance of BlockReward for TLC: two producers, a main and a backup  *)
(* reward over two periods of halving, and up to three old bids.  The      *)
(* auctions and the rewards share nothing but the clock of onblock, so the *)
(* rewards are explored without bids and the auctions without rewards.     *)
(***************************************************************************)
EXTENDS BlockReward, TLC

CONSTANTS alice, bob

Bid(n, who, amount, t) == [name |-> n, bidder |-> who, bid |-> amount, time |-> t]

\* No bids at all; three open ones, one of them younger; or one closed.
MCBids == {
  {},
  {Bid(1, alice, 2, 0), Bid(2, bob, 3, 4), Bid(3, alice, 1, 0)},
  {Bid(1, alice, -3, 0), Bid(2, bob, 2, 1), Bid(3, alice, 2, 0)}}
MCRefunds == {{}, {[name |-> 1, bidder |-> bob, amount |-> 1]}}

NoAuction == bids = {} /\ refunds = {} /\ created = {}
MCApart == NoAuction \/ startTime = 0
\* The administrator acts, and producers come and go, in the first slots only.
MCActive == [p \in Producers |-> prods[p].active]
MCSettings == <<version, startTime, endTime, contribution, MCActive>>
MCSettingTime == 2
MCSettle == MCSettings' # MCSettings => now <= MCSettingTime
MCSymmetry == Permutations(Producers)
=============================================================================
