----------------------------- MODULE AmaxReward -----------------------------
(***************************************************************************)
(* The amax.reward contract (amax.reward.cpp): producers pay rewards in,   *)
(* which are shared among their voters in proportion to the votes.  The    *)
(* contract keeps one accumulator rpv (rewards_per_vote) per producer and, *)
(* for each producer of a voter's list, the value the accumulator had when *)
(* the voter was last settled.                                             *)
(*                                                                         *)
(* addvote, subvote and voteproducer are called by amax.system, inline in  *)
(* its own actions; they are the operators the module VoteStaking builds   *)
(* on.  An amount is a number of units.  A producer row that does not      *)
(* exist yet is the default row, which is what the contract creates.       *)
(***************************************************************************)
EXTENDS Integers, FiniteSets, Functions

CONSTANTS
  Voters, Producers,
  Reward,      \* the account of this contract
  Other,       \* the other accounts that hold tokens
  Precision,   \* HIGH_PRECISION
  Funds,       \* what each account holds at first
  MaxVotes     \* bound on the votes of a voter when amax.system is not modelled

Accounts == Voters \cup Producers \cup Other \cup {Reward}

ASSUME RewardAssumption ==
  /\ Precision \in Nat \ {0}
  /\ Reward \notin Voters \cup Producers \cup Other
  /\ Funds \in [Accounts -> Nat] /\ MaxVotes \in Nat
  /\ IsFiniteSet(Voters) /\ IsFiniteSet(Producers)

VARIABLES
  producer,   \* _producer_tbl: a row per producer
  votes,      \* _voter_tbl: votes,
  marks,      \*   producers (voted_producer_map: last_rewards_per_vote of each),
  unclaimed,  \*   unclaimed_rewards,
  claimed,    \*   claimed_rewards
  bal         \* the balances in amax.token

voterTable == <<votes, marks, unclaimed, claimed>>
rewardVars == <<producer, voterTable>>

-----------------------------------------------------------------------------
(* The ledger of amax.token, as far as a transfer between accounts goes.   *)

CanPay(from, n) == n > 0 /\ bal[from] >= n
Paid(from, to, n) == [bal EXCEPT ![from] = @ - n, ![to] = @ + n]

-----------------------------------------------------------------------------
(* allocate_producer_rewards, for a voter v and the producers in the       *)
(* domain of delta, whose votes change by delta[p].  From a producer that  *)
(* is not in the list of v yet, v holds no votes and nothing accrues.      *)

InList(v, p)    == p \in DOMAIN marks[v]
VotesForAll(v, p) == votes[v]
HeldVotes(v, p) == IF InList(v, p) THEN votes[v] ELSE 0
RpvSince(v, p)  == producer[p].rpv - (IF InList(v, p) THEN marks[v][p] ELSE 0)

\* calc_voter_rewards, rounded down
Accrued(v, p) ==
  IF RpvSince(v, p) > 0 THEN (HeldVotes(v, p) * RpvSince(v, p)) \div Precision
  ELSE 0
AccruedFrom(v, list) == SumFunction([p \in list |-> Accrued(v, p)])

\* The checks and ASSERTs, for one producer.
CanAllocate(v, p, change) ==
  LET row == producer[p]
  IN  /\ RpvSince(v, p) >= 0
      /\ RpvSince(v, p) > 0 /\ HeldVotes(v, p) > 0 =>
           /\ HeldVotes(v, p) <= row.votes
           /\ row.allocating >= Accrued(v, p)
           /\ row.total = row.allocating + row.allocated
      /\ row.votes + change >= 0

TakenTwice(row, n) == [row EXCEPT !.allocating = @ - 2 * n, !.allocated = @ + n]
SharedTwice(row, n) == [row EXCEPT !.allocating = @ - n, !.allocated = @ + 2 * n]
Shared(row, n) == [row EXCEPT !.allocating = @ - n, !.allocated = @ + n]

Allocate(v, delta) ==
  /\ \A p \in DOMAIN delta : CanAllocate(v, p, delta[p])
  /\ producer' = [p \in Producers |->
       IF p \in DOMAIN delta
       THEN [Shared(producer[p], Accrued(v, p)) EXCEPT !.votes = @ + delta[p]]
       ELSE producer[p]]

\* the accumulators of the producers in list
Marks(list) == [p \in list |-> producer[p].rpv]

-----------------------------------------------------------------------------
(* The actions of the contract.                                            *)

NewProducer == [registered |-> FALSE, total |-> 0, allocating |-> 0,
                allocated |-> 0, votes |-> 0, rpv |-> 0]

\* regproducer
RegReward(p) ==
  /\ producer' = [producer EXCEPT ![p].registered = TRUE]
  /\ UNCHANGED voterTable

\* ontransfer: producer p transfers n to this contract.  The part of a vote
\* unit is rounded down; without votes the accumulator stays.
PerVoteUp(n, v) == IF v > 0 THEN (n * Precision + v - 1) \div v ELSE 0
PerVote(n, v) == IF v > 0 THEN (n * Precision) \div v ELSE 0

Received(row, n) ==
  [row EXCEPT !.total = @ + n, !.allocating = @ + n,
              !.rpv = @ + PerVote(n, row.votes)]

OnTransfer(p, n) ==
  /\ CanPay(p, n)
  /\ producer[p].registered
  /\ producer' = [producer EXCEPT ![p] = Received(producer[p], n)]
  /\ bal' = Paid(p, Reward, n)
  /\ UNCHANGED voterTable

\* change_vote: addvote for a positive change, subvote for a negative one
EnoughVotes(v, change) == change # 0 /\ votes[v] + change >= 0

ChangeVote(v, change) ==
  LET list == DOMAIN marks[v]
  IN  /\ EnoughVotes(v, change)
      /\ Allocate(v, [p \in list |-> change])
      /\ votes' = [votes EXCEPT ![v] = @ + change]
      /\ marks' = [marks EXCEPT ![v] = Marks(list)]
      /\ unclaimed' = [unclaimed EXCEPT ![v] = @ + AccruedFrom(v, list)]
      /\ UNCHANGED claimed

RewardAddVote(v, n) == ChangeVote(v, n)
RewardSubVote(v, n) == ChangeVote(v, -n)

\* voteproducer: the removed producers lose the votes, the added ones gain
\* them, and the kept ones are settled, too.
KeptCountedAgain(v, p, list) == IF p \notin list THEN -votes[v] ELSE votes[v]
VotesMoved(v, p, list) ==
  IF p \notin list THEN -votes[v] ELSE IF InList(v, p) THEN 0 ELSE votes[v]

RewardVoteProducer(v, list) ==
  LET both == DOMAIN marks[v] \cup list
  IN  /\ Allocate(v, [p \in both |-> VotesMoved(v, p, list)])
      /\ marks' = [marks EXCEPT ![v] = Marks(list)]
      /\ unclaimed' = [unclaimed EXCEPT ![v] = @ + AccruedFrom(v, both)]
      /\ UNCHANGED <<votes, claimed>>

\* claimrewards, and claimfor, which lets anyone submit it: pays what is
\* unclaimed after a settlement.
DueNow(v) == AccruedFrom(v, DOMAIN marks[v])
Due(v) == unclaimed[v] + AccruedFrom(v, DOMAIN marks[v])

Claim(v) ==
  LET list == DOMAIN marks[v]
  IN  /\ votes[v] > 0
      /\ CanPay(Reward, Due(v))
      /\ Allocate(v, [p \in list |-> 0])
      /\ bal' = Paid(Reward, v, Due(v))
      /\ marks' = [marks EXCEPT ![v] = Marks(list)]
      /\ unclaimed' = [unclaimed EXCEPT ![v] = 0]
      /\ claimed' = [claimed EXCEPT ![v] = @ + Due(v)]
      /\ UNCHANGED votes

-----------------------------------------------------------------------------
(* The contract on its own, amax.system calling it in any order.           *)

RewardInit ==
  /\ producer = [p \in Producers |-> NewProducer]
  /\ votes = [v \in Voters |-> 0]
  /\ marks = [v \in Voters |-> Marks({})]
  /\ unclaimed = [v \in Voters |-> 0]
  /\ claimed = [v \in Voters |-> 0]
  /\ bal = Funds

CalledBySystem(v) ==
  /\ \/ \E n \in 1 .. MaxVotes : RewardAddVote(v, n) \/ RewardSubVote(v, n)
     \/ \E list \in SUBSET Producers : RewardVoteProducer(v, list)
  /\ votes'[v] <= MaxVotes
  /\ UNCHANGED bal

RewardNext ==
  \/ \E v \in Voters : CalledBySystem(v) \/ Claim(v)
  \/ \E p \in Producers : RegReward(p) /\ UNCHANGED bal
  \/ \E p \in Producers : \E n \in 1 .. bal[p] : OnTransfer(p, n)

RewardSpec == RewardInit /\ [][RewardNext]_<<rewardVars, bal>>

-----------------------------------------------------------------------------
(* Properties.                                                             *)

ProducerRow ==
  [registered : BOOLEAN, total : Nat, allocating : Nat, allocated : Nat,
   votes : Nat, rpv : Nat]

RowsTypeOK ==
  /\ producer \in [Producers -> ProducerRow]
  /\ votes \in [Voters -> Nat]
  /\ marks = [v \in Voters |-> marks[v]]
  /\ \A v \in Voters : \E list \in SUBSET Producers : marks[v] \in [list -> Nat]

\* The rows and the balances are of their types: no amount goes below 0.
RewardTypeOK ==
  /\ RowsTypeOK
  /\ unclaimed \in [Voters -> Nat] /\ claimed \in [Voters -> Nat]
  /\ bal \in [Accounts -> Nat]

\* The books of a producer balance: what it paid in is what is allocated to
\* voters and what is not yet (ASSERT amax.reward.cpp:262), and no voter of
\* its list is marked ahead of the accumulator (CHECK amax.reward.cpp:254),
\* although they are changed in five handlers for two parties.
BooksBalance ==
  /\ \A p \in Producers :
       producer[p].total = producer[p].allocating + producer[p].allocated
  /\ \A v \in Voters : \A p \in DOMAIN marks[v] :
       marks[v][p] <= producer[p].rpv

\* What all the voters of a producer can still claim from it is covered by
\* what it has not allocated yet: the two roundings, of the reward per vote
\* and of the rewards of a voter, only ever lose to the voters, and a voter
\* who joins or adds votes gets nothing of the rewards paid in before.
RewardsCovered ==
  \A p \in Producers :
    SumFunction([v \in Voters |-> HeldVotes(v, p) * RpvSince(v, p)])
      <= producer[p].allocating * Precision

\* The contract can pay: its balance is what is not allocated yet plus what
\* is allocated and not claimed, besides what it had at first.
Solvent ==
  bal[Reward] =
    Funds[Reward] + SumFunction([p \in Producers |-> producer[p].allocating])
                  + SumFunction([v \in Voters |-> unclaimed[v]])

\* No claim is refused for a reason of the contract's own making: a voter
\* with votes and something to claim passes the checks of every producer of
\* its list (CHECK amax.reward.cpp:259), and the contract has the money.
ClaimNeverRefused ==
  \A v \in Voters :
    votes[v] > 0 /\ Due(v) > 0 =>
      /\ \A p \in DOMAIN marks[v] : CanAllocate(v, p, 0)
      /\ CanPay(Reward, Due(v))

\* What a voter has earned, claimed or not, never falls, and grows only by a
\* payment of a producer of its list: no change of votes or list, its own or
\* another's, and no claim shifts a reward from one voter to another.
Earned(v) == claimed[v] + unclaimed[v] + AccruedFrom(v, DOMAIN marks[v])

EarnedByPaymentsOnly ==
  [][\A v \in Voters :
       /\ Earned(v)' >= Earned(v)
       /\ Earned(v)' > Earned(v) =>
            \E p \in DOMAIN marks[v] : producer'[p].total > producer[p].total
    ]_<<rewardVars, bal>>
=============================================================================
