---------------------------- MODULE VoteStaking ----------------------------
(***************************************************************************)
(* Voting in amax.system (voting.cpp) together with amax.reward: a voter   *)
(* stakes tokens for votes, gives them to a list of producers, and takes   *)
(* them back through a refund that becomes due after a delay.              *)
(*                                                                         *)
(* addvote, subvote and vote change the tables of amax.system and, inline, *)
(* those of amax.reward and amax.token; a check that fails in any of the   *)
(* three undoes them all, so each is one action whose guard is the         *)
(* conjunction of the checks.  Time is the age of what the code dates: a   *)
(* tick stands for a day, and an age stops where no check tells it apart   *)
(* from a greater one.                                                     *)
(***************************************************************************)
EXTENDS AmaxReward

CONSTANTS
  VoteAccount,   \* vote_account, which holds the staked tokens
  Admins,        \* armoniaadmin: exempt from the interval of subvote
  Factor,        \* vote_to_core_asset_factor
  VoteInterval,  \* vote_interval_sec
  RefundDelay,   \* refund_delay_sec
  MaxList,       \* max_vote_producer_count
  MaxElected,    \* bound on the elected votes, which legacy lists let grow:
                 \* a token is voted again after its votes were subtracted
                 \* under another list
  LegacyVoting   \* whether the model starts with elected_version 0

ASSUME StakingAssumption ==
  /\ VoteAccount \in Other \ (Voters \cup Producers)
  /\ Admins \subseteq Voters
  /\ Factor \in Nat \ {0}
  /\ VoteInterval \in Nat /\ RefundDelay \in Nat
  /\ MaxList \in Nat /\ MaxElected \in Nat
  /\ LegacyVoting \in BOOLEAN

VARIABLES
  prods,         \* _producers: is it there, is_active, elected_votes
  totalElected,  \* _elect_gstate.total_producer_elected_votes
  voters,        \* _voters: is it there, votes, producers
  sinceUnvoted,  \*   the age of last_unvoted_time
  refunds,       \* voterefund: votes, and the age of request_time
  electionsOn    \* _elect_gstate.is_init()

systemVars == <<prods, totalElected, voters, sinceUnvoted, refunds, electionsOn>>
vars == <<rewardVars, bal, systemVars>>

NoRefund == [votes |-> 0, age |-> 0]
Listed(v) == voters[v].list

-----------------------------------------------------------------------------
(* update_producer_elected_votes: takes n from each producer of from, then *)
(* gives m to each of to.  vote calls it with the whole old list and the   *)
(* whole new one, kept producers included, since it compares iterators of  *)
(* two vectors.                                                            *)

ElectTakenOnly(from, n, to, m) ==
  /\ \A p \in from \cup to : prods[p].known
  /\ \A p \in from : prods[p].elected >= n
  /\ prods' = [p \in Producers |-> [prods[p] EXCEPT
       !.elected = IF p \in from THEN @ - n ELSE IF p \in to THEN @ + m ELSE @]]
  /\ totalElected' =
       totalElected - n * Cardinality(from) + m * Cardinality(to)

Elect(from, n, to, m) ==
  /\ \A p \in from \cup to : prods[p].known
  /\ \A p \in from : prods[p].elected >= n
  /\ totalElected >= n * Cardinality(from)
  /\ prods' = [p \in Producers |-> [prods[p] EXCEPT
       !.elected = @ - (IF p \in from THEN n ELSE 0) + (IF p \in to THEN m ELSE 0)]]
  /\ totalElected' =
       totalElected - n * Cardinality(from) + m * Cardinality(to)

-----------------------------------------------------------------------------
(* The actions.                                                            *)

Registered(row) == [known |-> TRUE, active |-> TRUE, elected |-> row.elected]

\* register_producer registers the producer in amax.reward, too.
RegProducer(p) ==
  /\ prods' = [prods EXCEPT ![p] = Registered(prods[p])]
  /\ IF producer[p].registered THEN UNCHANGED rewardVars ELSE RegReward(p)
  /\ UNCHANGED <<bal, totalElected, voters, sinceUnvoted, refunds, electionsOn>>

\* unregprod, and rmvproducer of the system account
UnregProducer(p) ==
  /\ prods[p].known
  /\ prods' = [prods EXCEPT ![p].active = FALSE]
  /\ UNCHANGED <<rewardVars, bal, totalElected, voters, sinceUnvoted, refunds,
                 electionsOn>>

\* vote_to_core_asset
Tokens(n) == Factor * n

\* the row of a voter whose votes change, created if need be
WithVotes(row, n) == [known |-> TRUE, votes |-> row.votes + n, list |-> row.list]

AddVote(v, n) ==
  /\ CanPay(v, Tokens(n))
  /\ bal' = Paid(v, VoteAccount, Tokens(n))
  /\ Elect({}, 0, Listed(v), n)
  /\ voters' = [voters EXCEPT ![v] = WithVotes(voters[v], n)]
  /\ RewardAddVote(v, n)
  /\ UNCHANGED <<sinceUnvoted, refunds, electionsOn>>

Rested(v) == sinceUnvoted[v] > VoteInterval

RefundAnyway(v) == TRUE
RefundFree(v)   == refunds[v] = NoRefund

\* subvote, with the deferred refundvote it sends
SubVote(v, n) ==
  /\ voters[v].known /\ voters[v].votes >= n
  /\ v \in Admins \/ Rested(v)
  /\ RefundFree(v)
  /\ Elect(Listed(v), n, {}, 0)
  /\ voters' = [voters EXCEPT ![v] = WithVotes(voters[v], -n)]
  /\ sinceUnvoted' = [sinceUnvoted EXCEPT ![v] = 0]
  /\ refunds' = [refunds EXCEPT ![v] = [votes |-> n, age |-> 0]]
  /\ RewardSubVote(v, n)
  /\ UNCHANGED <<bal, electionsOn>>

\* vote; with the list it already has, the action returns at once.
Vote(v, list) ==
  /\ voters[v].known /\ Cardinality(list) <= MaxList
  /\ list # Listed(v)
  /\ Rested(v)
  /\ Elect(Listed(v), voters[v].votes, list, voters[v].votes)
  /\ voters' = [voters EXCEPT ![v].list = list]
  /\ sinceUnvoted' = [sinceUnvoted EXCEPT ![v] = 0]
  /\ RewardVoteProducer(v, list)
  /\ UNCHANGED <<bal, refunds, electionsOn>>

\* refundvote: the deferred transaction, or anyone
RefundDueRested(v) == refunds[v].age >= RefundDelay /\ Rested(v)
RefundDue(v)       == refunds[v].age >= RefundDelay

RowKept(v)   == refunds[v]
RowErased(v) == NoRefund

RefundVote(v) ==
  /\ refunds[v] # NoRefund /\ RefundDue(v)
  /\ CanPay(VoteAccount, Tokens(refunds[v].votes))
  /\ bal' = Paid(VoteAccount, v, Tokens(refunds[v].votes))
  /\ refunds' = [refunds EXCEPT ![v] = RowErased(v)]
  /\ UNCHANGED <<rewardVars, prods, totalElected, voters, sinceUnvoted, electionsOn>>

\* update_voting_power, of delegatebw: the row of a voter is created; what is
\* staked for resources is not modelled.
StakeBandwidth(v) ==
  /\ voters' = [voters EXCEPT ![v] = WithVotes(voters[v], 0)]
  /\ UNCHANGED <<rewardVars, bal, prods, totalElected, sinceUnvoted, refunds,
                 electionsOn>>

\* voteproducer, until the elections are initialized: it overwrites the list
\* that vote, addvote and subvote go by, and counts other votes.
LegacyVote(v, list) ==
  /\ ~electionsOn
  /\ voters[v].known /\ Cardinality(list) <= MaxList
  /\ \A p \in list : prods[p].known /\ prods[p].active
  /\ voters' = [voters EXCEPT ![v].list = list]
  /\ UNCHANGED <<rewardVars, bal, prods, totalElected, sinceUnvoted, refunds,
                 electionsOn>>

\* upgradevote and initbbpelect, as far as voting goes: elected_version > 0
InitElections ==
  /\ ~electionsOn
  /\ electionsOn' = TRUE
  /\ UNCHANGED <<rewardVars, bal, prods, totalElected, voters, sinceUnvoted, refunds>>

\* Actions of amax.reward that amax.system does not call.
RewardAction ==
  /\ \/ \E v \in Voters : Claim(v)
     \/ \E p \in Producers : \E n \in 1 .. bal[p] : OnTransfer(p, n)
  /\ UNCHANGED systemVars

\* A day goes by.
Older(age, bound) == IF age < bound THEN age + 1 ELSE age

Tick ==
  /\ sinceUnvoted' = [v \in Voters |-> Older(sinceUnvoted[v], VoteInterval + 1)]
  /\ refunds' = [v \in Voters |->
       IF refunds[v] = NoRefund THEN NoRefund
       ELSE [refunds[v] EXCEPT !.age = Older(@, RefundDelay)]]
  /\ UNCHANGED <<rewardVars, bal, prods, totalElected, voters, electionsOn>>

-----------------------------------------------------------------------------
StakingInit ==
  /\ RewardInit
  /\ prods = [p \in Producers |-> [known |-> FALSE, active |-> FALSE, elected |-> 0]]
  /\ totalElected = 0
  /\ voters = [v \in Voters |-> [known |-> FALSE, votes |-> 0, list |-> {}]]
  /\ sinceUnvoted = [v \in Voters |-> VoteInterval + 1]
  /\ refunds = [v \in Voters |-> NoRefund]
  /\ electionsOn = ~LegacyVoting

VoterAction(v) ==
  \/ \E n \in 1 .. bal[v] : AddVote(v, n)
  \/ \E n \in 1 .. voters[v].votes : SubVote(v, n)
  \/ \E list \in SUBSET Producers : Vote(v, list) \/ LegacyVote(v, list)
  \/ StakeBandwidth(v)

StakingNext ==
  \/ \E v \in Voters : VoterAction(v) /\ totalElected' <= MaxElected
  \/ \E v \in Voters : RefundVote(v)
  \/ \E p \in Producers : RegProducer(p) \/ UnregProducer(p)
  \/ InitElections
  \/ RewardAction
  \/ Tick

StakingSpec == StakingInit /\ [][StakingNext]_vars

\* Time passes, and the deferred transaction of a subvote is executed.
FairStakingSpec ==
  StakingSpec /\ WF_vars(Tick) /\ \A v \in Voters : WF_vars(RefundVote(v))

-----------------------------------------------------------------------------
(* Properties.                                                             *)

\* The rows of amax.system are of their types; no elected vote goes below 0.
StakingTypeOK ==
  /\ prods \in [Producers -> [known : BOOLEAN, active : BOOLEAN, elected : Nat]]
  /\ totalElected \in Nat
  /\ voters \in [Voters -> [known : BOOLEAN, votes : Nat, list : SUBSET Producers]]
  /\ sinceUnvoted \in [Voters -> 0 .. VoteInterval + 1]
  /\ refunds \in [Voters -> [votes : Nat, age : 0 .. RefundDelay]]
  /\ electionsOn \in BOOLEAN

\* The two contracts keep the same votes and lists, each in its own tables
\* and with its own arithmetic: amax.system takes the old list away and adds
\* the new one, amax.reward works out what was removed, kept and added.
ContractsAgree ==
  /\ \A v \in Voters : voters[v].votes = votes[v] /\ Listed(v) = DOMAIN marks[v]
  /\ \A p \in Producers : prods[p].elected = producer[p].votes

\* The elected votes of a producer, by which it is ranked, are those of the
\* voters that list it, and the total is theirs.
ElectedVotesAddUp ==
  /\ \A p \in Producers :
       prods[p].elected = SumFunction([v \in Voters |->
                            IF p \in Listed(v) THEN voters[v].votes ELSE 0])
  /\ totalElected = SumFunction([p \in Producers |-> prods[p].elected])

\* The vote account holds the tokens of all votes and of all pending refunds,
\* besides what it had at first, so that no CHECK of the token contract ever
\* stops a refund.
StakesBacked ==
  bal[VoteAccount] = Funds[VoteAccount]
    + Tokens(SumFunction([v \in Voters |-> voters[v].votes + refunds[v].votes]))

\* A voter can always take back its votes, as far as the data go: neither
\* "producer's elected votes can not be negative" (voting.cpp:727) nor a check
\* of amax.reward refuses it, whatever happened to its producers since.
VotesCanBeTakenBack ==
  \A v \in Voters : voters[v].votes > 0 =>
    /\ votes[v] >= voters[v].votes
    /\ \A p \in Listed(v) : prods[p].known /\ prods[p].elected >= voters[v].votes
    /\ \A p \in DOMAIN marks[v] : CanAllocate(v, p, -voters[v].votes)

\* A subtracted vote is paid back in the end: no later action of the voter,
\* of another voter or of a producer keeps its refund from being due and paid.
RefundPaid == \A v \in Voters : refunds[v] # NoRefund ~> refunds[v] = NoRefund
=============================================================================
