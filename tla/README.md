# TLA+ models of amax.contracts

Formal models of the contracts of the AMAX chain: TLA+ modules translated from the
C++ sources, TLC runs that check them on small instances, and theorems whose
proofs TLAPS checks for all instances. Paths without a directory are files of
`src/src_system/contracts/amax.system/src/`, and `hpp` is
`src/src_system/contracts/amax.system/include/amax.system/amax.system.hpp`.

Contents: [the system](#the-system), [the models](#the-models),
[the runs](#the-runs), [disagreements found](#disagreements-found),
[the proofs](#the-proofs), [not modelled](#not-modelled), [the plan](#the-plan).

## The system

Contracts are single threaded: the chain executes one transaction at a time, a
failing `check`, `CHECK` or `ASSERT` undoes the whole transaction, inline actions
included, and a transfer notifies the receiving contract within it. What is hard
is therefore not data races but **long histories**: tables of several contracts,
and incrementally maintained summaries of tables, that must stay consistent over
any sequence of actions of any number of accounts; and what is not part of the
transaction: the deferred refund, the flush of schedule changes by `onblock`,
approvals that arrive late, orders confirmed later, and everything that depends on
time.

| Component | State | Operations | What must hold | Model |
|---|---|---|---|---|
| Election queue (`voting.cpp`) | producers table with its index `electedprod`; main and backup queue, stored as a size and copies of three rows each; `producer_change_interrupted` | `process_elected_producer`, `reinit_elected_producers`, `save_producer_changes`, called by every vote and registration; `initbbpelect`, `upgradevote`, `setmprodvote` | the copies are those a scan of the index would give; the changes add up to the top of the index; the queue stays within its bounds and never makes a vote fail | `ElectedQueue` |
| Store of schedule changes (`voting.cpp`, `producer_change.hpp`) | `electchange`: stored changes by sequence | `save_producer_changes` appends, `onblock` merges and erases batches | the chain is told the elected schedules in order, none is lost | `ChangeLog` |
| Voting and stakes (`voting.cpp`) | voters, elected votes of producers and their total, vote refunds | `addvote`, `subvote`, `vote`, `refundvote`; `regproducer`, `unregprod`; legacy `voteproducer` | elected votes are the sum of the voters' votes; votes and refunds are backed by tokens; a vote can be taken back and is refunded in the end | `VoteStaking` |
| Voter rewards (`amax.reward`) | per producer: rewards paid in, allocating, allocated, votes, accumulator; per voter: votes, marks of the accumulators, unclaimed, claimed | `regproducer`, `addvote`, `subvote`, `voteproducer` (called by amax.system), `claimrewards`, `claimfor`, transfer notification | books balance; the contract is solvent; roundings never favour a claimant | `AmaxReward` |
| Block rewards (`producer_pay.cpp`) | reward infos, unclaimed rewards of producers, halving | `onblock`, `cfgreward`, `cfgbbpreward`, `cfgcontrib`, `setvoteshare`, `claimrewards`, `undoreward` | produced rewards stay within the total and last; each is paid once | `BlockReward` |
| Name auction (`name_bidding.cpp`) | bids and their refunds | close in `onblock`, `bidrefund`, `newaccount` | auctions close from the highest bid down | `NameAuction` |
| Resources and RAM market (`delegate_bandwidth.cpp`, `exchange_state.cpp`, `amax.system.cpp`) | delegations, totals, refunds, managed limits, Bancor market | `delegatebw`, `undelegatebw`, `refund`, `buyram`, `buyrambytes`, `sellram`, `setram`, `setramrate`, `setacctram/net/cpu`, `setalimits` | stakes are covered, limits follow totals, the market can buy all RAM back | `Resources` |
| Token ledger (`amax.token`) | supply, issuer, balances, blacklists | `issue`, `setissue`, `retire`, `transfer`, `slashblack`, `blacklist`, `open`, `close` | balances add up to the supply | `TokenLedger` |
| Mining (`amax.one`, `amax.two`, `amax.ido`) | remaining supply, orders, prices | transfers to the contract, orders and their confirmation, settings | paid out only against what remains, once per order | `Mining` |
| Token with fees (`amax.xtoken`) | supply, fee settings, balances with flags | `issue`, `retire`, `transfer`, `open`, `close`, settings of the issuer | fees conserve tokens; freezing and pausing hold | `XToken` |
| Multisig (`amax.msig`) | proposals, approvals, invalidations | `propose`, `approve`, `unapprove`, `cancel`, `exec`, `invalidate` | approvals count for what was meant; delays are served | `Msig` |
| REX, PowerUp (`rex.cpp`, `powerup.cpp`) | pool and loans; rental state and orders | all refused | | |
| `amax.wrap`, `amax.bios` | | pass-through | | |

How they interact: `addvote`, `subvote` and `vote` call `amax.token` (stake) and
`amax.reward` (the same votes, kept again) inline; each also runs the election
queue and stores the changes it makes. `refundvote` is a deferred transaction the
chain executes after three days. Producers pay rewards by a transfer to
`amax.reward`, which `claimrewards` of amax.system makes for them. `onblock`, once
per block, accrues block rewards and, once a minute, flushes stored changes and
closes auctions. The elections being on changes how resources are unstaked. The
mining contracts pay by inline transfers of `amax.token`.

The hazards listed in `PROJECT.json` name the lines where this bites.

## The models

| Module | Models | Extends |
|---|---|---|
| `ScheduleChanges` | the changes of a schedule and what they do to it, used by the next two | |
| `ElectedQueue` | the election queue, with the actions that move it | `ScheduleChanges` |
| `ChangeLog` | the store of changes and its flush | `ScheduleChanges` |
| `ScheduleFeed` | abstract: what the native system is promised; implemented by `ChangeLog` | |
| `AmaxReward` | `amax.reward` with the balances of `amax.token` it touches | |
| `VoteStaking` | voting and stakes, composed with `AmaxReward` | `AmaxReward` |
| `NameAuction` | the auctions and their refunds | |
| `BlockReward` | `onblock` as a whole and the rewards, composed with `NameAuction` | `NameAuction` |
| `Resources` | bandwidth, RAM market and managed limits, with the ledger they move | |
| `TokenLedger` | `amax.token` | |
| `Mining` | the three mining contracts, composed with `TokenLedger` | `TokenLedger` |
| `XToken`, `Msig` | `amax.xtoken`, `amax.msig` | |
| `MC...` | instances for TLC: values of constants, and bounds on the states explored | |
| `Sums` | facts about sums over finite sets, for the proofs | |
| `ElectedQueueProofs`, `ChangeLogProofs`, `VoteStakingProofs`, `BlockRewardProofs`, `ResourcesProofs`, `MiningProofs` | theorems about the module of that name and those it extends | `Sums` |
| `StandaloneProofs` | theorems about `XToken` and `Msig` | `XToken`, `Sums` |

Conventions. One action stands for one contract action with everything it calls;
its guard is the conjunction of all checks on its way, so a refused transaction is
a disabled action. Authorizations are the choice of the acting account. An amount
is a number of units (of votes, tokens, bytes). Bounds on counters are constants
with a comment that says so. Arithmetic is exact: rounding is that of the integer
division the code does, or of the truncation of its `double`. Definitions
commented `mutant:` are not part of the models: each is a plausible mistake in the
definition that follows it, for which a run finds a property violated.

### ElectedQueue

`table` is the producers table; the index is the order `Precedes` on its rows.
`meq` and `beq` are the two queues, records of the size (`last_producer_count`)
and the three copies `tail`, `prev` (`tail_prev`), `next` (`tail_next`).
`process_elected_producer` is `Process`: `Sound` holds its asserts, `Moved`
dispatches on where the producer was and is to `StayInMain`, `FallFromMain`,
`IntoMain`, `MoveInBackup` and `MoveOutside`, and `Refetched` does the reading from
the index that the `refresh_*` flags ask for. A copy such a flag is set for is
marked `Refetch` in between. `Save` is `save_producer_changes`, with its three
outcomes `Restart`, `Drop` and `Emit`. What the emitted changes add up to is `sched`,
the schedule the chain would have; the chain itself is external. Its `fit` becomes
FALSE when a change does not fit it. A vote action processes the producers of
its list in the order of the names, one after the other, on one set of changes.

Abstractions: names are numbers; keys are model values; votes are small numbers;
producers always have the extension row of the new voting; the stake and the
rewards of a vote are in `VoteStaking`.

### ChangeLog and ScheduleFeed

`ElectedQueue` shows that each set of changes leads to the top of the index.
`ChangeLog` takes that as given, lets the elected schedule move to any of
`Schedules`, and models what happens to the changes on the way to the chain: the
rows of `electchange` (`log`), each with its identifier and the sequence of its
time; `Emit`, `Restart` (a new sequence that replaces what was scheduled) and `Drop`
(the changes are interrupted); and `update_elected_producer_changes`: `Batch` is how
many rows `onblock` takes (`MaxFlushRows`, `MinFlushChanges`), `MergedRows` their merging
by `producer_change_helper`, `FlushMerged` tells the merged changes and erases the
rows, and `FlushEmpty` is the batch that comes to nothing, whose rows are erased or
kept as the uninitialized `need_erasing` (`voting.cpp:553`) happens to be. `ready` is
the chain, which takes one proposal at a time; `NativeReady` is external. While
the backup producers are not enabled a whole schedule is told by legacy votes
(`OnBlockWhole`); that schedule is chosen freely.

`ScheduleFeed` is the promise: schedules are decided one after another, and the
chain is told some of them, in that order; a new start drops those pending.
`ChangeLog` implements it (`IsScheduleFeed`) with `native` as it is and
`pending <- Pending`, the schedules that the rows of the present sequence lead to
one by one. That merging a batch tells what telling its rows singly would have
told is what makes a flush an `Announce`.

### AmaxReward

`producer` has the rows of producers, `votes`, `marks`, `unclaimed`, `claimed` the
columns of the voter table; the domain of `marks[v]` is the voter's list.
`Allocate` is `allocate_producer_rewards` for all producers of a list at once: they
are different rows, and the rewards the voter gets are their sum (`AccruedFrom`).
A voter holds no votes (`HeldVotes`) of a producer it is about to add, which is how
`voteproducer` calls it.

### VoteStaking

Adds the tables of `amax.system`: `prods`, `totalElected`, `voters`, `refunds`, and
time as ages: `Tick` is a day, `sinceUnvoted` saturates one day above the interval
and the age of a refund at the delay, above which no check can tell ages apart.
`Vote` takes the votes from the whole old list and gives them to the whole new one,
as the code does: its merge compares iterators of two different vectors, which
order all of one before all of the other. `RefundVote` stands for the deferred
transaction and for anyone who submits `refundvote`, which asks for no authority.

`StakeBandwidth` is only the row of a voter that `delegatebw` creates. Left out:
blacklists, the constant date in `subvote` (passed), vote weights (`total_votes`),
proxies.

### BlockReward and NameAuction

Time is the slot of a block; a slot has its block (`OnBlock`) or is missed
(`MissSlot`), so halvings are noticed late. `main` and `backup` are the two reward
infos; `MainAt` and `BackupAt` halve them when a new period is noticed, and `Credits` is
the guard of `inc_producer_rewards`.
`OnBlock` credits the producer of the block and the backup producer named in the
header extension, and once a minute closes auctions (`CloseAuctions`) with the
iterator the code advances after the row under it has moved in the index
`highbid` (`Before`, `NextRow`). `paid` is a history of what producers kept, shared
and gave up. `bidname` is refused by its first check, so the bids are those that the
table has from before.

### Resources

`del`, `res`, `refunds` and `voter` are the tables; `deferred` is the deferred
transaction of a refund, `limits` what the chain was told. `ChangeBw` is `changebw`:
`Restake` changes delegation, totals and limits, and the tokens go by one of two
rules, a refund that waits before the elections (`MoveByRefund`) and payment at once
since (`MoveAtOnce`). The market is `market` and the counters of
the global state `ram`; `BancorOutput` and `BancorInput` are the two formulas of
`exchange_state.cpp`, rounded as there; `update_ram_supply` is part of each action
that calls it (`GrownBase`, `GrownSize`).

### TokenLedger and Mining

`TokenLedger` is `amax.token` for one symbol; `degov`'s blacklist is a constant.
`Mining` adds the three contracts. APL and USDT are ledgers outside the
repository: a miner may send any amount at any time. Whether a swap goes through
an order depends on the amount (`AdsAmount`), as in the code. `phase` places the
present before, between or after `started_at` and `ended_at`. What `amax.two`
computes for an amount is any member of `Rewards[n]`.

### XToken

A row holds the balance and the two flags. `Transfer` reads both rows, then
writes up to three, in the order of the code, also when sender, receiver and fee
receiver coincide.

### Msig

`sent` holds approvals that were signed but not executed yet; an approval that is
sent without a hash counts for whatever then stands under the name. `Enough` is
`check_transaction_authorization`. `enoughSince` is a history variable.

## The runs

TLC finishes each in under five minutes with two workers. Bounds are the
constants of the `.cfg` files and the constraints of the `MC` modules.

| Run | Checks | Instance |
|---|---|---|
| `queue_votes` | `QueuePositions`, `ScheduleIsTop`, `QueueCounts`, `InterruptedOnlyWhenShort` | 7 producers, 2 main, 3 to 4 backup, 0 to 2 votes; `addvote` and `subvote` of lists of two, `vote` from one producer to another, all sizes |
| `queue_registration` | `QueueRows`, `ScheduleMembersAreTop`, `VotesNeverRefused`, `ScheduleConsistent` | 7 producers, 0 to 2 votes, one registers late behind the queues, one changes between two keys; minimum 1 or 2, `upgradevote` again |
| `queue_lost_position` | `TailPositionsFound`, violated | 6 producers, 0 to 1 votes, all actions; one producer registers, leaves, returns |
| `queue_unseen_row` | `ScheduleConsistent`, violated | 8 producers, 0 to 2 votes; one registers late, wherever its name puts it |
| `change_log` | `LogOrdered`, `LogAddsUp`, `FlushNeverAborts`, `IsScheduleFeed`, `RowsLeaveLog` | 3 schedules of 3 producers with 2 keys; up to 3 rows, 2 restarts, batches of 2 rows |
| `staking_books` | `ContractsAgree`, `ElectedVotesAddUp`, `StakesBacked`, `VotesCanBeTakenBack`, `RewardTypeOK`, `BooksBalance`, `RewardsCovered`, `Solvent`, `ClaimNeverRefused`, `EarnedByPaymentsOnly` | 2 voters, one with 2 tokens and one with 1; 2 producers, one of whom pays up to 2; precision 4; elections on |
| `staking_legacy` | `StakesBacked`, `RefundPaid` | 2 voters with 2 tokens, 1 producer, at most 4 elected votes; starts before the elections; one voter exempt from the interval |
| `block_rewards` | `RewardsConserved`, `WithinTotals`, `HalvedRewardsLast`, `HighestClosedFirst` | 2 producers, totals 12 and 6, periods of 3 slots, 6 slots; three initial auctions |
| `resources` | `StakesAddUp`, `StakesCovered`, `LimitsFollowTotals`, `RamConserved`, `RamStakeSuffices` | 2 accounts, market of 12 to 16 bytes against 4 tokens |
| `mining` | `SupplyHeld`, `PaidAgainstRemained` | 7 accounts, one miner, supply 3, up to 2 orders |
| `xtoken` | `FeesConserve`, `StoppedAccountsKeep` | 3 accounts, supply 5, ratios of none, a fifth and four fifths |
| `msig` | `ApprovedAsMeant`, `DelayServed` | one name, 3 levels of which 2 authorize, a delayed and a prompt transaction, 4 steps of time |

Why these bounds.

* *Queue.* The code distinguishes a producer above, at or below each of six copies.
  Two main and three backup producers are the least the asserts accept with all
  copies different; the seventh producer makes the backup queue grow to four while
  a row follows it; votes 0, 1 and 2 give ties at every boundary, below and above
  the minimum. `queue_votes` has lists of two producers, whose `Process` share one
  set of changes; longer lists only repeat that step. The other runs take lists of
  one. `queue_registration` begins with one key, keeps the votes of the seventh
  producer, so that a row always follows the queues, and has votes of one producer
  only while the queues are not kept. `queue_lost_position` confines coming and going
  to one producer (`OnlyThirdLeaves`); `queue_unseen_row` needs an eighth row, behind
  all others, for the backup queue to grow at all.
* *Log.* Three rows are one more than a batch, so that a batch is cut and a row is
  left; two restarts give a log with rows of an older sequence before, among and
  after those of the present one, if that were possible.
* *Rewards and stakes.* Two payments, a precision that leaves remainders in both
  divisions, and two voters with different stakes are enough for the roundings to
  compete for the same unit. With two tokens a voter can vote, subtract and vote
  again while its refund is pending. In `staking_books` only the producer that pays
  also unregisters (`OnlyPayerLeaves`); interval zero and delay one. In
  `staking_legacy` interval and delay are one and two days instead of one and
  three, so that a second subtraction meets a pending refund, and `totalElected` is
  bounded, since before the elections it has no bound (below).
* *Blocks.* Six slots hold the initial period and the halving after it, with a
  missed period between. The auctions and the rewards share only the clock of
  `onblock`, so they are explored apart (`MCApart`). The administrator acts, and
  producers come and go, in the first two slots (`MCSettle`); all other actions do
  in all slots. Producers are interchangeable.
* *Resources.* A sale or purchase of 5 bytes for 4 tokens divides with a remainder
  in both directions; the RAM grows once by `setram` or by its rate. Staking,
  trading and managing share the totals of an account; `MCBound` lets each of them
  go deep while the others are shallow.
* *Mining.* Each contract meets all actions of the ledger on its accounts, but two
  contracts, which share nothing but the ledger, are not busy at once (`Apart`).
* *Msig.* One name used again suffices, since names are independent; one approval
  on its way at a time (`FewSent`) is enough for it to be late. Levels are
  interchangeable.
* *XToken.* With three accounts each of sender, receiver and fee receiver can be
  another, or the same, account, and the issuer; fees of zero, of the smallest fee
  and larger, and more than a balance holds, occur.

Deadlock is checked except in `block_rewards` and `resources`, whose time is
bounded, resp. whose constraint cuts behaviours off.

Fairness is used in two places. `FairStakingSpec`: time passes (`WF` of `Tick`), and
a refund that can be paid is paid (`WF` of `RefundVote` for each voter): the chain
executes the deferred transaction, and if that fails anyone may submit
`refundvote`. `FairSpec` of `ChangeLog`: `onblock` flushes a batch whenever it can (`WF`
of `FlushMerged`: a block is made every half second and runs it every minute), and
the chain puts a proposal in force (`WF` of `NativeReady`). `FlushEmpty` has none:
whether it erases is undefined, and so `RowsLeaveLog` excepts batches that come to
nothing. No other action is assumed to happen.

## Disagreements found

`queue_lost_position` expects a violation of what an assertion says: `get_pos_itr`
(`voting.cpp:165`) claims to find the tails in the index. `unregprod` and `rmvproducer`
deactivate a row, which moves it to the end of the index, and do not tell the
queues. Votes that need the neighbours of such a tail abort until the producer
registers again or the queues are rebuilt.

`queue_unseen_row` expects a violation of what the merge of
`amax.producer_change_tests.cpp:276-333` demands of the changes: none removes a
producer who is not there (`:299`), and the members are as many as the changes say
(`:308`). `register_producer` puts a new row, without votes, into the index and does
not tell the queues (`voting.cpp:398`). That does no harm while the row comes behind
those the queues know. But the backup queue can hold rows without votes, since it
grows at `voting.cpp:1138` whatever the votes of the next row are, and among those the
names decide: the new row may come above the tail. Its first votes are then
processed as those of a backup producer. With main producers 1 and 5 and the backup
producers 4, 6, 7 and 3, the last without votes, 2 registers and gets two votes: it
becomes a main producer and a deletion of 2 from the backup producers is emitted,
where it never was; the schedule has five of them, the queue counts four.
`ScheduleConsistent` is checked and proved for registrations that come behind the
queues (`Behind`).

Observed as well, while modelling; the models follow the code:

* A backup producer that only changes its key while it is the last but one of the
  queue stays in `tail_prev` with the old key (`operator==` ignores the key,
  `voting.cpp:1156`), and when it later falls out and returns it is scheduled with
  the old one. Therefore `ScheduleMembersAreTop` does not speak of backup keys.
* Before the elections are initialized, `voteproducer` overwrites the list that
  `addvote`, `subvote` and `vote` count by (`voting.cpp:701`). A voter with votes who
  uses it can no longer subtract them or change its list, or subtracts them from
  other voters' producers. `VotesCanBeTakenBack` is checked with elections on.
* `vote` accepts producers that are not active, which the pre-condition of
  `voteproducer` excludes (`hpp:1398`); `addvote` is not restricted to once a day,
  contrary to `hpp:1420`; the other two are.
* The backup queue may schedule producers without enough votes beyond its minimum
  size, since entering the main queue pulls the next row up unchecked
  (`voting.cpp:1120-1138`). Interrupted changes may therefore stay interrupted while
  the queues could be read anew: with 2 main and up to 5 backup producers and votes
  1, 1, 1, 1, 1, 1, 0, 0, 0 a backup queue of 5 has a last producer without votes.
  `InterruptedOnlyWhenShort` allows exactly this. `upgradevote` may be called again and turns the backup
  elections off until the next `initbbpelect`.
* `onblock` closes up to three auctions at a time, as the iterator it advances
  happens to allow, at most once per day's blocks; the comment says three times
  every day (`producer_pay.cpp:115`). In any case it closes the highest first.
* `buyrambytes` does not buy an exact number of bytes (`delegate_bandwidth.cpp:23`):
  the fee and the roundings make it a little more or less.
* Before the elections, staking for another account cancels the deferred
  refund of one's own (`delegate_bandwidth.cpp:346`) while the refund stays in the
  table; `refund` then has to be called by hand. `hpp:1212` describes the refund as
  deferred.
* An invalidated approval keeps a proposal's delay running; another approval that
  makes the valid ones suffice again does not start it afresh. `DelayServed` counts
  approvals in the table, as the code does.
* `amax.one` never looks at `expired_at` of an order, and an order is accepted
  against what remains without reserving it: the confirmation may find too little
  and fail.
* An exempt account of `amax.xtoken` loses the flag by closing its row.
* What a producer pays in while nobody votes for it stays allocating for ever, and
  `undoreward` leaves what it gives up counted as produced.

## The proofs

TLAPS proves these for all values of the constants that satisfy the assumptions
named in the modules (`QueueAssumption`, `RewardAssumption`, ...): any sets of
accounts, any amounts, delays, periods and precisions. The bounds of the runs are
constants of which nothing but their type is assumed. Where a proof counts or adds
up, the assumption says that producers, voters or accounts are finitely many, as
the rows of a table are. `LogAssumption` also says that an elected schedule has
main and backup producers, which the queue's sizes see to, and
`AuctionAssumption` that a name has one bid row, its primary key.

| Theorem | States |
|---|---|
| `ElectedQueueProofs!QueuesHoldTheBoundaries`, `ScheduleHasTheTop` | `ElectionSpec => []QueuePositions`, `[]ScheduleIsTop` |
| `ElectedQueueProofs!InterruptionsAreDue`, `QueuesKeepTheirCounts` | `ElectionSpec => InterruptedOnlyWhenShort`, `Spec => []QueueCounts` |
| `ElectedQueueProofs!QueuesKeepTheirRows`, `ScheduleHasTheMembers` | `RegistrationSpec => []QueueRows`, `[]ScheduleMembersAreTop` |
| `ElectedQueueProofs!ScheduleStaysConsistent`, `QueueNeverRefusesVotes` | `RegistrationSpec => []ScheduleConsistent`, `[]VotesNeverRefused` |
| `ChangeLogProofs!LogTyped`, `LogKeepsOrder` | `Spec => []TypeOK`, `[]LogOrdered` |
| `ChangeLogProofs!LogAlwaysAddsUp`, `FlushesNeverAbort` | `Spec => []LogAddsUp`, `[]FlushNeverAborts` |
| `ChangeLogProofs!LogFeedsSchedules` | `Spec => IsScheduleFeed`: the log implements `ScheduleFeed` |
| `VoteStakingProofs!RewardRowsTyped`, `RewardBooksBalance` | `RewardSpec => []RowsTypeOK`, `[]BooksBalance` |
| `VoteStakingProofs!RewardAlwaysCovers`, `RewardAlwaysSolvent` | `RewardSpec => []RewardsCovered`, `[]Solvent` |
| `VoteStakingProofs!StakingTyped`, `StakingRewardTyped` | `StakingSpec => []StakingTypeOK`, `[]RewardTypeOK` |
| `VoteStakingProofs!StakingRewardsCovered`, `StakingSolvent`, `StakingClaimNeverRefused` | `StakingSpec => []RewardsCovered`, `[]Solvent`, `[]ClaimNeverRefused` |
| `VoteStakingProofs!StakingEarnedByPaymentsOnly`, `StakesAlwaysBacked` | `StakingSpec => EarnedByPaymentsOnly`, `[]StakesBacked` |
| `VoteStakingProofs!ContractsAlwaysAgree`, `ElectedVotesAlwaysAddUp`, `VotesCanAlwaysBeTakenBack` | `~LegacyVoting /\ StakingSpec => []ContractsAgree`, `[]ElectedVotesAddUp`, `[]VotesCanBeTakenBack` |
| `BlockRewardProofs!SharesArePart` | what a claim shares is at most the claim |
| `BlockRewardProofs!RewardsTyped`, `RewardsWithinTotals`, `MainRewardsLast` | `Spec => []RewardsTypeOK`, `[]WithinTotals`, `[]HalvedRewardsLast` |
| `BlockRewardProofs!RewardsAreConserved`, `AuctionsCloseFromTop` | `Spec => []RewardsConserved`, `Spec => HighestClosedFirst` |
| `ResourcesProofs!LimitsAlwaysFollow`, `MarketAlwaysMatches`, `RamAlwaysSellable` | `Spec => []LimitsFollowTotals`, `[]MarketMatches`, `[]RamStakeSuffices` |
| `ResourcesProofs!StakesAlwaysAddUp`, `StakesAlwaysCovered`, `RamAlwaysConserved` | `Spec => []StakesAddUp`, `[]StakesCovered`, `[]RamConserved` |
| `MiningProofs!MiningTyped`, `PaymentsBooked`, `TokenSupplyHeld` | `Spec => [](TokenTypeOK /\ MiningTypeOK)`, `Spec => PaidAgainstRemained`, `Spec => []SupplyHeld` |
| `StandaloneProofs!XTokenTyped`, `StoppedAccountsAreKept`, `XTokenFeesConserve` | `XTokenSpec => []XTokenTypeOK`, `StoppedAccountsKeep`, `[]FeesConserve` |
| `StandaloneProofs!MsigTyped`, `ApprovalsCountAsMeant`, `DelaysAreServed` | `Spec => []TypeOK`, `[]ApprovedAsMeant`, `[]DelayServed` |

*Sums and recursion.* `Sums` proves of `SumFunction`, a fold over a set, that it is
linear and monotone and what changing one or some values does to it. The
induction theorems of the library cannot be used, as they take an operator. What
replaces them is well-foundedness, which is stated of sets: the subsets (or
numbers) for which a claim fails, unless there are none, have a least one
(`SmallestSubset`), and that one is led to a contradiction. In the same way the
recursive functions of the models (the fold, `After` and `Merged` of a batch,
`UpdateVotes` over a list) are shown to exist and to be unique, from which their
defining equations follow.

*Queue.* `ElectionSpec` are the behaviours in which producers are voted in and out
and settings change, from any table of registered producers and with elections
initialized at any time; producers do not register, change keys or leave.
`RegistrationSpec` adds that they change keys and that they register, with a row
that comes behind those the queues know while the queues are kept (`Behind`). The
restriction is not one of the code: without it the claims are false
(`queue_unseen_row`), as they are when producers leave (`queue_lost_position`). Of the
keys, `ElectionSpec` has `QueuePositions` and `ScheduleIsTop`; when they change,
`QueueRows` and `ScheduleMembersAreTop` are what is left.

The inductive invariant `ElectionInv` of `ElectionSpec` is
that the copies of each queue are three rows next to each other (`NextTo`), that as
many rows are at or above the tails as the sizes say (`QueuesFit`), and that the
schedule has the keys of exactly those producers (`Follows`) unless the changes
are interrupted. It needs no ranks; `RankIsSize` and `InfoAtRank` turn it into the
`InfoAt` of the properties. One producer of a list moves one row (`Moves`), and all
there is to know of that is what becomes of two rows next to each other and of the
set at or above one (`Unmoved`, `Joined`, `TopUnmoved`, ...). From these follow the
shapes in which the three copies of a queue can be left (`TailStays`, `TailLeft`,
`NextReplaces`, ...), some of them marked to be read again. Each branch of
`process_elected_producer` is then shown to leave both queues in one of the shapes
and the changes to turn the members at the beginning of the transaction into those
of the moment (`Turns`): hence every ASSERT holds and reading again puts all in
its place. `UnderWay` says so of a transaction in the midst of a list,
`ListKeepsUnderWay` carries it through the list, and `SaveKeeps` through the
three outcomes of `save_producer_changes`.

`RegistrationInv`, the invariant of `RegistrationSpec`, asks the same of a twin of the
backup queue: there is a queue with the rows and votes of `beq` (`SameQueue`), perhaps
under other keys, that fits the table, and the schedule has its members (`Heads`).
The main queue needs no twin, since its copies are replaced whenever a key of
theirs changes (`MainRekeyed`, `BackupRekeyed`). A branch decides by ranks, names and
counts, never by the key of a copy, so it takes a work and its twin to twins
(`ProcessTwins`, proved branch by branch from what each writes: `FallIs`, `IntoIs`,
`BackupIs`, `OutsideIs`), and all that was shown of the twin, whose copies are up to
date, holds up to keys of what is stored; the changes name the same producers for
the same operations (`SameOps`), and so does the schedule they lead to
(`TurnedFit`). A registration adds a row below `beq.next` and moves nothing
(`JoinedFit`). A new key moves no row: of the main queue it replaces every copy and the
scheduled key; of the backup queue it emits a change or none; below both it is as
if the producer had always had it (`OutsideRekeyed`).

The sizes of the queues hold under `Spec`, with producers who register, change keys,
leave and return, so the copies can be of rows that are gone. `SizesInv` therefore
says nothing of the table: the copies are any infos, the changes any changes of
those (`Shaped`). Each branch resizes the queues by what its guards allow
(`Resized`): the main queue not at all, the backup queue by one and within its
bounds, and a refusal or a second reading of the index not at all.

*Log.* `LogInv == TypeOK /\ LogOrdered`. A handler appends a row with the next
identifier and the present sequence; a flush erases rows at the beginning of the log.
For the sums `ChainInv` adds that every row of the present sequence leads from the
schedule before it to an elected schedule (`ChainOf`). The heart is
`MergingKeepsMeaning`: two proposals merged do what the one after the other does,
from any schedule the first fits. `BatchLeads` extends it to a batch, so that a flush
is one step of `ScheduleFeed` along the rows it takes, and no merge is senseless.

*Rewards.* `RowsInv == RowsTypeOK /\ BooksBalance`. Neither half is inductive alone:
the types need that no accumulator is behind a mark (else rewards could be
negative), and the marks need the types of the accumulators. `OwedInv` adds
`VotesAddUp` and `RewardsCovered`: a payment raises an accumulator by the payment
over the votes, rounded down, so what its voters gain is at most what is allocated,
and settling a voter rounds down once more. `RewardInv` adds the types of what is
unclaimed and that the contract has the tokens. An action settles one voter or
takes one payment (`SettlementKeepsInv`, `Settles`), so each is treated once.
`Solvent` and `StakesBacked` are relative to `Funds`, what the accounts own at first.

*Votes and stakes.* `AgreeInv` adds the types of the system's rows and that elections
are on, without which a legacy vote would break it. The heart is `RewardListChange`:
taking the votes from an old list and giving them to a new one, and moving them by
removed, kept and added producers, change every producer's votes by the same
amount. `ElectInv` adds that listed producers have rows and that the total is the
sum; the elected votes of a producer are then those the reward contract counts,
and votes that add up can be taken back. `BackedInv` holds with legacy votes too.
`StakingTypeOK` is inductive by itself, as each subtraction is guarded.

*Block rewards.* `RewardInv` adds `HalvingBegun`: the halving begins only after the
end of the initial period is set and past, so that no setting moves the period any
more; without it `cfgreward` could break `HalvedRewardsLast`. The heart is
`HalvedLastsTwoPeriods`: half of the rest, divided by the period and rounded down,
is paid for two periods at most, which is why a period missed does not matter.
For the auctions, `ClosedFromTop` and `AtTop` say that the iterator `onblock`
advances stands at the highest open bid whenever it closes one, which needs that
no two rows have the same place in the index (`OneRowPerName`).

*Resources.* `ResourcesInv` is the types, `LimitsFollowTotals`, and `MarketOK` with
`ProductHolds`: the initial quote times the size of the RAM is at most the product
of the connectors. Every rounding favours the market, so no trade lowers the
product (`TradeKeepsProduct`), and growth adds as many bytes to a connector whose
other side never falls below its initial value (`GrowthKeepsProduct`). From it,
`MarketCanPay` derives that any part of the reserved RAM can be sold back for no
more than was paid in. `BooksInv` has the three sums, over the columns and rows of
the delegations.

*Mining.* `MiningInv` has the types, that orders are finitely many (so that one less
is one taken away), and `Apartness`: no contract is the issuer or on a blacklist,
so that issuing, retiring and slashing leave its balance alone. `StepBooked` shows
the action property of each step from it.

*XToken.* The types are inductive; the action property follows from them and from
`TransferIs`, what a transfer does to each row, however the three accounts coincide.

*Msig.* `IndInv` says of one name (`RowsAgree`) what its rows have to do with each
other; that `enoughSince` is 0 unless the approvals in the table suffice makes the
delay inductive. `HashesNameTheMeant` carries what was signed through the time an
approval is on its way.

Only model-checked: liveness under fairness (`RefundPaid`, `RowsLeaveLog`), which is
out of the prover's reach. Not proved of the queue is what holds after producers
leave or register out of sight of the queues, apart from its sizes: there the
properties are false, as the two violated runs show.

## Not modelled

* REX and PowerUp: every action fails at its first line, `check(false, "not activated
  yet!!!")`, and no other code reaches their tables. `bidname` and `regproxy` fail in the
  same way; the tables `bidname` filled before are in `NameAuction`.
* `amax.wrap` and `amax.bios` pass their arguments on to the host and keep no state that
  interacts with the rest.
* The vote weights of the legacy voting (`total_votes`, computed in floating point) and
  proxies, which nobody can register as any more; the schedule by those weights is
  chosen freely in `ChangeLog`. This is why voting is listed as partly modelled.
* Authorizations, memos, RAM payers, table layout, logs; the widths of `int64` and
  `int128`. `RewardsCovered` bounds the product that matters in `amax.reward`. The code
  computes the Bancor formulas and the fee of `buyrambytes` in `double`; the models
  round the exact value. What the limited precision of `double` adds to a result is
  not modelled, and `RamAlwaysSellable` is a statement about the exact formulas.
* The native system: it takes proposed schedules and deferred transactions, and tells
  `onblock` who made a block. APL, USDT, degov's list and what a transaction approved
  by `amax.msig` does are contracts outside the repository or free choices.

## The plan

Done: all components that have enabled actions, and theorems for every safety
property. What would add most next:

1. What of the queue survives a producer that leaves and returns: how far the copies
   can be from the index, and that the next rebuilding puts all right.
2. That a schedule the queue leads to is one of the `Schedules` of `ChangeLog`, so
   that the two theorems combine: what the chain is told is the top of the index.
3. An ideal reward ledger, every payment shared at once and exactly, that
   `AmaxReward` implements up to a bound on its rounding.
4. `Transfer` of `TokenLedger` as the refinement of the balances that `AmaxReward`,
   `VoteStaking` and `Resources` carry themselves.
