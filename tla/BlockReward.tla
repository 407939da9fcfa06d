---------------------------- MODULE BlockReward ----------------------------
(***************************************************************************)
(* What amax.system does in every block (onblock, producer_pay.cpp): it    *)
(* credits the producer of the block and the backup producer of the block  *)
(* before with the reward per block, halves that reward every period, and  *)
(* once a minute flushes the schedule (ChangeLog) and closes auctions      *)
(* (NameAuction); and the actions that set the rewards and that pay them   *)
(* out.                                                                    *)
(*                                                                         *)
(* Time is counted in slots of blocks.  A slot has its block, at whose     *)
(* begin onblock runs, or it is missed.                                    *)
(***************************************************************************)
EXTENDS NameAuction, Functions

CONSTANTS
  Producers,
  MainTotal,       \* total_main_producer_rewards
  BackupTotal,     \* total_backup_producer_rewards
  Period,          \* reward_halving_period_blocks and _seconds, in slots
  Minute,          \* blocks_per_minute
  ClaimInterval,   \* seconds_per_day - 1800, in slots
  Ratios,          \* values of reward_shared_ratio
  RatioBoost,      \* ratio_boost
  Contributions,   \* contributions of backup producers, values of cfgcontrib
  Times,           \* the times cfgreward is called with
  Amounts,         \* the amounts the actions are called with
  MaxTime          \* bound on the time

ASSUME RewardAssumption ==
  /\ IsFiniteSet(Producers)
  /\ MainTotal \in Nat /\ BackupTotal \in Nat
  /\ Period \in Nat \ {0} /\ Minute \in Nat /\ ClaimInterval \in Nat
  /\ RatioBoost \in Nat \ {0} /\ Ratios \subseteq 0 .. RatioBoost
  /\ Contributions \subseteq Nat
  /\ Times \subseteq Nat \ {0} /\ Amounts \subseteq Nat /\ MaxTime \in Nat

VARIABLES
  now,           \* the time of the current block
  version,       \* elected_version
  lastUpdate,    \* last_producer_schedule_update
  startTime,     \* init_reward_start_time, 0 if not set
  endTime,       \* init_reward_end_time, 0 if not set
  halvingNum,    \* halving_period_num
  main,          \* main_reward_info
  backup,        \* backup_reward_info
  contribution,  \* min_backup_reward_contribution
  prods,         \* _producers
  paid           \* what producers kept, shared with voters, and gave up

rewardState == <<startTime, endTime, halvingNum, main, backup, contribution>>
vars == <<now, version, lastUpdate, rewardState, prods, paid, auctionVars>>

NoInfo == [total |-> 0, perBlock |-> 0, produced |-> 0]
NoProducer ==
  [registered |-> FALSE, active |-> FALSE, unclaimed |-> 0, claimedAt |-> 0, ratio |-> 0]

IsInit == version > 0
BbpEnabled == version = 2

\* calc_halving_rewards_per_block
Halved(total) == (total \div 2) \div Period
HalvedOfTotal(info) == Halved(info.total)  \* mutant: of all, not of the rest
HalvedOf(info) == Halved(info.total - info.produced)

-----------------------------------------------------------------------------
(* onblock                                                                 *)

\* Whether rewards are given at time t
Rewarding(t) == IsInit /\ startTime > 0 /\ t >= startTime

\* The halving: the number of the period and the rewards at time t
PeriodAt(t) == 1 + (t - endTime) \div Period
Halving(t) == t >= endTime /\ PeriodAt(t) > halvingNum
MainAt(t) ==
  IF Halving(t) THEN [main EXCEPT !.perBlock = HalvedOf(main)] ELSE main
BackupAt(t) ==
  IF Halving(t) /\ BbpEnabled THEN [backup EXCEPT !.perBlock = HalvedOf(backup)]
  ELSE backup

\* inc_producer_rewards credits the producer only if the rewards suffice.
CreditsUnchecked(info, tbl, p) ==  \* mutant: beyond the total
  info.perBlock > 0 /\ p \in Producers /\ tbl[p].registered
Credits(info, tbl, p) ==
  /\ info.perBlock > 0
  /\ p \in Producers /\ tbl[p].registered
  /\ info.produced + info.perBlock <= info.total

Credited(info, tbl, p) ==
  IF Credits(info, tbl, p) THEN [tbl EXCEPT ![p].unclaimed = @ + info.perBlock] ELSE tbl
ProducedBy(info, tbl, p) ==
  IF Credits(info, tbl, p) THEN [info EXCEPT !.produced = @ + info.perBlock] ELSE info

\* The backup_block_extension of the header: the backup producer of the block
\* before and its contribution, if it is there and this is no backup block.
NoBackup == [producer |-> "none", contribution |-> 0]
Extensions == {NoBackup} \cup [producer : Producers, contribution : Contributions]
BackupOf(ext) ==
  IF BbpEnabled /\ ext.contribution >= contribution THEN ext.producer ELSE "none"

GiveRewards(t, p, ext) ==
  LET m   == MainAt(t)
      b   == BackupAt(t)
      tbl == Credited(m, prods, p)
  IN  IF Rewarding(t)
      THEN /\ halvingNum' = IF Halving(t) THEN PeriodAt(t) ELSE halvingNum
           /\ main' = ProducedBy(m, prods, p)
           /\ backup' = ProducedBy(b, tbl, BackupOf(ext))
           /\ prods' = Credited(b, tbl, BackupOf(ext))
           /\ UNCHANGED <<startTime, endTime, contribution>>
      ELSE UNCHANGED <<rewardState, prods>>

\* The block of the next slot, of producer p; what it flushes is ChangeLog's.
OnBlock(p, ext) ==
  /\ now < MaxTime /\ now' = now + 1
  /\ IF thresh = 0 /\ ~IsInit
     THEN UNCHANGED <<rewardState, prods, lastUpdate, auctionVars>>
     ELSE /\ GiveRewards(now', p, ext)
          /\ IF now' > lastUpdate + Minute
             THEN lastUpdate' = now' /\ CloseAuctions(now')
             ELSE UNCHANGED <<lastUpdate, auctionVars>>
  /\ UNCHANGED <<version, paid>>

MissSlot ==
  /\ now < MaxTime /\ now' = now + 1
  /\ UNCHANGED <<version, lastUpdate, rewardState, prods, paid, auctionVars>>

-----------------------------------------------------------------------------
(* The actions that set the rewards                                        *)

CfgReward(start, end, m, b) ==
  /\ end >= start
  /\ endTime > 0 => now < endTime
  /\ startTime > 0 /\ now >= startTime => start = startTime
  /\ m <= Halved(MainTotal) /\ b <= Halved(BackupTotal)
  /\ startTime' = start /\ endTime' = end
  /\ main' = [main EXCEPT !.total = MainTotal, !.perBlock = m]
  /\ backup' = [backup EXCEPT !.total = BackupTotal, !.perBlock = b]
  /\ UNCHANGED <<now, version, lastUpdate, halvingNum, contribution, prods, paid,
                 auctionVars>>

CfgBbpReward(b) ==
  /\ b < backup.total - backup.produced
  /\ backup' = [backup EXCEPT !.perBlock = b]
  /\ UNCHANGED <<now, version, lastUpdate, startTime, endTime, halvingNum, main,
                 contribution, prods, paid, auctionVars>>

CfgContrib(c) ==
  /\ contribution' = c
  /\ UNCHANGED <<now, version, lastUpdate, startTime, endTime, halvingNum, main,
                 backup, prods, paid, auctionVars>>

\* upgradevote and initbbpelect, as far as the rewards depend on them; when
\* the backup queue is on already, initbbpelect rebuilds it only to shrink it.
UpgradeVote ==
  /\ version' = 1 /\ lastUpdate' = now
  /\ UNCHANGED <<now, rewardState, prods, paid, auctionVars>>

InitBbpElect(shrinks) ==
  /\ version' = 2
  /\ lastUpdate' = IF ~BbpEnabled \/ shrinks THEN now ELSE lastUpdate
  /\ thresh' = IF thresh = 0 THEN now ELSE thresh
  /\ UNCHANGED <<now, rewardState, prods, paid, bids, refunds, lastClose, created>>

-----------------------------------------------------------------------------
(* The actions of a producer                                               *)

\* register_producer, and setvoteshare of a registered producer
RegProducer(p, ratio) ==
  /\ prods' = [prods EXCEPT
                 ![p].registered = TRUE, ![p].active = TRUE, ![p].ratio = ratio,
                 ![p].claimedAt = IF prods[p].registered THEN @ ELSE now]
  /\ UNCHANGED <<now, version, lastUpdate, rewardState, paid, auctionVars>>

SetVoteShare(p, ratio) ==
  /\ prods[p].registered
  /\ prods' = [prods EXCEPT ![p].ratio = ratio]
  /\ UNCHANGED <<now, version, lastUpdate, rewardState, paid, auctionVars>>

\* unregprod and rmvproducer
UnregProd(p) ==
  /\ prods[p].registered
  /\ prods' = [prods EXCEPT ![p].active = FALSE]
  /\ UNCHANGED <<now, version, lastUpdate, rewardState, paid, auctionVars>>

\* multiply_decimal64, rounding half up
SharedAmount(amount, ratio) == ((10 * amount * ratio) \div RatioBoost + 5) \div 10

KeptUnclaimed(p) == [prods EXCEPT ![p].claimedAt = now]  \* mutant: not reset
ClaimedRow(p) == [prods EXCEPT ![p].unclaimed = 0, ![p].claimedAt = now]

\* claimrewards: the rewards are issued to the producer, which passes its
\* share on to the voters, to amax.reward.
ClaimRewards(p) ==
  /\ prods[p].active /\ IsInit
  /\ prods[p].unclaimed > 0
  /\ now - prods[p].claimedAt >= ClaimInterval
  /\ LET amount == prods[p].unclaimed
         shared == SharedAmount(amount, prods[p].ratio)
     IN  /\ amount >= shared
         /\ paid' = [paid EXCEPT !.kept = @ + amount - shared, !.shared = @ + shared]
  /\ prods' = ClaimedRow(p)
  /\ UNCHANGED <<now, version, lastUpdate, rewardState, auctionVars>>

\* undoreward: what is given up stays counted as produced.
UndoReward(p, amount) ==
  /\ prods[p].active /\ IsInit
  /\ amount > 0 /\ prods[p].unclaimed >= amount
  /\ prods' = [prods EXCEPT ![p].unclaimed = @ - amount, ![p].claimedAt = now]
  /\ paid' = [paid EXCEPT !.undone = @ + amount]
  /\ UNCHANGED <<now, version, lastUpdate, rewardState, auctionVars>>

Init ==
  /\ AuctionInit
  /\ now = 1 /\ version = 0 /\ lastUpdate = 0
  /\ startTime = 0 /\ endTime = 0 /\ halvingNum = 0
  /\ main = NoInfo /\ backup = NoInfo
  /\ contribution \in Contributions
  /\ prods = [p \in Producers |-> NoProducer]
  /\ paid = [kept |-> 0, shared |-> 0, undone |-> 0]

Blocks ==
  \/ \E p \in Producers, ext \in Extensions : OnBlock(p, ext)
  \/ MissSlot

Configuring ==
  \/ \E start, end \in Times, m, b \in Amounts : CfgReward(start, end, m, b)
  \/ \E b \in Amounts : CfgBbpReward(b)
  \/ \E c \in Contributions : CfgContrib(c)
  \/ UpgradeVote
  \/ \E shrinks \in BOOLEAN : InitBbpElect(shrinks)

ProducerAction ==
  \E p \in Producers :
    \/ \E ratio \in Ratios : RegProducer(p, ratio) \/ SetVoteShare(p, ratio)
    \/ UnregProd(p)
    \/ ClaimRewards(p)
    \/ \E amount \in Amounts : UndoReward(p, amount)

Next ==
  \/ Blocks
  \/ Configuring
  \/ ProducerAction
  \/ AuctionAction /\ UNCHANGED <<now, version, lastUpdate, rewardState, prods, paid>>

Spec == Init /\ [][Next]_vars

-----------------------------------------------------------------------------
(* Properties.                                                             *)

InfoType == [total : Nat, perBlock : Nat, produced : Nat]
ProducerType == [registered : BOOLEAN, active : BOOLEAN, unclaimed : Nat,
                 claimedAt : Nat, ratio : 0 .. RatioBoost]

\* Every variable has its type; no claim and no halving makes one negative.
RewardsTypeOK ==
  /\ now \in Nat /\ version \in 0 .. 2 /\ lastUpdate \in Nat
  /\ startTime \in Nat /\ endTime \in Nat /\ halvingNum \in Nat /\ contribution \in Nat
  /\ main \in InfoType /\ backup \in InfoType
  /\ prods \in [Producers -> ProducerType]
  /\ paid \in [kept : Nat, shared : Nat, undone : Nat]

\* Every reward counted as produced is in one place: credited to a producer,
\* kept by it, shared with its voters, or given up; across the halvings, the
\* refused blocks, the claims and their rounding, and producers that
\* unregister and register again.
RewardsConserved ==
  main.produced + backup.produced =
    SumFunction([p \in Producers |-> prods[p].unclaimed]) + paid.kept + paid.shared + paid.undone

\* Neither queue of producers is ever given more than its total.
WithinTotals ==
  /\ main.produced <= main.total /\ main.total <= MainTotal
  /\ backup.produced <= backup.total /\ backup.total <= BackupTotal

\* Once the halving has begun no main producer ever goes without its reward
\* for lack of rewards: what is left suffices for the rest of the period and
\* for another one (producer_pay.cpp:34-42, 72-82, 223-225), even when slots,
\* or whole periods, were missed.
PeriodEnd == endTime + halvingNum * Period
HalvedRewardsLast ==
  halvingNum > 0 /\ now < PeriodEnd =>
    main.produced + main.perBlock * (PeriodEnd - 1 - now + Period) <= main.total
=============================================================================
