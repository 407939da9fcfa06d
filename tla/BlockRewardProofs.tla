------------------------- MODULE BlockRewardProofs --------------------------
(***************************************************************************)
(* Theorems about BlockReward, for all totals, periods, producers and      *)
(* settings, however many slots are missed: rewards stay within their      *)
(* totals, what is left after a halving lasts, and what is produced is     *)
(* what the producers hold and have claimed or given up.  And about the    *)
(* auctions onblock closes, for any bids: the highest comes first.         *)
(***************************************************************************)
EXTENDS BlockReward, Sums, TLAPS

\* The halving begins after the end of the initial period, which the settings
\* cannot move any more then; the invariant HalvedRewardsLast rests on this.
HalvingBegun ==
  /\ startTime > 0 => endTime > 0
  /\ halvingNum > 0 => endTime > 0 /\ now >= endTime

RewardInv == RewardsTypeOK /\ WithinTotals /\ HalvingBegun /\ HalvedRewardsLast

-----------------------------------------------------------------------------
(* Arithmetic.                                                             *)

\* Dividing an amount by a positive amount gives an amount, and multiplying
\* again gives no more than there was.
LEMMA Quotient ==
  ASSUME NEW a \in Nat, NEW b \in Nat, b > 0
  PROVE  a \div b \in Nat /\ (a \div b) * b <= a
OBVIOUS

LEMMA Product ==
  ASSUME NEW a \in Nat, NEW b \in Nat
  PROVE  a * b \in Nat
OBVIOUS

LEMMA ProductMonotone ==
  ASSUME NEW a \in Nat, NEW b \in Nat, NEW c \in Nat, b <= c
  PROVE  a * b <= a * c
OBVIOUS

LEMMA QuotientMonotone ==
  ASSUME NEW a \in Nat, NEW b \in Nat, NEW c \in Nat, c > 0, a <= b * c
  PROVE  a \div c <= b
OBVIOUS

\* Half of an amount, spread over a period, is given for two periods.
LEMMA HalvedLastsTwoPeriods ==
  ASSUME NEW a \in Nat
  PROVE  Halved(a) \in Nat /\ Halved(a) * (2 * Period) <= a
<1>1. Period \in Nat /\ Period > 0
  BY RewardAssumption DEF RewardAssumption
<1>2. a \div 2 \in Nat /\ (a \div 2) * 2 <= a
  BY Quotient
<1>3. Halved(a) \in Nat /\ Halved(a) * Period <= a \div 2
  BY <1>1, <1>2, Quotient DEF Halved
<1>4. Halved(a) * Period \in Nat
  BY <1>1, <1>3, Product
<1>5. Halved(a) * (2 * Period) = (Halved(a) * Period) * 2
  BY <1>1, <1>3
<1> QED  BY <1>2, <1>3, <1>4, <1>5

\* What a producer shares, rounded half up, is at most what it claims, so that
\* the assertion of claimrewards (producer_pay.cpp:252) never fails.
THEOREM SharesArePart ==
  ASSUME NEW amount \in Nat, NEW ratio \in 0 .. RatioBoost
  PROVE  SharedAmount(amount, ratio) \in 0 .. amount
<1>1. RatioBoost \in Nat /\ RatioBoost > 0 /\ ratio \in Nat /\ ratio <= RatioBoost
  BY RewardAssumption DEF RewardAssumption
<1>2. 10 * amount \in Nat /\ (10 * amount) * ratio \in Nat
  BY <1>1, Product
<1>3. (10 * amount) * ratio <= (10 * amount) * RatioBoost
  BY <1>1, <1>2, ProductMonotone
<1> DEFINE tenths == ((10 * amount) * ratio) \div RatioBoost
<1>4. tenths \in Nat
  BY <1>1, <1>2, Quotient
<1>5. tenths <= 10 * amount
  BY <1>1, <1>2, <1>3, QuotientMonotone
<1>6. SharedAmount(amount, ratio) = (tenths + 5) \div 10
  BY DEF SharedAmount
<1> HIDE DEF tenths
<1> QED  BY <1>4, <1>5, <1>6

-----------------------------------------------------------------------------
(* The parts of onblock.                                                   *)

\* inc_producer_rewards credits the producer what it adds to the produced
\* rewards, and never beyond the total.
LEMMA CreditIs ==
  ASSUME NEW info \in InfoType, NEW tbl \in [Producers -> ProducerType], NEW p
  PROVE  /\ ProducedBy(info, tbl, p) \in InfoType
         /\ ProducedBy(info, tbl, p).total = info.total
         /\ ProducedBy(info, tbl, p).perBlock = info.perBlock
         /\ ProducedBy(info, tbl, p).produced \in {info.produced, info.produced + info.perBlock}
         /\ info.produced <= info.total =>
              ProducedBy(info, tbl, p).produced <= ProducedBy(info, tbl, p).total
         /\ Credited(info, tbl, p) \in [Producers -> ProducerType]
<1>1. CASE Credits(info, tbl, p)
  <2>1. p \in Producers /\ tbl[p] \in ProducerType /\ info.produced + info.perBlock <= info.total
    BY <1>1 DEF Credits
  <2>2. [tbl[p] EXCEPT !.unclaimed = @ + info.perBlock] \in ProducerType
    BY <2>1 DEF ProducerType, InfoType
  <2>3. Credited(info, tbl, p) = [tbl EXCEPT ![p].unclaimed = @ + info.perBlock]
    BY <1>1 DEF Credited
  <2>4. ProducedBy(info, tbl, p) = [info EXCEPT !.produced = @ + info.perBlock]
    BY <1>1 DEF ProducedBy
  <2>5. Credited(info, tbl, p) \in [Producers -> ProducerType]
    BY <2>1, <2>2, <2>3
  <2> QED  BY <2>1, <2>4, <2>5 DEF InfoType
<1>2. CASE ~Credits(info, tbl, p)
  BY <1>2 DEF Credited, ProducedBy
<1> QED  BY <1>1, <1>2

\* The rewards per block of a new period.
LEMMA HalvedInfo ==
  ASSUME NEW info \in InfoType, info.produced <= info.total
  PROVE  /\ HalvedOf(info) \in Nat
         /\ info.produced + HalvedOf(info) * (2 * Period) <= info.total
<1> DEFINE left == info.total - info.produced
<1>1. left \in Nat /\ info.produced \in Nat /\ info.total \in Nat
  BY DEF InfoType
<1>2. HalvedOf(info) = Halved(left)
  BY DEF HalvedOf
<1> HIDE DEF left
<1>3. HalvedOf(info) \in Nat /\ HalvedOf(info) * (2 * Period) <= left
  BY <1>1, <1>2, HalvedLastsTwoPeriods
<1>4. HalvedOf(info) * (2 * Period) \in Nat
  BY <1>3, RewardAssumption, Product DEF RewardAssumption
<1> USE DEF left
<1> QED  BY <1>1, <1>3, <1>4

\* The infos a block works with are within their totals.
LEMMA InfosAt ==
  ASSUME RewardsTypeOK, WithinTotals, NEW t \in Nat
  PROVE  /\ MainAt(t) \in InfoType /\ BackupAt(t) \in InfoType
         /\ MainAt(t).total = main.total /\ MainAt(t).produced = main.produced
         /\ BackupAt(t).total = backup.total /\ BackupAt(t).produced = backup.produced
         /\ ~Halving(t) => MainAt(t) = main
         /\ Halving(t) => MainAt(t).perBlock = HalvedOf(main)
<1>1. main \in InfoType /\ backup \in InfoType
  BY DEF RewardsTypeOK
<1>2. HalvedOf(main) \in Nat /\ HalvedOf(backup) \in Nat
  BY <1>1, HalvedInfo DEF WithinTotals
<1> QED  BY <1>1, <1>2 DEF MainAt, BackupAt, InfoType

LEMMA QuotientBounds ==
  ASSUME NEW a \in Nat, NEW b \in Nat, b > 0
  PROVE  a \div b \in Nat /\ (a \div b) * b <= a /\ a < (a \div b + 1) * b
OBVIOUS

\* A time after the initial period lies in the period of its number.
LEMMA PeriodIs ==
  ASSUME RewardsTypeOK, NEW t \in Nat, t >= endTime
  PROVE  /\ PeriodAt(t) \in Nat /\ PeriodAt(t) > 0
         /\ PeriodAt(t) * Period \in Nat
         /\ t < endTime + PeriodAt(t) * Period
         /\ endTime + PeriodAt(t) * Period <= t + Period
<1>1. Period \in Nat /\ Period > 0 /\ endTime \in Nat /\ t - endTime \in Nat
  BY RewardAssumption DEF RewardAssumption, RewardsTypeOK
<1> DEFINE q == (t - endTime) \div Period
<1>2. q \in Nat /\ q * Period <= t - endTime /\ t - endTime < (q + 1) * Period
  BY <1>1, QuotientBounds
<1>3. PeriodAt(t) = q + 1
  BY <1>1, <1>2 DEF PeriodAt
<1> HIDE DEF q
<1>4. (q + 1) * Period = q * Period + Period /\ q * Period \in Nat
  BY <1>1, <1>2, Product
<1> QED  BY <1>1, <1>2, <1>3, <1>4

-----------------------------------------------------------------------------
(* Each block.                                                             *)

\* The rewards left last in the block that halves them.
LEMMA LastsWhenHalved ==
  ASSUME RewardInv, NEW t \in Nat, Halving(t), NEW p,
         now' = t, endTime' = endTime, halvingNum' = PeriodAt(t),
         main' = ProducedBy(MainAt(t), prods, p)
  PROVE  HalvedRewardsLast'
<1> DEFINE h == HalvedOf(main)
           n == endTime + PeriodAt(t) * Period - 1 - t + Period
<1>1. /\ main \in InfoType /\ main.produced <= main.total /\ endTime \in Nat
      /\ main.produced \in Nat /\ main.total \in Nat
  BY DEF RewardInv, RewardsTypeOK, WithinTotals, InfoType
<1>2. h \in Nat /\ main.produced + h * (2 * Period) <= main.total
  BY <1>1, HalvedInfo
<1>3. /\ main'.perBlock = h /\ main'.total = main.total
      /\ main'.produced \in {main.produced, main.produced + h}
  BY InfosAt, CreditIs DEF RewardInv, RewardsTypeOK
<1>4. Period \in Nat /\ n \in Nat /\ n + 1 \in Nat /\ n + 1 <= 2 * Period /\ 2 * Period \in Nat
  BY <1>1, PeriodIs, RewardAssumption DEF RewardInv, Halving, RewardAssumption
<1>5. PeriodEnd' - 1 - now' + Period = n
  BY <1>1, <1>4, PeriodIs DEF PeriodEnd, RewardInv, Halving
<1> HIDE DEF h, n
<1>6. h * (n + 1) <= h * (2 * Period) /\ h * (n + 1) = h * n + h /\ h * n \in Nat /\ h * (2 * Period) \in Nat
  BY <1>2, <1>4, ProductMonotone, Product
<1>7. main'.produced + h * n <= main'.total
  BY <1>1, <1>2, <1>3, <1>6
<1> QED  BY <1>3, <1>5, <1>7 DEF HalvedRewardsLast

\* And as slots pass, with or without a reward.
LEMMA LastsAsTimePasses ==
  ASSUME RewardInv, now' = now + 1, UNCHANGED <<endTime, halvingNum>>,
         main'.perBlock = main.perBlock, main'.total = main.total,
         main'.produced \in {main.produced, main.produced + main.perBlock}
  PROVE  HalvedRewardsLast'
<1> DEFINE n == PeriodEnd - 1 - now + Period
           b == main.perBlock
<1>1. /\ b \in Nat /\ main.produced \in Nat /\ main.total \in Nat
      /\ now \in Nat /\ endTime \in Nat /\ halvingNum \in Nat /\ Period \in Nat /\ Period > 0
  BY RewardAssumption DEF RewardInv, RewardsTypeOK, InfoType, RewardAssumption
<1>2. halvingNum * Period \in Nat
  BY <1>1, Product
<1>3. PeriodEnd \in Nat /\ PeriodEnd' = PeriodEnd
  BY <1>1, <1>2 DEF PeriodEnd
<1> SUFFICES ASSUME halvingNum > 0, now + 1 < PeriodEnd
             PROVE  main'.produced + b * (PeriodEnd - 1 - (now + 1) + Period) <= main.total
  BY <1>3 DEF HalvedRewardsLast
<1>4. n \in Nat /\ n - 1 \in Nat /\ PeriodEnd - 1 - (now + 1) + Period = n - 1
  BY <1>1, <1>3
<1>5. main.produced + b * n <= main.total
  BY <1>1, <1>3 DEF RewardInv, HalvedRewardsLast
<1> HIDE DEF n, b
<1>6. b * n = b * (n - 1) + b /\ b * (n - 1) \in Nat
  BY <1>1, <1>4, Product
<1> QED  BY <1>1, <1>4, <1>5, <1>6 DEF b

\* A step that leaves the clock, the main rewards and the period alone.
LEMMA LastsOtherwise ==
  ASSUME HalvedRewardsLast, UNCHANGED <<now, endTime, halvingNum, main>>
  PROVE  HalvedRewardsLast'
BY DEF HalvedRewardsLast, PeriodEnd

LEMMA BlockKeepsInv ==
  ASSUME RewardInv, NEW p \in Producers, NEW ext \in Extensions, OnBlock(p, ext)
  PROVE  RewardInv'
<1>1. now' \in Nat /\ now' = now + 1 /\ UNCHANGED <<version, paid>>
      /\ lastUpdate' \in {lastUpdate, now'}
  BY DEF OnBlock, RewardInv, RewardsTypeOK
<1>2. CASE UNCHANGED <<rewardState, prods>>
  <2>1. RewardsTypeOK' /\ WithinTotals' /\ HalvingBegun'
    BY <1>1, <1>2 DEF RewardInv, RewardsTypeOK, WithinTotals, HalvingBegun, rewardState
  <2>2. HalvedRewardsLast'
    BY <1>1, <1>2, LastsAsTimePasses DEF rewardState
  <2> QED  BY <2>1, <2>2 DEF RewardInv
<1>3. CASE Rewarding(now') /\ GiveRewards(now', p, ext)
  <2> DEFINE m == MainAt(now')
             b == BackupAt(now')
             tbl == Credited(m, prods, p)
             c == BackupOf(ext)
  <2>1. /\ m \in InfoType /\ b \in InfoType
        /\ m.total = main.total /\ m.produced = main.produced
        /\ b.total = backup.total /\ b.produced = backup.produced
        /\ ~Halving(now') => m = main
    BY <1>1, InfosAt DEF RewardInv
  <2>2. /\ halvingNum' = IF Halving(now') THEN PeriodAt(now') ELSE halvingNum
        /\ main' = ProducedBy(m, prods, p)
        /\ backup' = ProducedBy(b, tbl, c)
        /\ prods' = Credited(b, tbl, c)
        /\ UNCHANGED <<startTime, endTime, contribution>>
    BY <1>3 DEF GiveRewards
  <2>3. prods \in [Producers -> ProducerType]
    BY DEF RewardInv, RewardsTypeOK
  <2>4. /\ main' \in InfoType /\ main'.total = main.total /\ main'.produced <= main'.total
        /\ main'.perBlock = m.perBlock
        /\ main'.produced \in {m.produced, m.produced + m.perBlock}
        /\ tbl \in [Producers -> ProducerType]
    <3> HIDE DEF m, b
    <3> QED  BY <2>1, <2>2, <2>3, CreditIs DEF RewardInv, WithinTotals
  <2>5. /\ backup' \in InfoType /\ backup'.total = backup.total /\ backup'.produced <= backup'.total
        /\ prods' \in [Producers -> ProducerType]
    <3> HIDE DEF m, b, tbl, c
    <3> QED  BY <2>1, <2>2, <2>4, CreditIs DEF RewardInv, WithinTotals
  <2>6. halvingNum' \in Nat
    BY <1>1, <2>2, PeriodIs DEF Halving, RewardInv, RewardsTypeOK
  <2>7. RewardsTypeOK'
    BY <1>1, <2>2, <2>4, <2>5, <2>6 DEF RewardInv, RewardsTypeOK
  <2>8. WithinTotals'
    BY <2>4, <2>5 DEF RewardInv, WithinTotals
  <2>9. HalvingBegun'
    <3>1. Halving(now') => endTime > 0 /\ now' >= endTime
      BY <1>3 DEF Rewarding, Halving, RewardInv, HalvingBegun
    <3> QED  BY <1>1, <2>2, <3>1 DEF RewardInv, HalvingBegun, RewardsTypeOK
  <2>10. CASE Halving(now')
    <3>1. HalvedRewardsLast'
      BY <1>1, <2>2, <2>10, LastsWhenHalved
    <3> QED  BY <2>7, <2>8, <2>9, <3>1 DEF RewardInv
  <2>11. CASE ~Halving(now')
    <3>1. HalvedRewardsLast'
      BY <1>1, <2>1, <2>2, <2>4, <2>11, LastsAsTimePasses
    <3> QED  BY <2>7, <2>8, <2>9, <3>1 DEF RewardInv
  <2> QED  BY <2>10, <2>11
<1>4. (UNCHANGED <<rewardState, prods>>) \/ (Rewarding(now') /\ GiveRewards(now', p, ext))
  BY DEF OnBlock, GiveRewards, rewardState
<1> QED  BY <1>2, <1>3, <1>4

LEMMA MissedSlotKeepsInv ==
  ASSUME RewardInv, MissSlot
  PROVE  RewardInv'
<1>1. now' = now + 1 /\ now \in Nat /\ UNCHANGED <<version, lastUpdate, rewardState, prods, paid>>
  BY DEF MissSlot, RewardInv, RewardsTypeOK
<1>2. RewardsTypeOK' /\ WithinTotals' /\ HalvingBegun'
  BY <1>1 DEF RewardInv, RewardsTypeOK, WithinTotals, HalvingBegun, rewardState
<1>3. HalvedRewardsLast'
  BY <1>1, LastsAsTimePasses DEF rewardState
<1> QED  BY <1>2, <1>3 DEF RewardInv

-----------------------------------------------------------------------------
(* The settings and the actions of producers.                              *)

\* cfgreward comes before the end of the initial period, so that no halving
\* has begun.
LEMMA CfgRewardKeepsInv ==
  ASSUME RewardInv, NEW start \in Times, NEW end \in Times, NEW m \in Amounts, NEW b \in Amounts,
         CfgReward(start, end, m, b)
  PROVE  RewardInv'
<1>1. /\ start \in Nat /\ end \in Nat /\ end > 0 /\ m \in Nat /\ b \in Nat
      /\ MainTotal \in Nat /\ BackupTotal \in Nat
  BY RewardAssumption DEF RewardAssumption
<1>2. /\ main' = [main EXCEPT !.total = MainTotal, !.perBlock = m]
      /\ backup' = [backup EXCEPT !.total = BackupTotal, !.perBlock = b]
      /\ startTime' = start /\ endTime' = end
      /\ UNCHANGED <<now, version, lastUpdate, halvingNum, contribution, prods, paid>>
  BY DEF CfgReward
<1>3. main \in InfoType /\ backup \in InfoType
  BY DEF RewardInv, RewardsTypeOK
<1>4. /\ main' \in InfoType /\ main'.total = MainTotal /\ main'.produced = main.produced
      /\ backup' \in InfoType /\ backup'.total = BackupTotal /\ backup'.produced = backup.produced
  BY <1>1, <1>2, <1>3 DEF InfoType
<1>5. RewardsTypeOK'
  BY <1>1, <1>2, <1>4 DEF RewardInv, RewardsTypeOK
<1>6. WithinTotals'
  <2>1. main.produced <= MainTotal /\ backup.produced <= BackupTotal
    BY <1>1, <1>3 DEF RewardInv, WithinTotals, InfoType
  <2> QED  BY <1>1, <1>4, <2>1 DEF WithinTotals
<1>7. ~(halvingNum > 0)
  BY DEF CfgReward, RewardInv, HalvingBegun, RewardsTypeOK
<1>8. HalvingBegun' /\ HalvedRewardsLast'
  BY <1>1, <1>2, <1>7 DEF HalvingBegun, HalvedRewardsLast
<1> QED  BY <1>5, <1>6, <1>8 DEF RewardInv

LEMMA CfgBbpRewardKeepsInv ==
  ASSUME RewardInv, NEW b \in Amounts, CfgBbpReward(b)
  PROVE  RewardInv'
<1>1. b \in Nat /\ backup \in InfoType
  BY RewardAssumption DEF RewardAssumption, RewardInv, RewardsTypeOK
<1>2. backup' \in InfoType /\ backup'.total = backup.total /\ backup'.produced = backup.produced
  BY <1>1 DEF CfgBbpReward, InfoType
<1>3. RewardsTypeOK' /\ WithinTotals' /\ HalvingBegun'
  BY <1>2 DEF CfgBbpReward, RewardInv, RewardsTypeOK, WithinTotals, HalvingBegun
<1>4. HalvedRewardsLast'
  BY LastsOtherwise DEF CfgBbpReward, RewardInv
<1> QED  BY <1>3, <1>4 DEF RewardInv

\* Steps that change the row of a producer, and maybe what was paid.
LEMMA ProducerRowKeepsInv ==
  ASSUME RewardInv, NEW p \in Producers, NEW row \in ProducerType,
         prods' = [prods EXCEPT ![p] = row],
         paid' \in [kept : Nat, shared : Nat, undone : Nat],
         UNCHANGED <<now, version, lastUpdate, rewardState>>
  PROVE  RewardInv'
<1>1. prods' \in [Producers -> ProducerType]
  BY DEF RewardInv, RewardsTypeOK
<1>2. RewardsTypeOK' /\ WithinTotals' /\ HalvingBegun'
  BY <1>1 DEF rewardState, RewardInv, RewardsTypeOK, WithinTotals, HalvingBegun
<1>3. HalvedRewardsLast'
  BY LastsOtherwise DEF rewardState, RewardInv
<1> QED  BY <1>2, <1>3 DEF RewardInv

\* claimrewards: what is shared is part of what is claimed.
LEMMA ClaimKeepsInv ==
  ASSUME RewardInv, NEW p \in Producers, ClaimRewards(p)
  PROVE  RewardInv'
<1> DEFINE amount == prods[p].unclaimed
           part == SharedAmount(amount, prods[p].ratio)
           row == [prods[p] EXCEPT !.unclaimed = 0, !.claimedAt = now]
<1>1. /\ prods \in [Producers -> ProducerType] /\ prods[p] \in ProducerType /\ now \in Nat
      /\ paid \in [kept : Nat, shared : Nat, undone : Nat]
  BY DEF RewardInv, RewardsTypeOK
<1>2. amount \in Nat /\ part \in 0 .. amount
  BY <1>1, SharesArePart DEF ProducerType
<1>3. row \in ProducerType /\ prods' = [prods EXCEPT ![p] = row]
  BY <1>1 DEF ProducerType, ClaimRewards, ClaimedRow
<1>4. paid' = [paid EXCEPT !.kept = @ + amount - part, !.shared = @ + part]
  BY DEF ClaimRewards
<1>5. amount - part \in Nat /\ part \in Nat
  BY <1>2
<1> HIDE DEF amount, part
<1>6. paid.kept \in Nat /\ paid.shared \in Nat /\ amount \in Nat
  BY <1>1, <1>2
<1>7. paid.kept + amount - part \in Nat /\ paid.shared + part \in Nat
  BY <1>2, <1>5, <1>6
<1>8. paid' \in [kept : Nat, shared : Nat, undone : Nat]
  BY <1>1, <1>4, <1>7
<1> QED  BY <1>3, <1>8, ProducerRowKeepsInv DEF ClaimRewards

LEMMA UndoKeepsInv ==
  ASSUME RewardInv, NEW p \in Producers, NEW amount \in Amounts, UndoReward(p, amount)
  PROVE  RewardInv'
<1> DEFINE row == [prods[p] EXCEPT !.unclaimed = @ - amount, !.claimedAt = now]
<1>1. /\ prods \in [Producers -> ProducerType] /\ prods[p] \in ProducerType /\ now \in Nat
      /\ paid \in [kept : Nat, shared : Nat, undone : Nat] /\ amount \in Nat
  BY RewardAssumption DEF RewardInv, RewardsTypeOK, RewardAssumption
<1>2. prods[p].unclaimed - amount \in Nat
  BY <1>1 DEF ProducerType, UndoReward
<1>4. row \in ProducerType
  BY <1>1, <1>2 DEF ProducerType
<1>5. prods' = [prods EXCEPT ![p] = row]
  BY <1>1 DEF UndoReward
<1>3. paid' \in [kept : Nat, shared : Nat, undone : Nat]
  BY <1>1 DEF UndoReward
<1> QED  BY <1>4, <1>5, <1>3, ProducerRowKeepsInv DEF UndoReward

LEMMA RegistryKeepsInv ==
  ASSUME RewardInv, NEW p \in Producers, NEW ratio \in Ratios,
         RegProducer(p, ratio) \/ SetVoteShare(p, ratio)
  PROVE  RewardInv'
<1>1. /\ prods \in [Producers -> ProducerType] /\ prods[p] \in ProducerType /\ now \in Nat
      /\ paid \in [kept : Nat, shared : Nat, undone : Nat] /\ ratio \in 0 .. RatioBoost
  BY RewardAssumption DEF RewardInv, RewardsTypeOK, RewardAssumption
<1>2. UNCHANGED <<now, version, lastUpdate, rewardState, paid>>
  BY DEF RegProducer, SetVoteShare
<1>3. CASE RegProducer(p, ratio)
  <2> DEFINE row == [prods[p] EXCEPT
                       !.registered = TRUE, !.active = TRUE, !.ratio = ratio,
                       !.claimedAt = IF prods[p].registered THEN @ ELSE now]
  <2>1. row \in ProducerType
    BY <1>1 DEF ProducerType
  <2>2. prods' = [prods EXCEPT ![p] = row]
    BY <1>1, <1>3 DEF RegProducer, ProducerType
  <2> QED  BY <1>1, <1>2, <2>1, <2>2, ProducerRowKeepsInv
<1>4. CASE SetVoteShare(p, ratio)
  <2>1. [prods[p] EXCEPT !.ratio = ratio] \in ProducerType
    BY <1>1 DEF ProducerType
  <2>2. prods' = [prods EXCEPT ![p] = [prods[p] EXCEPT !.ratio = ratio]]
    BY <1>1, <1>4 DEF SetVoteShare
  <2> QED  BY <1>1, <1>2, <2>1, <2>2, ProducerRowKeepsInv
<1> QED  BY <1>3, <1>4

-----------------------------------------------------------------------------
(* The theorems.                                                           *)

LEMMA RewardInvInit == Init => RewardInv
<1> SUFFICES ASSUME Init PROVE RewardInv
  OBVIOUS
<1>1. NoInfo \in InfoType /\ NoInfo.total = 0 /\ NoInfo.produced = 0
  BY DEF NoInfo, InfoType
<1>2. RatioBoost \in Nat /\ 0 \in 0 .. RatioBoost
  BY RewardAssumption DEF RewardAssumption
<1>3. NoProducer \in ProducerType
  BY <1>2 DEF NoProducer, ProducerType
<1>4. RewardsTypeOK
  BY <1>1, <1>3, RewardAssumption DEF Init, RewardsTypeOK, RewardAssumption
<1>5. WithinTotals /\ HalvingBegun /\ HalvedRewardsLast
  BY <1>1, RewardAssumption
     DEF Init, WithinTotals, HalvingBegun, HalvedRewardsLast, RewardAssumption
<1> QED  BY <1>4, <1>5 DEF RewardInv

LEMMA RewardInvStep == RewardInv /\ [Next]_vars => RewardInv'
<1> SUFFICES ASSUME RewardInv, [Next]_vars PROVE RewardInv'
  OBVIOUS
<1>1. CASE Blocks
  BY <1>1, BlockKeepsInv, MissedSlotKeepsInv DEF Blocks
<1>2. CASE Configuring
  <2>1. CASE \E start, end \in Times, m, b \in Amounts : CfgReward(start, end, m, b)
    BY <2>1, CfgRewardKeepsInv
  <2>2. CASE \E b \in Amounts : CfgBbpReward(b)
    BY <2>2, CfgBbpRewardKeepsInv
  <2>3. ASSUME UNCHANGED <<now, startTime, endTime, halvingNum, main, backup, prods, paid>>,
               version' \in 0 .. 2, lastUpdate' \in Nat, contribution' \in Nat
        PROVE  RewardInv'
    <3>1. RewardsTypeOK' /\ WithinTotals' /\ HalvingBegun'
      BY <2>3 DEF RewardInv, RewardsTypeOK, WithinTotals, HalvingBegun
    <3>2. HalvedRewardsLast'
      BY <2>3, LastsOtherwise DEF RewardInv
    <3> QED  BY <3>1, <3>2 DEF RewardInv
  <2>4. CASE \E c \in Contributions : CfgContrib(c)
    BY <2>3, <2>4, RewardAssumption DEF CfgContrib, RewardAssumption, RewardInv, RewardsTypeOK
  <2>5. CASE UpgradeVote
    BY <2>3, <2>5 DEF UpgradeVote, rewardState, RewardInv, RewardsTypeOK
  <2>6. CASE \E shrinks \in BOOLEAN : InitBbpElect(shrinks)
    BY <2>3, <2>6 DEF InitBbpElect, rewardState, RewardInv, RewardsTypeOK
  <2> QED  BY <1>2, <2>1, <2>2, <2>4, <2>5, <2>6 DEF Configuring
<1>3. CASE ProducerAction
  <2> PICK p \in Producers :
           \/ \E ratio \in Ratios : RegProducer(p, ratio) \/ SetVoteShare(p, ratio)
           \/ UnregProd(p)
           \/ ClaimRewards(p)
           \/ \E amount \in Amounts : UndoReward(p, amount)
    BY <1>3 DEF ProducerAction
  <2>1. CASE \E ratio \in Ratios : RegProducer(p, ratio) \/ SetVoteShare(p, ratio)
    BY <2>1, RegistryKeepsInv
  <2>2. CASE UnregProd(p)
    <3>1. [prods[p] EXCEPT !.active = FALSE] \in ProducerType
      BY Zenon DEF RewardInv, RewardsTypeOK, ProducerType
    <3>2. paid \in [kept : Nat, shared : Nat, undone : Nat]
      BY DEF RewardInv, RewardsTypeOK
    <3>3. prods' = [prods EXCEPT ![p] = [prods[p] EXCEPT !.active = FALSE]]
          /\ UNCHANGED <<now, version, lastUpdate, rewardState, paid>>
      BY <2>2 DEF UnregProd
    <3> QED  BY <3>1, <3>2, <3>3, ProducerRowKeepsInv
  <2>3. CASE ClaimRewards(p)
    BY <2>3, ClaimKeepsInv
  <2>4. CASE \E amount \in Amounts : UndoReward(p, amount)
    BY <2>4, UndoKeepsInv
  <2> QED  BY <2>1, <2>2, <2>3, <2>4
<1>4. CASE UNCHANGED <<now, version, lastUpdate, rewardState, prods, paid>>
  <2>1. RewardsTypeOK' /\ WithinTotals' /\ HalvingBegun'
    BY <1>4 DEF rewardState, RewardInv, RewardsTypeOK, WithinTotals, HalvingBegun
  <2>2. HalvedRewardsLast'
    BY <1>4, LastsOtherwise DEF rewardState, RewardInv
  <2> QED  BY <2>1, <2>2 DEF RewardInv
<1> QED  BY <1>1, <1>2, <1>3, <1>4 DEF Next, vars

LEMMA RewardInvariant == Spec => []RewardInv
BY RewardInvInit, RewardInvStep, PTL DEF Spec

\* Nothing a block, a setting, a claim or a refusal does makes an amount
\* negative.
THEOREM RewardsTyped == Spec => []RewardsTypeOK
<1>1. RewardInv => RewardsTypeOK
  BY DEF RewardInv
<1> QED  BY <1>1, RewardInvariant, PTL

\* The rewards of either queue never exceed its total.
THEOREM RewardsWithinTotals == Spec => []WithinTotals
<1>1. RewardInv => WithinTotals
  BY DEF RewardInv
<1> QED  BY <1>1, RewardInvariant, PTL

\* After any halving the main rewards last to the end of the period and for
\* another one, whatever slots and periods were missed.
THEOREM MainRewardsLast == Spec => []HalvedRewardsLast
<1>1. RewardInv => HalvedRewardsLast
  BY DEF RewardInv
<1> QED  BY <1>1, RewardInvariant, PTL

-----------------------------------------------------------------------------
(* Every reward is in one place.                                           *)

Unclaimed(tbl) == [p \in Producers |-> tbl[p].unclaimed]
OnHand(tbl) == SumFunction(Unclaimed(tbl))

LEMMA UnclaimedTyped ==
  ASSUME NEW tbl \in [Producers -> ProducerType]
  PROVE  /\ Unclaimed(tbl) \in [Producers -> Int] /\ OnHand(tbl) \in Int
         /\ IsFiniteSet(Producers)
<1>1. IsFiniteSet(Producers)
  BY RewardAssumption DEF RewardAssumption
<1>2. Unclaimed(tbl) \in [Producers -> Int]
  BY DEF Unclaimed, ProducerType
<1> QED  BY <1>1, <1>2, SumInt DEF OnHand

\* One row is written.
LEMMA UnclaimedOfRow ==
  ASSUME NEW tbl \in [Producers -> ProducerType], NEW p \in Producers, NEW row \in ProducerType
  PROVE  OnHand([tbl EXCEPT ![p] = row]) = OnHand(tbl) - tbl[p].unclaimed + row.unclaimed
<1> DEFINE new == [tbl EXCEPT ![p] = row]
<1>1. /\ new \in [Producers -> ProducerType] /\ new[p] = row
      /\ \A c \in Producers \ {p} : new[c] = tbl[c]
  OBVIOUS
<1>2. /\ Unclaimed(new)[p] = row.unclaimed /\ Unclaimed(tbl)[p] = tbl[p].unclaimed
      /\ \A c \in Producers \ {p} : Unclaimed(new)[c] = Unclaimed(tbl)[c]
  BY <1>1 DEF Unclaimed
<1> HIDE DEF new
<1>3. SumFunction(Unclaimed(new)) = SumFunction(Unclaimed(tbl)) - Unclaimed(tbl)[p] + Unclaimed(new)[p]
  BY <1>1, <1>2, UnclaimedTyped, SumChange
<1> QED  BY <1>2, <1>3 DEF OnHand, new

\* inc_producer_rewards counts as produced what it credits.
LEMMA CreditConserves ==
  ASSUME NEW info \in InfoType, NEW tbl \in [Producers -> ProducerType], NEW p
  PROVE  OnHand(Credited(info, tbl, p)) - ProducedBy(info, tbl, p).produced
           = OnHand(tbl) - info.produced
<1>1. info.produced \in Nat /\ info.perBlock \in Nat /\ OnHand(tbl) \in Int
  BY UnclaimedTyped DEF InfoType
<1>2. CASE Credits(info, tbl, p)
  <2> DEFINE row == [tbl[p] EXCEPT !.unclaimed = @ + info.perBlock]
  <2>1. p \in Producers /\ tbl[p] \in ProducerType
    BY <1>2 DEF Credits
  <2>2. /\ row \in ProducerType /\ row.unclaimed = tbl[p].unclaimed + info.perBlock
        /\ tbl[p].unclaimed \in Nat
    BY <1>1, <2>1 DEF ProducerType
  <2>3. Credited(info, tbl, p) = [tbl EXCEPT ![p] = row]
    BY <1>2 DEF Credited
  <2>4. ProducedBy(info, tbl, p).produced = info.produced + info.perBlock
    BY <1>2 DEF ProducedBy, InfoType
  <2> HIDE DEF row
  <2>5. OnHand([tbl EXCEPT ![p] = row]) = OnHand(tbl) - tbl[p].unclaimed + row.unclaimed
    BY <2>1, <2>2, UnclaimedOfRow
  <2> QED  BY <1>1, <2>2, <2>3, <2>4, <2>5
<1>3. CASE ~Credits(info, tbl, p)
  BY <1>3 DEF Credited, ProducedBy
<1> QED  BY <1>2, <1>3

\* The rewards counted as produced, and where they are.
Produced == main.produced + backup.produced
Placed == OnHand(prods) + paid.kept + paid.shared + paid.undone

LEMMA AmountsTyped ==
  ASSUME RewardsTypeOK
  PROVE  /\ main \in InfoType /\ backup \in InfoType
         /\ main.produced \in Nat /\ backup.produced \in Nat
         /\ prods \in [Producers -> ProducerType] /\ OnHand(prods) \in Int
         /\ paid.kept \in Nat /\ paid.shared \in Nat /\ paid.undone \in Nat
<1>1. /\ main \in InfoType /\ backup \in InfoType /\ prods \in [Producers -> ProducerType]
      /\ paid \in [kept : Nat, shared : Nat, undone : Nat]
  BY DEF RewardsTypeOK
<1> QED  BY <1>1, UnclaimedTyped DEF InfoType

\* onblock: the infos of the new period count the same rewards as produced,
\* and what the block produces is credited, to one producer after the other.
LEMMA BlockConserves ==
  ASSUME RewardInv, Produced = Placed, NEW p \in Producers, NEW ext \in Extensions,
         OnBlock(p, ext)
  PROVE  Produced' = Placed'
<1>0. RewardsTypeOK /\ WithinTotals
  BY DEF RewardInv
<1>1. now' \in Nat /\ UNCHANGED paid
  BY DEF OnBlock, RewardInv, RewardsTypeOK
<1>2. CASE UNCHANGED <<rewardState, prods>>
  BY <1>1, <1>2 DEF rewardState, Produced, Placed
<1>3. CASE Rewarding(now') /\ GiveRewards(now', p, ext)
  <2> DEFINE m == MainAt(now')
             b == BackupAt(now')
             tbl == Credited(m, prods, p)
             c == BackupOf(ext)
  <2>1. /\ m \in InfoType /\ b \in InfoType
        /\ m.produced = main.produced /\ b.produced = backup.produced
    BY <1>0, <1>1, InfosAt
  <2>2. main' = ProducedBy(m, prods, p) /\ backup' = ProducedBy(b, tbl, c) /\ prods' = Credited(b, tbl, c)
    BY <1>3 DEF GiveRewards
  <2>3. /\ prods \in [Producers -> ProducerType] /\ OnHand(prods) \in Int
        /\ main.produced \in Nat /\ backup.produced \in Nat
        /\ paid.kept \in Nat /\ paid.shared \in Nat /\ paid.undone \in Nat
    BY <1>0, AmountsTyped
  <2>4. /\ tbl \in [Producers -> ProducerType] /\ main'.produced \in Nat
        /\ OnHand(tbl) - main'.produced = OnHand(prods) - m.produced
    <3> HIDE DEF m
    <3>1. main' \in InfoType
      BY <2>1, <2>2, <2>3, CreditIs
    <3> QED  BY <2>1, <2>2, <2>3, <3>1, CreditIs, CreditConserves DEF InfoType
  <2>5. /\ OnHand(prods') - backup'.produced = OnHand(tbl) - b.produced
        /\ backup'.produced \in Nat /\ OnHand(prods') \in Int /\ OnHand(tbl) \in Int
    <3> HIDE DEF m, b, tbl, c
    <3>1. backup' \in InfoType /\ prods' \in [Producers -> ProducerType]
      BY <2>1, <2>2, <2>4, CreditIs
    <3> QED  BY <2>1, <2>2, <2>4, <3>1, CreditConserves, UnclaimedTyped DEF InfoType
  <2> HIDE DEF m, b, tbl, c
  <2> QED  BY <1>1, <2>1, <2>3, <2>4, <2>5 DEF Produced, Placed
<1>4. (UNCHANGED <<rewardState, prods>>) \/ (Rewarding(now') /\ GiveRewards(now', p, ext))
  BY DEF OnBlock, GiveRewards, rewardState
<1> QED  BY <1>2, <1>3, <1>4

\* A claim moves the whole of what is unclaimed; rounding only moves the
\* border between what is kept and what is shared.
LEMMA ClaimConserves ==
  ASSUME RewardInv, Produced = Placed, NEW p \in Producers, ClaimRewards(p)
  PROVE  Produced' = Placed'
<1> DEFINE amount == prods[p].unclaimed
           part == SharedAmount(amount, prods[p].ratio)
           row == [prods[p] EXCEPT !.unclaimed = 0, !.claimedAt = now]
<1>1. /\ prods \in [Producers -> ProducerType] /\ prods[p] \in ProducerType /\ now \in Nat
      /\ paid \in [kept : Nat, shared : Nat, undone : Nat]
  BY DEF RewardInv, RewardsTypeOK
<1>2. amount \in Nat /\ part \in 0 .. amount
  BY <1>1, SharesArePart DEF ProducerType
<1>3. row \in ProducerType /\ row.unclaimed = 0 /\ prods' = [prods EXCEPT ![p] = row]
  BY <1>1 DEF ProducerType, ClaimRewards, ClaimedRow
<1>4. paid' = [paid EXCEPT !.kept = @ + amount - part, !.shared = @ + part]
      /\ UNCHANGED <<main, backup>>
  BY DEF ClaimRewards, rewardState
<1>5. OnHand(prods') = OnHand(prods) - amount + 0
  <2> HIDE DEF row
  <2> QED  BY <1>1, <1>3, UnclaimedOfRow
<1>6. OnHand(prods) \in Int /\ paid.kept \in Nat /\ paid.shared \in Nat /\ paid.undone \in Nat
  BY AmountsTyped DEF RewardInv
<1> HIDE DEF amount, part
<1>7. /\ paid'.kept = paid.kept + amount - part /\ paid'.shared = paid.shared + part
      /\ paid'.undone = paid.undone
  BY <1>1, <1>4
<1> QED  BY <1>2, <1>4, <1>5, <1>6, <1>7 DEF Produced, Placed

LEMMA UndoConserves ==
  ASSUME RewardInv, Produced = Placed, NEW p \in Producers, NEW amount \in Amounts,
         UndoReward(p, amount)
  PROVE  Produced' = Placed'
<1> DEFINE row == [prods[p] EXCEPT !.unclaimed = @ - amount, !.claimedAt = now]
<1>1. /\ prods \in [Producers -> ProducerType] /\ prods[p] \in ProducerType /\ now \in Nat
      /\ paid \in [kept : Nat, shared : Nat, undone : Nat] /\ amount \in Nat
  BY RewardAssumption DEF RewardInv, RewardsTypeOK, RewardAssumption
<1>2. prods[p].unclaimed - amount \in Nat /\ prods[p].unclaimed \in Nat
  BY <1>1 DEF ProducerType, UndoReward
<1>3. row \in ProducerType /\ row.unclaimed = prods[p].unclaimed - amount
  BY <1>1, <1>2 DEF ProducerType
<1>4. prods' = [prods EXCEPT ![p] = row]
  BY <1>1 DEF UndoReward
<1>5. paid' = [paid EXCEPT !.undone = @ + amount] /\ UNCHANGED <<main, backup>>
  BY DEF UndoReward, rewardState
<1>6. OnHand(prods') = OnHand(prods) - prods[p].unclaimed + row.unclaimed
  <2> HIDE DEF row
  <2> QED  BY <1>1, <1>3, <1>4, UnclaimedOfRow
<1>7. OnHand(prods) \in Int /\ paid.kept \in Nat /\ paid.shared \in Nat /\ paid.undone \in Nat
  BY AmountsTyped DEF RewardInv
<1>8. paid'.kept = paid.kept /\ paid'.shared = paid.shared /\ paid'.undone = paid.undone + amount
  BY <1>1, <1>5
<1> HIDE DEF row
<1> QED  BY <1>1, <1>2, <1>3, <1>5, <1>6, <1>7, <1>8 DEF Produced, Placed

\* Registering, unregistering and sharing leave a row its unclaimed rewards.
LEMMA RegistryConserves ==
  ASSUME RewardInv, Produced = Placed, NEW p \in Producers,
         \/ \E ratio \in Ratios : RegProducer(p, ratio) \/ SetVoteShare(p, ratio)
         \/ UnregProd(p)
  PROVE  Produced' = Placed'
<1>1. \A q \in Producers : prods'[q].unclaimed = prods[q].unclaimed
  <2>1. prods \in [Producers -> ProducerType]
    BY DEF RewardInv, RewardsTypeOK
  <2>2. ASSUME NEW ratio \in Ratios, RegProducer(p, ratio)
        PROVE  \A q \in Producers : prods'[q].unclaimed = prods[q].unclaimed
    <3> DEFINE row == [prods[p] EXCEPT
                         !.registered = TRUE, !.active = TRUE, !.ratio = ratio,
                         !.claimedAt = IF prods[p].registered THEN @ ELSE now]
    <3>1. prods' = [prods EXCEPT ![p] = row]
      BY <2>1, <2>2 DEF RegProducer, ProducerType
    <3>2. row.unclaimed = prods[p].unclaimed
      BY <2>1 DEF ProducerType
    <3> HIDE DEF row
    <3> QED  BY <2>1, <3>1, <3>2
  <2>3. ASSUME NEW ratio \in Ratios, SetVoteShare(p, ratio)
        PROVE  \A q \in Producers : prods'[q].unclaimed = prods[q].unclaimed
    BY <2>1, <2>3 DEF SetVoteShare, ProducerType
  <2>4. ASSUME UnregProd(p)
        PROVE  \A q \in Producers : prods'[q].unclaimed = prods[q].unclaimed
    BY <2>1, <2>4 DEF UnregProd, ProducerType
  <2> QED  BY <2>2, <2>3, <2>4
<1>2. Unclaimed(prods') = Unclaimed(prods)
  BY <1>1 DEF Unclaimed
<1>3. UNCHANGED <<main, backup, paid>>
  BY DEF RegProducer, SetVoteShare, UnregProd, rewardState
<1> QED  BY <1>2, <1>3 DEF Produced, Placed, OnHand

\* Across halvings, refused blocks, claims and their rounding, and producers
\* that come and go, every reward counted as produced is credited, kept,
\* shared or given up, for any producers, totals, periods and ratios.
THEOREM RewardsAreConserved == Spec => []RewardsConserved
<1>1. Init => RewardInv /\ Produced = Placed
  <2> SUFFICES ASSUME Init PROVE Produced = Placed
    BY RewardInvInit
  <2>1. prods \in [Producers -> ProducerType]
    BY RewardInvInit DEF RewardInv, RewardsTypeOK
  <2>2. \A p \in Producers : Unclaimed(prods)[p] = 0
    BY DEF Init, NoProducer, Unclaimed
  <2>3. OnHand(prods) = 0
    BY <2>1, <2>2, UnclaimedTyped, SumZero DEF OnHand
  <2> QED  BY <2>3 DEF Init, NoInfo, Produced, Placed
<1>2. (RewardInv /\ Produced = Placed) /\ [Next]_vars => (RewardInv /\ Produced = Placed)'
  <2> SUFFICES ASSUME RewardInv, Produced = Placed, [Next]_vars PROVE Produced' = Placed'
    BY RewardInvStep
  <2>1. CASE UNCHANGED <<main, backup, prods, paid>>
    BY <2>1 DEF Produced, Placed
  <2>2. CASE Blocks
    BY <2>1, <2>2, BlockConserves DEF Blocks, MissSlot, rewardState
  <2>3. CASE Configuring
    <3>1. /\ main'.produced = main.produced /\ backup'.produced = backup.produced
          /\ UNCHANGED <<prods, paid>>
      <4>1. main \in InfoType /\ backup \in InfoType
        BY DEF RewardInv, RewardsTypeOK
      <4> QED  BY <2>3, <4>1 DEF Configuring, CfgReward, CfgBbpReward, CfgContrib, UpgradeVote,
                                 InitBbpElect, rewardState, InfoType
    <3> QED  BY <3>1 DEF Produced, Placed
  <2>4. CASE ProducerAction
    BY <2>4, RegistryConserves, ClaimConserves, UndoConserves DEF ProducerAction
  <2> QED  BY <2>1, <2>2, <2>3, <2>4 DEF Next, vars, rewardState
<1>3. Produced = Placed => RewardsConserved
  BY DEF Produced, Placed, OnHand, Unclaimed, RewardsConserved
<1> QED  BY <1>1, <1>2, <1>3, PTL DEF Spec

-----------------------------------------------------------------------------
(* The auctions.                                                           *)

OneRowPerName(rows) ==
  rows \subseteq BidRows /\ \A a, b \in rows : a.name = b.name => a = b

\* The bids closed since the bids at the start are none lower than a bid open
\* still, and every open bid was open at the start.
ClosedFromTop(start, rows) ==
  /\ OneRowPerName(rows)
  /\ \A c \in rows : c.bid > 0 => c \in start
  /\ \A b \in start, c \in rows :
       b.bid > 0 /\ Closed(b) \in rows /\ c.bid > 0 => c.bid <= b.bid

\* The iterator stands on at most one row, and if that is open, on the first
\* of the open ones.
AtTop(st) ==
  /\ st.at \subseteq st.rows
  /\ \A a, b \in st.at : a = b
  /\ \A a \in st.at, c \in st.rows : a.bid > 0 /\ c.bid > 0 => c.bid <= a.bid

LEMMA BidTyped ==
  ASSUME NEW b \in BidRows
  PROVE  /\ b.bid \in Int /\ b.name \in Nat /\ Closed(b) \in BidRows
         /\ Closed(b).bid = -b.bid /\ Closed(b).name = b.name
<1>1. b.bid \in Int /\ b.name \in Nat
  BY AuctionAssumption DEF BidRows, AuctionAssumption
<1>2. -b.bid \in Int
  BY <1>1
<1> QED BY <1>1, <1>2 DEF Closed, BidRows

LEMMA BeforeIsStrict ==
  ASSUME NEW a \in BidRows, NEW b \in BidRows, Before(a, b), Before(b, a)
  PROVE  FALSE
<1>1. a.bid \in Int /\ b.bid \in Int /\ a.name \in Nat /\ b.name \in Nat
  BY BidTyped
<1> QED BY <1>1 DEF Before, Abs

\* At most one row is the first.
LEMMA FirstIsOne ==
  ASSUME NEW rows \in SUBSET BidRows
  PROVE  /\ First(rows) \subseteq rows
         /\ \A a, b \in First(rows) : a = b
         /\ \A a \in First(rows), c \in rows : c # a => Before(a, c)
<1>1. First(rows) \subseteq rows /\ \A a \in First(rows), c \in rows : c # a => Before(a, c)
  BY DEF First
<1>2. ASSUME NEW a \in First(rows), NEW b \in First(rows), a # b PROVE FALSE
  <2>1. Before(a, b) /\ Before(b, a)
    BY <1>1, <1>2
  <2> QED BY <1>1, <2>1, BeforeIsStrict
<1> QED BY <1>1, <1>2

LEMMA FirstOpenIsTop ==
  ASSUME NEW rows \in SUBSET BidRows
  PROVE  AtTop([rows |-> rows, at |-> FirstOpen(rows)])
<1> DEFINE open == {b \in rows : b.bid > 0}
<1>1. open \in SUBSET BidRows
  OBVIOUS
<1>2. /\ First(open) \subseteq open
      /\ \A a, b \in First(open) : a = b
      /\ \A a \in First(open), c \in open : c # a => Before(a, c)
  BY <1>1, FirstIsOne
<1>3. ASSUME NEW a \in First(open), NEW c \in rows, a.bid > 0, c.bid > 0
      PROVE  c.bid <= a.bid
  <2>1. a \in BidRows /\ a.bid \in Int /\ c.bid \in Int
    BY <1>2, BidTyped
  <2>2. c = a \/ Before(a, c)
    BY <1>2, <1>3
  <2> QED BY <1>3, <2>1, <2>2 DEF Before
<1> QED BY <1>2, <1>3 DEF AtTop, FirstOpen

\* After a closed row comes a closed one or the first of the open ones.
LEMMA NextIsTop ==
  ASSUME NEW rows \in SUBSET BidRows, NEW b \in rows, b.bid < 0
  PROVE  AtTop([rows |-> rows, at |-> NextRow(rows, b)])
<1> DEFINE later == {c \in rows : Before(b, c)}
<1>1. later \in SUBSET BidRows
  OBVIOUS
<1>2. /\ First(later) \subseteq later
      /\ \A a, c \in First(later) : a = c
      /\ \A a \in First(later), c \in later : c # a => Before(a, c)
  BY <1>1, FirstIsOne
<1>3. ASSUME NEW a \in First(later), NEW c \in rows, a.bid > 0, c.bid > 0
      PROVE  c.bid <= a.bid
  <2>1. a \in BidRows /\ a.bid \in Int /\ c.bid \in Int
    BY <1>2, BidTyped
  <2>2. c \in later
    BY <1>3 DEF Before
  <2>3. c = a \/ Before(a, c)
    BY <1>2, <2>2
  <2> QED BY <1>3, <2>1, <2>3 DEF Before
<1> QED BY <1>2, <1>3 DEF AtTop, NextRow

\* One step of the iterator closes the highest open bid or none.
LEMMA HandlingKeepsOrder ==
  ASSUME NEW start \in SUBSET BidRows, NEW st, st = [rows |-> st.rows, at |-> st.at],
         ClosedFromTop(start, st.rows), AtTop(st), NEW t
  PROVE  LET next == HandleThenNext(st, t)
         IN  /\ ClosedFromTop(start, next.rows) /\ AtTop(next)
             /\ next = [rows |-> next.rows, at |-> next.at]
<1> DEFINE next == HandleThenNext(st, t)
<1>1. CASE ~ \E b \in st.at : Mature(b, t)
  <2>1. next = [st EXCEPT !.at = {}]
    BY <1>1 DEF HandleThenNext
  <2>2. next.rows = st.rows /\ next.at = {} /\ next = [rows |-> next.rows, at |-> next.at]
    BY <2>1
  <2> QED BY <2>2 DEF AtTop
<1>2. CASE \E b \in st.at : Mature(b, t)
  <2> DEFINE b == CHOOSE b \in st.at : TRUE
             rows == WithClosed(st.rows, b)
  <2>1. b \in st.at /\ Mature(b, t) /\ b \in st.rows
    BY <1>2 DEF AtTop
  <2>2. next = [rows |-> rows, at |-> NextRow(rows, Closed(b))]
    BY <1>2 DEF HandleThenNext
  <2> HIDE DEF b
  <2>3. /\ st.rows \in SUBSET BidRows /\ b \in BidRows /\ b.bid \in Int /\ b.bid > 0
        /\ Closed(b) \in BidRows /\ Closed(b).bid = -b.bid /\ Closed(b).name = b.name
    BY <2>1, BidTyped DEF ClosedFromTop, OneRowPerName, Mature
  <2>4. rows = (st.rows \ {b}) \cup {Closed(b)}
    BY DEF WithClosed
  <2> HIDE DEF rows
  <2>5. OneRowPerName(rows)
    BY <2>1, <2>3, <2>4 DEF OneRowPerName, ClosedFromTop
  <2>6. -b.bid < 0
    BY <2>3
  <2>7. \A c \in rows : c.bid > 0 => c \in st.rows /\ c \in start
    <3> SUFFICES ASSUME NEW c \in rows, c.bid > 0 PROVE c \in st.rows
      BY DEF ClosedFromTop
    <3>1. c # Closed(b)
      BY <2>3, <2>6
    <3> QED BY <2>4, <3>1
  <2>8. ASSUME NEW d \in start, NEW c \in rows, d.bid > 0, Closed(d) \in rows, c.bid > 0
        PROVE  c.bid <= d.bid
    <3>1. CASE Closed(d) \in st.rows
      BY <2>7, <2>8, <3>1 DEF ClosedFromTop
    <3>2. CASE Closed(d) = Closed(b)
      <4>1. d.bid \in Int /\ Closed(d).bid = -d.bid
        BY BidTyped
      <4>2. d.bid = b.bid
        BY <2>3, <3>2, <4>1
      <4>3. c.bid <= b.bid
        BY <2>1, <2>3, <2>7, <2>8 DEF AtTop
      <4> QED BY <4>2, <4>3
    <3> QED BY <2>4, <2>8, <3>1, <3>2
  <2>9. ClosedFromTop(start, rows)
    BY <2>5, <2>7, <2>8 DEF ClosedFromTop
  <2>10. AtTop([rows |-> rows, at |-> NextRow(rows, Closed(b))])
    <3>1. rows \in SUBSET BidRows /\ Closed(b) \in rows /\ Closed(b).bid < 0
      BY <2>3, <2>4, <2>5, <2>6 DEF OneRowPerName
    <3> QED BY <3>1, NextIsTop
  <2> QED BY <2>2, <2>9, <2>10
<1> QED BY <1>1, <1>2

\* No open bid has a closed one under its name beside it.
LEMMA OpenIsNotClosed ==
  ASSUME NEW rows, OneRowPerName(rows), NEW b \in rows, b.bid > 0
  PROVE  Closed(b) \notin rows
<1> SUFFICES ASSUME Closed(b) \in rows PROVE FALSE
  OBVIOUS
<1>1. b.bid \in Int /\ Closed(b).bid = -b.bid /\ Closed(b).name = b.name
  BY BidTyped DEF OneRowPerName
<1>2. Closed(b) = b
  BY <1>1 DEF OneRowPerName
<1> QED BY <1>1, <1>2

LEMMA CloseKeepsOrder ==
  ASSUME OneRowPerName(bids), NEW t
  PROVE  ClosedFromTop(bids, AfterClose(t))
<1> DEFINE start  == [rows |-> bids, at |-> FirstOpen(bids)]
           first  == HandleThenNext(start, t)
           second == HandleThenNext(first, t)
           third  == HandleThenNext(second, t)
<1>1. bids \in SUBSET BidRows
  BY DEF OneRowPerName
<1>2. ClosedFromTop(bids, bids)
  BY OpenIsNotClosed DEF ClosedFromTop
<1>3. ClosedFromTop(bids, start.rows) /\ AtTop(start) /\ start = [rows |-> start.rows, at |-> start.at]
  BY <1>1, <1>2, FirstOpenIsTop
<1> HIDE DEF start
<1>4. ClosedFromTop(bids, first.rows) /\ AtTop(first) /\ first = [rows |-> first.rows, at |-> first.at]
  BY <1>1, <1>3, HandlingKeepsOrder
<1> HIDE DEF first
<1>5. ClosedFromTop(bids, second.rows) /\ AtTop(second) /\ second = [rows |-> second.rows, at |-> second.at]
  BY <1>1, <1>4, HandlingKeepsOrder
<1> HIDE DEF second
<1>6. ClosedFromTop(bids, third.rows)
  BY <1>1, <1>5, HandlingKeepsOrder
<1>7. AfterClose(t) = third.rows
  BY DEF AfterClose, third, second, first, start
<1> QED BY <1>6, <1>7

\* Bids are only closed, or taken away with their name.
LEMMA BidsOfStep ==
  ASSUME OneRowPerName(bids), [Next]_vars
  PROVE  bids' \subseteq bids \/ \E t : bids' = AfterClose(t)
<1>1. ASSUME NEW p, NEW ext, OnBlock(p, ext) PROVE bids' = bids \/ \E t : bids' = AfterClose(t)
  BY <1>1, Zenon DEF OnBlock, CloseAuctions, auctionVars
<1>2. CASE MissSlot
  BY <1>2 DEF MissSlot, auctionVars
<1>3. CASE Configuring
  BY <1>3 DEF Configuring, CfgReward, CfgBbpReward, CfgContrib, UpgradeVote, InitBbpElect, auctionVars
<1>4. CASE ProducerAction
  BY <1>4 DEF ProducerAction, RegProducer, SetVoteShare, UnregProd, ClaimRewards, UndoReward, auctionVars
<1>5. CASE AuctionAction
  BY <1>5 DEF AuctionAction, CreateBySystem, CreateByWinner, BidRefund
<1>6. CASE UNCHANGED vars
  BY <1>6 DEF vars, auctionVars
<1> QED BY <1>1, <1>2, <1>3, <1>4, <1>5, <1>6 DEF Next, Blocks

LEMMA BidsInit == Init => OneRowPerName(bids)
BY AuctionAssumption DEF Init, AuctionInit, AuctionAssumption, OneRowPerName

LEMMA BidsStep == OneRowPerName(bids) /\ [Next]_vars => OneRowPerName(bids)'
<1> SUFFICES ASSUME OneRowPerName(bids), [Next]_vars PROVE OneRowPerName(bids')
  OBVIOUS
<1>1. CASE bids' \subseteq bids
  BY <1>1 DEF OneRowPerName
<1>2. ASSUME NEW t, bids' = AfterClose(t) PROVE OneRowPerName(bids')
  BY <1>2, CloseKeepsOrder DEF ClosedFromTop
<1> QED BY <1>1, <1>2, BidsOfStep

LEMMA ClosesFromTop ==
  ASSUME OneRowPerName(bids), [Next]_vars,
         NEW b \in bids, NEW c \in bids', b.bid > 0, Closed(b) \in bids', c.bid > 0
  PROVE  c.bid <= b.bid
<1>1. CASE bids' \subseteq bids
  BY <1>1, OpenIsNotClosed
<1>2. ASSUME NEW t, bids' = AfterClose(t) PROVE c.bid <= b.bid
  BY <1>2, CloseKeepsOrder DEF ClosedFromTop
<1> QED BY <1>1, <1>2, BidsOfStep

\* No block closes a bid below one that it leaves open, although closing a
\* bid moves its row from under the iterator.
THEOREM AuctionsCloseFromTop == Spec => HighestClosedFirst
<1> DEFINE FromTop == \A b \in bids, c \in bids' :
             b.bid > 0 /\ Closed(b) \in bids' /\ c.bid > 0 => c.bid <= b.bid
<1>1. OneRowPerName(bids) /\ [Next]_vars => [FromTop]_auctionVars
  BY ClosesFromTop
<1> HIDE DEF FromTop
<1>2. Spec => [][FromTop]_auctionVars
  BY <1>1, BidsInit, BidsStep, PTL DEF Spec
<1> QED BY <1>2 DEF HighestClosedFirst, FromTop
=============================================================================
