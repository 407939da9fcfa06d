------------------------- MODULE VoteStakingProofs -------------------------
(***************************************************************************)
(* Theorems about AmaxReward and VoteStaking, for every set of voters and  *)
(* producers, every precision, delay and funding.  First amax.reward: the  *)
(* rows are of their types and balance (RowsInv), what the voters of a     *)
(* producer can claim is covered (OwedInv), and the contract has the money *)
(* (RewardInv).  The handlers change the rows in two ways only, a          *)
(* settlement of a voter and a payment of a producer, and the lemmas treat *)
(* a settlement once for all its callers.  Then amax.system: once the      *)
(* elections are initialized the two contracts agree about votes and lists *)
(* (AgreeInv), each action being shown to do to the rows of amax.system    *)
(* what it does to those of amax.reward; hence the elected votes add up    *)
(* and can be taken back (ElectInv).  With legacy votes or without, the    *)
(* money of both contracts is there (MoneyInv, BackedInv).                 *)
(***************************************************************************)
EXTENDS VoteStaking, Sums, TLAPS

RowsInv == RowsTypeOK /\ BooksBalance

-----------------------------------------------------------------------------
(* Arithmetic of the two roundings.                                        *)

\* Dividing an amount by a positive amount gives an amount.
LEMMA QuotientIsNat ==
  ASSUME NEW a \in Nat, NEW b \in Nat, b > 0
  PROVE  a \div b \in Nat
OBVIOUS

\* The product of two amounts is an amount.
LEMMA ProductIsNat ==
  ASSUME NEW a \in Nat, NEW b \in Nat
  PROVE  a * b \in Nat
OBVIOUS

\* Without votes nothing accrues, whatever the precision.
LEMMA NothingOfNothing ==
  ASSUME NEW a \in Int, NEW b \in Nat, b > 0
  PROVE  (0 * a) \div b = 0
OBVIOUS

-----------------------------------------------------------------------------
(* Allocate.                                                               *)

\* What a voter has accrued from a producer is an amount, and it is nothing
\* when the voter holds no votes or the accumulator has not moved.
LEMMA AccruedIsNat ==
  ASSUME RowsTypeOK, NEW v \in Voters, NEW p \in Producers
  PROVE  /\ RpvSince(v, p) \in Int /\ HeldVotes(v, p) \in Nat
         /\ Accrued(v, p) \in Nat
         /\ ~(RpvSince(v, p) > 0 /\ HeldVotes(v, p) > 0) => Accrued(v, p) = 0
<1>1. PICK list \in SUBSET Producers : marks[v] \in [list -> Nat]
  BY DEF RowsTypeOK
<1>2. producer[p].rpv \in Nat /\ votes[v] \in Nat
  BY DEF RowsTypeOK, ProducerRow
<1>3. RpvSince(v, p) \in Int /\ HeldVotes(v, p) \in Nat
  BY <1>1, <1>2 DEF RpvSince, HeldVotes, InList
<1>4. Precision \in Nat /\ Precision > 0
  BY RewardAssumption DEF RewardAssumption
<1>5. CASE RpvSince(v, p) > 0
  <2>1. HeldVotes(v, p) * RpvSince(v, p) \in Nat
    BY <1>3, <1>5, ProductIsNat
  <2>2. Accrued(v, p) \in Nat
    BY <2>1, <1>4, <1>5, QuotientIsNat DEF Accrued
  <2>3. HeldVotes(v, p) = 0 => Accrued(v, p) = 0
    BY <1>3, <1>4, <1>5, NothingOfNothing DEF Accrued
  <2> QED  BY <1>3, <1>5, <2>2, <2>3
<1>6. CASE ~(RpvSince(v, p) > 0)
  BY <1>3, <1>6 DEF Accrued
<1> QED  BY <1>5, <1>6

\* Allocating n of a row that has as much to allocate keeps its books.
LEMMA SharedKeepsBooks ==
  ASSUME NEW row \in ProducerRow, NEW n \in Nat,
         row.allocating >= n, row.total = row.allocating + row.allocated
  PROVE  /\ Shared(row, n) \in ProducerRow
         /\ Shared(row, n).total = Shared(row, n).allocating + Shared(row, n).allocated
         /\ Shared(row, n).votes = row.votes /\ Shared(row, n).rpv = row.rpv
         /\ Shared(row, n).allocating = row.allocating - n /\ Shared(row, n).total = row.total
<1> DEFINE half == [row EXCEPT !.allocating = row.allocating - n]
<1>1. Shared(row, n) = [half EXCEPT !.allocated = row.allocated + n]
  BY DEF Shared
<1>2. row.allocating - n \in Nat /\ row.allocated + n \in Nat
  BY DEF ProducerRow
<1>3. /\ half \in ProducerRow
      /\ half.allocating = row.allocating - n /\ half.total = row.total
      /\ half.votes = row.votes /\ half.rpv = row.rpv
  BY <1>2 DEF ProducerRow
<1> HIDE DEF half
<1>4. /\ Shared(row, n) \in ProducerRow
      /\ Shared(row, n).total = half.total
      /\ Shared(row, n).allocating = half.allocating
      /\ Shared(row, n).allocated = row.allocated + n
      /\ Shared(row, n).votes = half.votes /\ Shared(row, n).rpv = half.rpv
  BY <1>1, <1>2, <1>3 DEF ProducerRow
<1> QED  BY <1>3, <1>4 DEF ProducerRow

\* A payment raises the total and what is to be allocated alike, and the
\* accumulator does not fall.
LEMMA ReceivedKeepsBooks ==
  ASSUME NEW row \in ProducerRow, NEW n \in Nat,
         row.total = row.allocating + row.allocated
  PROVE  /\ Received(row, n) \in ProducerRow
         /\ Received(row, n).total
              = Received(row, n).allocating + Received(row, n).allocated
         /\ Received(row, n).rpv >= row.rpv
<1> DEFINE per   == PerVote(n, row.votes)
           paid  == [row EXCEPT !.total = row.total + n]
           toPay == [paid EXCEPT !.allocating = row.allocating + n]
<1>1. per \in Nat
  <2>1. row.votes \in Nat
    BY DEF ProducerRow
  <2>2. n * Precision \in Nat
    BY RewardAssumption, ProductIsNat DEF RewardAssumption
  <2>3. CASE row.votes > 0
    BY <2>1, <2>2, <2>3, QuotientIsNat DEF PerVote
  <2>4. CASE ~(row.votes > 0)
    BY <2>4 DEF PerVote
  <2> QED  BY <2>3, <2>4
<1>2. Received(row, n) = [toPay EXCEPT !.rpv = row.rpv + per]
  BY DEF Received
<1> HIDE DEF per
<1>3. /\ paid \in ProducerRow /\ paid.total = row.total + n
      /\ paid.allocated = row.allocated
  BY DEF ProducerRow
<1> HIDE DEF paid
<1>4. /\ toPay \in ProducerRow /\ toPay.total = row.total + n
      /\ toPay.allocating = row.allocating + n /\ toPay.allocated = row.allocated
  BY <1>3 DEF ProducerRow
<1> HIDE DEF toPay
<1>5. row.rpv \in Nat /\ row.rpv + per \in Nat
  BY <1>1 DEF ProducerRow
<1>6. /\ Received(row, n) \in ProducerRow
      /\ Received(row, n).total = toPay.total
      /\ Received(row, n).allocating = toPay.allocating
      /\ Received(row, n).allocated = toPay.allocated
      /\ Received(row, n).rpv = row.rpv + per
  BY <1>2, <1>4, <1>5 DEF ProducerRow
<1> QED  BY <1>1, <1>4, <1>5, <1>6 DEF ProducerRow

\* Allocate keeps the rows of their type and the books balanced, leaves the
\* accumulators alone, and changes the votes by delta.
LEMMA AllocateKeepsBooks ==
  ASSUME RowsInv, NEW v \in Voters, NEW delta,
         DOMAIN delta \subseteq Producers,
         \A p \in DOMAIN delta : delta[p] \in Int,
         Allocate(v, delta)
  PROVE  /\ producer' \in [Producers -> ProducerRow]
         /\ \A p \in Producers :
              /\ producer'[p].total = producer'[p].allocating + producer'[p].allocated
              /\ producer'[p].rpv = producer[p].rpv
              /\ producer'[p].votes = producer[p].votes
                                      + (IF p \in DOMAIN delta THEN delta[p] ELSE 0)
              /\ producer'[p].total = producer[p].total
              /\ producer'[p].allocating = producer[p].allocating
                                      - (IF p \in DOMAIN delta THEN Accrued(v, p) ELSE 0)
<1>1. SUFFICES ASSUME NEW p \in Producers
               PROVE  /\ producer'[p] \in ProducerRow
                      /\ producer'[p].total
                           = producer'[p].allocating + producer'[p].allocated
                      /\ producer'[p].rpv = producer[p].rpv
                      /\ producer'[p].votes = producer[p].votes
                           + (IF p \in DOMAIN delta THEN delta[p] ELSE 0)
                      /\ producer'[p].total = producer[p].total
                      /\ producer'[p].allocating = producer[p].allocating
                           - (IF p \in DOMAIN delta THEN Accrued(v, p) ELSE 0)
  BY DEF Allocate
<1> DEFINE row == producer[p]
           n   == Accrued(v, p)
<1>2. /\ row \in ProducerRow
      /\ row.total = row.allocating + row.allocated
  BY DEF RowsInv, RowsTypeOK, BooksBalance
<1>3. CASE p \notin DOMAIN delta
  <2>1. producer'[p] = row
    BY <1>3 DEF Allocate
  <2>2. row.votes = row.votes + 0 /\ row.allocating = row.allocating - 0
    BY <1>2 DEF ProducerRow
  <2> QED  BY <1>2, <1>3, <2>1, <2>2
<1>4. CASE p \in DOMAIN delta
  <2>1. producer'[p] = [Shared(row, n) EXCEPT !.votes = @ + delta[p]]
    BY <1>4 DEF Allocate
  <2>2. n \in Nat
    BY AccruedIsNat DEF RowsInv
  <2>3. CanAllocate(v, p, delta[p])
    BY <1>4 DEF Allocate
  <2>4. row.allocating >= n
    <3>1. row.allocating \in Nat
      BY <1>2 DEF ProducerRow
    <3>2. CASE RpvSince(v, p) > 0 /\ HeldVotes(v, p) > 0
      BY <2>3, <3>2 DEF CanAllocate
    <3>3. CASE ~(RpvSince(v, p) > 0 /\ HeldVotes(v, p) > 0)
      BY <3>1, <3>3, AccruedIsNat DEF RowsInv
    <3> QED  BY <3>2, <3>3
  <2>5. row.votes + delta[p] \in Nat
    <3>1. row.votes \in Nat /\ delta[p] \in Int
      BY <1>2, <1>4 DEF ProducerRow
    <3>2. row.votes + delta[p] >= 0
      BY <2>3 DEF CanAllocate
    <3> QED  BY <3>1, <3>2
  <2> DEFINE shared == Shared(row, n)
  <2>6. /\ shared \in ProducerRow
        /\ shared.total = shared.allocating + shared.allocated
        /\ shared.votes = row.votes /\ shared.rpv = row.rpv
        /\ shared.allocating = row.allocating - n /\ shared.total = row.total
    BY <1>2, <2>2, <2>4, SharedKeepsBooks
  <2>7. producer'[p] = [shared EXCEPT !.votes = shared.votes + delta[p]]
    BY <2>1
  <2> HIDE DEF shared
  <2>8. /\ producer'[p] \in ProducerRow
        /\ producer'[p].total = producer'[p].allocating + producer'[p].allocated
        /\ producer'[p].rpv = shared.rpv
        /\ producer'[p].votes = shared.votes + delta[p]
        /\ producer'[p].allocating = shared.allocating /\ producer'[p].total = shared.total
    BY <2>5, <2>6, <2>7 DEF ProducerRow
  <2> QED  BY <1>4, <2>6, <2>8
<1> QED  BY <1>3, <1>4

\* After a settlement of v for a list, the marks of every voter are still of
\* their type and not ahead of the accumulators.
LEMMA SettledMarks ==
  ASSUME RowsInv, NEW v \in Voters, NEW list \in SUBSET Producers,
         marks' = [marks EXCEPT ![v] = Marks(list)],
         \A p \in Producers : producer'[p].rpv = producer[p].rpv
  PROVE  /\ marks' = [w \in Voters |-> marks'[w]]
         /\ \A w \in Voters : \E l \in SUBSET Producers : marks'[w] \in [l -> Nat]
         /\ \A w \in Voters : \A p \in DOMAIN marks'[w] :
              marks'[w][p] <= producer'[p].rpv
<1>1. /\ marks = [w \in Voters |-> marks[w]]
      /\ \A w \in Voters : \E l \in SUBSET Producers : marks[w] \in [l -> Nat]
      /\ \A w \in Voters : \A p \in DOMAIN marks[w] : marks[w][p] <= producer[p].rpv
      /\ \A p \in Producers : producer[p].rpv \in Nat
  BY DEF RowsInv, RowsTypeOK, BooksBalance, ProducerRow
<1>2. Marks(list) \in [list -> Nat]
  BY <1>1 DEF Marks
<1>3. \A p \in list : Marks(list)[p] = producer[p].rpv
  BY DEF Marks
<1>4. marks' = [w \in Voters |-> IF w = v THEN Marks(list) ELSE marks[w]]
  BY <1>1
<1>5. \A w \in Voters : \E l \in SUBSET Producers : marks'[w] \in [l -> Nat]
  BY <1>1, <1>2, <1>4
<1>6. ASSUME NEW w \in Voters, NEW p \in DOMAIN marks'[w]
      PROVE  marks'[w][p] <= producer'[p].rpv
  <2>1. p \in Producers
    BY <1>5
  <2>2. CASE w = v
    <3>1. p \in list /\ marks'[w][p] = producer[p].rpv
      BY <1>2, <1>3, <1>4, <2>2
    <3> QED  BY <1>1, <2>1, <3>1
  <2>3. CASE w # v
    <3>1. p \in DOMAIN marks[w] /\ marks'[w][p] = marks[w][p]
      BY <1>4, <2>3
    <3> QED  BY <1>1, <2>1, <3>1
  <2> QED  BY <2>2, <2>3
<1> QED  BY <1>4, <1>5, <1>6
\* The step that every handler called for a voter comes down to.
LEMMA SettlementKeepsInv ==
  ASSUME RowsInv, NEW v \in Voters, NEW delta, NEW list \in SUBSET Producers,
         DOMAIN delta \subseteq Producers,
         \A p \in DOMAIN delta : delta[p] \in Int,
         Allocate(v, delta),
         marks' = [marks EXCEPT ![v] = Marks(list)],
         votes' \in [Voters -> Nat]
  PROVE  RowsInv'
<1>1. /\ producer' \in [Producers -> ProducerRow]
      /\ \A p \in Producers :
           /\ producer'[p].total = producer'[p].allocating + producer'[p].allocated
           /\ producer'[p].rpv = producer[p].rpv
  BY AllocateKeepsBooks
<1>2. /\ marks' = [w \in Voters |-> marks'[w]]
      /\ \A w \in Voters : \E l \in SUBSET Producers : marks'[w] \in [l -> Nat]
      /\ \A w \in Voters : \A p \in DOMAIN marks'[w] :
           marks'[w][p] <= producer'[p].rpv
  BY <1>1, SettledMarks
<1> QED  BY <1>1, <1>2 DEF RowsInv, RowsTypeOK, BooksBalance

-----------------------------------------------------------------------------
(* The handlers.                                                           *)

\* addvote and subvote
LEMMA ChangeVoteKeepsInv ==
  ASSUME RowsInv, NEW v \in Voters, NEW change \in Int, ChangeVote(v, change)
  PROVE  RowsInv'
<1> DEFINE list  == DOMAIN marks[v]
           delta == [p \in list |-> change]
<1>1. list \in SUBSET Producers
  BY DEF RowsInv, RowsTypeOK
<1>2. DOMAIN delta \subseteq Producers /\ \A p \in DOMAIN delta : delta[p] \in Int
  BY <1>1
<1>3. Allocate(v, delta) /\ marks' = [marks EXCEPT ![v] = Marks(list)]
  BY DEF ChangeVote
<1>4. votes' \in [Voters -> Nat]
  <2>1. votes \in [Voters -> Nat]
    BY DEF RowsInv, RowsTypeOK
  <2>2. votes[v] + change >= 0 /\ votes' = [votes EXCEPT ![v] = votes[v] + change]
    BY DEF ChangeVote, EnoughVotes
  <2>3. votes[v] + change \in Nat
    BY <2>1, <2>2
  <2> QED  BY <2>1, <2>2, <2>3
<1> HIDE DEF list, delta
<1> QED  BY <1>1, <1>2, <1>3, <1>4, SettlementKeepsInv

\* voteproducer
LEMMA VoteProducerKeepsInv ==
  ASSUME RowsInv, NEW v \in Voters, NEW list \in SUBSET Producers,
         RewardVoteProducer(v, list)
  PROVE  RowsInv'
<1> DEFINE both  == DOMAIN marks[v] \cup list
           delta == [p \in both |-> VotesMoved(v, p, list)]
<1>1. both \in SUBSET Producers
  BY DEF RowsInv, RowsTypeOK
<1>2. votes \in [Voters -> Nat] /\ votes[v] \in Nat
  BY DEF RowsInv, RowsTypeOK
<1>3. DOMAIN delta \subseteq Producers /\ \A p \in DOMAIN delta : delta[p] \in Int
  BY <1>1, <1>2 DEF VotesMoved
<1>4. /\ Allocate(v, delta) /\ marks' = [marks EXCEPT ![v] = Marks(list)]
      /\ votes' = votes
  BY DEF RewardVoteProducer
<1> HIDE DEF both, delta
<1> QED  BY <1>2, <1>3, <1>4, SettlementKeepsInv

\* claimrewards and claimfor
LEMMA ClaimKeepsInv ==
  ASSUME RowsInv, NEW v \in Voters, Claim(v)
  PROVE  RowsInv'
<1> DEFINE list  == DOMAIN marks[v]
           delta == [p \in list |-> 0]
<1>1. list \in SUBSET Producers
  BY DEF RowsInv, RowsTypeOK
<1>2. DOMAIN delta \subseteq Producers /\ \A p \in DOMAIN delta : delta[p] \in Int
  BY <1>1
<1>3. /\ Allocate(v, delta) /\ marks' = [marks EXCEPT ![v] = Marks(list)]
      /\ votes' = votes
  BY DEF Claim
<1>4. votes \in [Voters -> Nat]
  BY DEF RowsInv, RowsTypeOK
<1> HIDE DEF list, delta
<1> QED  BY <1>1, <1>2, <1>3, <1>4, SettlementKeepsInv

\* regproducer
LEMMA RegRewardKeepsInv ==
  ASSUME RowsInv, NEW p \in Producers, RegReward(p)
  PROVE  RowsInv'
<1>1. producer' \in [Producers -> ProducerRow]
  BY DEF RowsInv, RowsTypeOK, RegReward, ProducerRow
<1>2. \A q \in Producers : /\ producer'[q].total = producer[q].total
                           /\ producer'[q].allocating = producer[q].allocating
                           /\ producer'[q].allocated = producer[q].allocated
                           /\ producer'[q].rpv = producer[q].rpv
  BY DEF RowsInv, RowsTypeOK, RegReward, ProducerRow
<1>3. votes' = votes /\ marks' = marks
  BY DEF RegReward, voterTable
<1> QED  BY <1>1, <1>2, <1>3 DEF RowsInv, RowsTypeOK, BooksBalance

\* ontransfer
LEMMA OnTransferKeepsInv ==
  ASSUME RowsInv, NEW p \in Producers, NEW n \in Nat, OnTransfer(p, n)
  PROVE  RowsInv'
<1> DEFINE row == producer[p]
           new == Received(row, n)
<1>1. producer \in [Producers -> ProducerRow] /\ row \in ProducerRow
  BY DEF RowsInv, RowsTypeOK
<1>2. row.total = row.allocating + row.allocated
  BY DEF RowsInv, BooksBalance
<1>3. /\ new \in ProducerRow
      /\ new.total = new.allocating + new.allocated
      /\ new.rpv >= row.rpv
  BY <1>1, <1>2, ReceivedKeepsBooks
<1>4. votes' = votes /\ marks' = marks
  BY DEF OnTransfer, voterTable
<1>5. producer' = [producer EXCEPT ![p] = new]
  BY DEF OnTransfer
<1> HIDE DEF new
<1>6. producer' \in [Producers -> ProducerRow]
  BY <1>1, <1>3, <1>5
<1>7. ASSUME NEW q \in Producers
      PROVE  /\ producer'[q].total = producer'[q].allocating + producer'[q].allocated
             /\ producer'[q].rpv >= producer[q].rpv
  <2>1. CASE q = p
    BY <1>1, <1>3, <1>5, <2>1
  <2>2. CASE q # p
    BY <1>1, <1>5, <2>2 DEF RowsInv, BooksBalance, ProducerRow
  <2> QED  BY <2>1, <2>2
<1>8. ASSUME NEW w \in Voters, NEW q \in DOMAIN marks[w]
      PROVE  marks[w][q] <= producer'[q].rpv
  <2>1. q \in Producers /\ marks[w][q] \in Nat
    BY DEF RowsInv, RowsTypeOK
  <2>2. marks[w][q] <= producer[q].rpv
    BY DEF RowsInv, BooksBalance
  <2>3. producer[q].rpv \in Nat /\ producer'[q].rpv \in Nat
    BY <1>1, <1>6, <2>1 DEF ProducerRow
  <2> QED  BY <1>7, <2>1, <2>2, <2>3
<1> QED  BY <1>4, <1>6, <1>7, <1>8 DEF RowsInv, RowsTypeOK, BooksBalance

-----------------------------------------------------------------------------
(* The specification.                                                      *)

LEMMA InitEstablishesInv == RewardInit => RowsInv
<1> SUFFICES ASSUME RewardInit PROVE RowsInv
  OBVIOUS
<1>1. producer = [p \in Producers |-> NewProducer] /\ NewProducer \in ProducerRow
  BY DEF RewardInit, NewProducer, ProducerRow
<1>2. votes = [v \in Voters |-> 0] /\ marks = [v \in Voters |-> Marks({})]
  BY DEF RewardInit
<1>3. Marks({}) \in [{} -> Nat]
  BY DEF Marks
<1>4. RowsTypeOK
  BY <1>1, <1>2, <1>3 DEF RowsTypeOK
<1>5. BooksBalance
  BY <1>1, <1>2, <1>3 DEF BooksBalance, NewProducer
<1> QED  BY <1>4, <1>5 DEF RowsInv

LEMMA NextKeepsInv == RowsInv /\ [RewardNext]_<<rewardVars, bal>> => RowsInv'
<1> SUFFICES ASSUME RowsInv, [RewardNext]_<<rewardVars, bal>> PROVE RowsInv'
  OBVIOUS
<1>1. ASSUME NEW v \in Voters, CalledBySystem(v) PROVE RowsInv'
  <2>1. ASSUME NEW n \in 1 .. MaxVotes, RewardAddVote(v, n) PROVE RowsInv'
    BY <2>1, ChangeVoteKeepsInv DEF RewardAddVote
  <2>2. ASSUME NEW n \in 1 .. MaxVotes, RewardSubVote(v, n) PROVE RowsInv'
    <3>1. -n \in Int
      OBVIOUS
    <3> QED  BY <2>2, <3>1, ChangeVoteKeepsInv DEF RewardSubVote
  <2>3. ASSUME NEW list \in SUBSET Producers, RewardVoteProducer(v, list)
        PROVE  RowsInv'
    BY <2>3, VoteProducerKeepsInv
  <2> QED  BY <1>1, <2>1, <2>2, <2>3 DEF CalledBySystem
<1>2. ASSUME NEW v \in Voters, Claim(v) PROVE RowsInv'
  BY <1>2, ClaimKeepsInv
<1>3. ASSUME NEW p \in Producers, RegReward(p) PROVE RowsInv'
  BY <1>3, RegRewardKeepsInv
<1>4. ASSUME NEW p \in Producers, NEW n \in 1 .. bal[p], OnTransfer(p, n)
      PROVE  RowsInv'
  <2>1. n \in Nat
    OBVIOUS
  <2> QED  BY <1>4, <2>1, OnTransferKeepsInv
<1>5. CASE UNCHANGED <<rewardVars, bal>>
  BY <1>5 DEF rewardVars, voterTable, RowsInv, RowsTypeOK, BooksBalance
<1> QED  BY <1>1, <1>2, <1>3, <1>4, <1>5 DEF RewardNext

\* The rows of the contract are of their types in every reachable state.
THEOREM RewardRowsTyped == RewardSpec => []RowsTypeOK
<1>1. RowsInv => RowsTypeOK
  BY DEF RowsInv
<1> QED  BY <1>1, InitEstablishesInv, NextKeepsInv, PTL DEF RewardSpec

\* The books of every producer balance in every reachable state: neither
\* ASSERT(total_rewards == allocating_rewards + allocated_rewards) nor the
\* check "last_rewards_per_vote invalid" of allocate_producer_rewards fails.
THEOREM RewardBooksBalance == RewardSpec => []BooksBalance
<1>1. RowsInv => BooksBalance
  BY DEF RowsInv
<1> QED  BY <1>1, InitEstablishesInv, NextKeepsInv, PTL DEF RewardSpec

-----------------------------------------------------------------------------
(* What voters can claim.  A settlement of a voter, whichever handler does *)
(* it, is an Allocate for a set of producers that includes its old list    *)
(* and its new one, after which the voter is marked up to date.            *)

\* The votes each producer has in amax.reward are those its voters hold.
VotesAddUp ==
  \A p \in Producers : producer[p].votes = SumFunction([v \in Voters |-> HeldVotes(v, p)])

OwedInv == RowsInv /\ VotesAddUp /\ RewardsCovered

\* What a voter has accrued from a producer, before it is rounded down.
OwedFor(v, p) == HeldVotes(v, p) * RpvSince(v, p)
AllAccrued(v) == SumFunction([p \in Producers |-> Accrued(v, p)])

Settles(v, both, delta, list) ==
  /\ both \in SUBSET Producers /\ list \in SUBSET Producers
  /\ DOMAIN marks[v] \subseteq both /\ list \subseteq both
  /\ DOMAIN delta = both
  /\ Allocate(v, delta)
  /\ marks' = [marks EXCEPT ![v] = Marks(list)]
  /\ votes' \in [Voters -> Nat] /\ \A w \in Voters \ {v} : votes'[w] = votes[w]
  /\ \A p \in both : delta[p] = (IF p \in list THEN votes'[v] ELSE 0) - HeldVotes(v, p)

LEMMA Finite == IsFiniteSet(Voters) /\ IsFiniteSet(Producers) /\ Precision \in Nat /\ Precision > 0
BY RewardAssumption DEF RewardAssumption

\* addvote and subvote settle the list of the voter.
LEMMA ChangeVoteSettles ==
  ASSUME RowsInv, NEW v \in Voters, NEW change \in Int, ChangeVote(v, change)
  PROVE  Settles(v, DOMAIN marks[v], [p \in DOMAIN marks[v] |-> change], DOMAIN marks[v])
<1> DEFINE list == DOMAIN marks[v]
<1>1. list \in SUBSET Producers /\ votes \in [Voters -> Nat]
  BY DEF RowsInv, RowsTypeOK
<1>2. /\ Allocate(v, [p \in list |-> change]) /\ marks' = [marks EXCEPT ![v] = Marks(list)]
      /\ votes[v] + change >= 0 /\ votes' = [votes EXCEPT ![v] = votes[v] + change]
  BY DEF ChangeVote, EnoughVotes
<1>3. votes[v] + change \in Nat /\ votes'[v] = votes[v] + change
  BY <1>1, <1>2
<1>4. votes' \in [Voters -> Nat] /\ \A w \in Voters \ {v} : votes'[w] = votes[w]
  BY <1>1, <1>2, <1>3
<1>5. \A p \in list : change = votes'[v] - HeldVotes(v, p)
  BY <1>1, <1>3 DEF HeldVotes, InList
<1> QED  BY <1>1, <1>2, <1>4, <1>5 DEF Settles

\* voteproducer settles the producers of both lists.
LEMMA VoteProducerSettles ==
  ASSUME RowsInv, NEW v \in Voters, NEW list \in SUBSET Producers,
         RewardVoteProducer(v, list)
  PROVE  Settles(v, DOMAIN marks[v] \cup list,
                 [p \in DOMAIN marks[v] \cup list |-> VotesMoved(v, p, list)], list)
<1> DEFINE both == DOMAIN marks[v] \cup list
<1>1. both \in SUBSET Producers /\ votes \in [Voters -> Nat]
  BY DEF RowsInv, RowsTypeOK
<1>2. /\ Allocate(v, [p \in both |-> VotesMoved(v, p, list)])
      /\ marks' = [marks EXCEPT ![v] = Marks(list)] /\ votes' = votes
  BY DEF RewardVoteProducer
<1>3. \A p \in both : VotesMoved(v, p, list) = (IF p \in list THEN votes[v] ELSE 0) - HeldVotes(v, p)
  BY <1>1 DEF VotesMoved, HeldVotes, InList
<1> QED  BY <1>1, <1>2, <1>3 DEF Settles

\* claimrewards and claimfor settle the list of the voter.
LEMMA ClaimSettles ==
  ASSUME RowsInv, NEW v \in Voters, Claim(v)
  PROVE  Settles(v, DOMAIN marks[v], [p \in DOMAIN marks[v] |-> 0], DOMAIN marks[v])
<1> DEFINE list == DOMAIN marks[v]
<1>1. list \in SUBSET Producers /\ votes \in [Voters -> Nat]
  BY DEF RowsInv, RowsTypeOK
<1>2. /\ Allocate(v, [p \in list |-> 0]) /\ marks' = [marks EXCEPT ![v] = Marks(list)]
      /\ votes' = votes
  BY DEF Claim
<1>3. \A p \in list : 0 = votes[v] - HeldVotes(v, p)
  BY <1>1 DEF HeldVotes, InList
<1> QED  BY <1>1, <1>2, <1>3 DEF Settles

\* What is owed is an amount, and what accrues is no more than that.
LEMMA OwedIsNat ==
  ASSUME RowsInv, NEW v \in Voters, NEW p \in Producers
  PROVE  /\ HeldVotes(v, p) \in Nat /\ RpvSince(v, p) \in Nat /\ OwedFor(v, p) \in Nat
         /\ Accrued(v, p) \in Nat /\ Accrued(v, p) * Precision <= OwedFor(v, p)
         /\ (p \notin DOMAIN marks[v] => HeldVotes(v, p) = 0 /\ Accrued(v, p) = 0)
<1>1. HeldVotes(v, p) \in Nat /\ RpvSince(v, p) \in Int /\ Accrued(v, p) \in Nat
  BY AccruedIsNat DEF RowsInv
<1>2. producer[p].rpv \in Nat
  BY DEF RowsInv, RowsTypeOK, ProducerRow
<1>3. RpvSince(v, p) >= 0
  <2>1. PICK list \in SUBSET Producers : marks[v] \in [list -> Nat]
    BY DEF RowsInv, RowsTypeOK
  <2>2. CASE p \in DOMAIN marks[v]
    <3>1. marks[v][p] \in Nat /\ marks[v][p] <= producer[p].rpv
      BY <2>1, <2>2 DEF RowsInv, BooksBalance
    <3> QED  BY <1>2, <2>2, <3>1 DEF RpvSince, InList
  <2>3. CASE p \notin DOMAIN marks[v]
    BY <1>2, <2>3 DEF RpvSince, InList
  <2> QED  BY <2>2, <2>3
<1>4. OwedFor(v, p) \in Nat
  BY <1>1, <1>3, ProductIsNat DEF OwedFor
<1>5. Accrued(v, p) * Precision <= OwedFor(v, p)
  <2>1. CASE RpvSince(v, p) > 0
    <3>1. PICK owed \in Nat : owed = HeldVotes(v, p) * RpvSince(v, p)
      BY <1>4 DEF OwedFor
    <3>2. (owed \div Precision) * Precision <= owed
      BY Finite
    <3> QED  BY <2>1, <3>1, <3>2 DEF Accrued, OwedFor
  <2>2. CASE ~(RpvSince(v, p) > 0)
    <3>1. Accrued(v, p) = 0 /\ 0 * Precision = 0
      BY <2>2, Finite DEF Accrued
    <3> QED  BY <1>4, <3>1
  <2> QED  BY <2>1, <2>2
<1>6. p \notin DOMAIN marks[v] => HeldVotes(v, p) = 0 /\ Accrued(v, p) = 0
  <2>1. p \notin DOMAIN marks[v] => HeldVotes(v, p) = 0
    BY DEF HeldVotes, InList
  <2> QED  BY <2>1, AccruedIsNat DEF RowsInv
<1> QED  BY <1>1, <1>3, <1>4, <1>5, <1>6

\* Two columns over the voters, typed for the lemmas about sums.
LEMMA OwedColumns ==
  ASSUME RowsInv, NEW p \in Producers
  PROVE  /\ [w \in Voters |-> HeldVotes(w, p)] \in [Voters -> Int]
         /\ [w \in Voters |-> OwedFor(w, p)] \in [Voters -> Int]
<1>1. \A w \in Voters : HeldVotes(w, p) \in Int /\ OwedFor(w, p) \in Int
  BY OwedIsNat
<1> QED  BY <1>1

\* A settlement may look at more producers than the list: the others add
\* nothing.
LEMMA AccruedFromAll ==
  ASSUME RowsInv, NEW v \in Voters, NEW list \in SUBSET Producers, DOMAIN marks[v] \subseteq list
  PROVE  AccruedFrom(v, list) = AllAccrued(v) /\ AllAccrued(v) \in Nat
<1>1. PICK f \in [Producers -> Nat] : f = [p \in Producers |-> Accrued(v, p)]
  BY OwedIsNat
<1>2. PICK g \in [list -> Int] : g = [p \in list |-> Accrued(v, p)]
  <2>1. \A p \in list : Accrued(v, p) \in Int
    BY OwedIsNat
  <2> QED  BY <2>1
<1>3. /\ f \in [Producers -> Int] /\ \A p \in list : g[p] = f[p]
      /\ \A p \in Producers \ list : f[p] = 0
  BY <1>1, <1>2, OwedIsNat
<1>4. SumFunction(g) = SumFunction(f) /\ SumFunction(f) \in Nat
  BY <1>3, Finite, SumOfPart, SumNat
<1> QED  BY <1>1, <1>2, <1>4 DEF AccruedFrom, AllAccrued

\* What a settlement of v changes: the rows keep their types and books, the
\* other voters hold and are owed what they were, v is owed nothing any more,
\* and each producer has allocated what v had accrued.
LEMMA SettlementEffect ==
  ASSUME RowsInv, NEW v \in Voters, NEW both, NEW delta, NEW list, Settles(v, both, delta, list)
  PROVE  /\ RowsInv'
         /\ \A w \in Voters \ {v}, p \in Producers :
              /\ HeldVotes(w, p)' = HeldVotes(w, p) /\ RpvSince(w, p)' = RpvSince(w, p)
              /\ Accrued(w, p)' = Accrued(w, p)
         /\ \A p \in Producers :
              /\ HeldVotes(v, p)' = IF p \in list THEN votes'[v] ELSE 0
              /\ OwedFor(v, p)' = 0 /\ Accrued(v, p)' = 0
         /\ \A p \in Producers :
              /\ producer'[p].votes = producer[p].votes + (HeldVotes(v, p)' - HeldVotes(v, p))
              /\ producer'[p].allocating = producer[p].allocating - Accrued(v, p)
              /\ producer'[p].total = producer[p].total
<1>1. /\ both \in SUBSET Producers /\ list \in SUBSET Producers
      /\ DOMAIN marks[v] \subseteq both /\ list \subseteq both
      /\ DOMAIN delta = both /\ Allocate(v, delta)
      /\ marks' = [marks EXCEPT ![v] = Marks(list)]
      /\ votes' \in [Voters -> Nat] /\ \A w \in Voters \ {v} : votes'[w] = votes[w]
      /\ \A p \in both : delta[p] = (IF p \in list THEN votes'[v] ELSE 0) - HeldVotes(v, p)
  BY DEF Settles
<1>2. DOMAIN delta \subseteq Producers /\ \A p \in DOMAIN delta : delta[p] \in Int
  BY <1>1, OwedIsNat
<1>3. RowsInv'
  BY <1>1, <1>2, SettlementKeepsInv
<1>4. \A p \in Producers :
        /\ producer'[p].rpv = producer[p].rpv
        /\ producer'[p].votes = producer[p].votes + (IF p \in both THEN delta[p] ELSE 0)
        /\ producer'[p].total = producer[p].total
        /\ producer'[p].allocating = producer[p].allocating
                                     - (IF p \in both THEN Accrued(v, p) ELSE 0)
  BY <1>1, <1>2, AllocateKeepsBooks
<1>5. /\ marks'[v] = Marks(list) /\ DOMAIN marks'[v] = list
      /\ \A w \in Voters \ {v} : marks'[w] = marks[w]
  <2>1. marks = [w \in Voters |-> marks[w]]
    BY DEF RowsInv, RowsTypeOK
  <2> QED  BY <1>1, <2>1 DEF Marks
<1>6. ASSUME NEW w \in Voters \ {v}, NEW p \in Producers
      PROVE  /\ HeldVotes(w, p)' = HeldVotes(w, p) /\ RpvSince(w, p)' = RpvSince(w, p)
             /\ Accrued(w, p)' = Accrued(w, p)
  <2>1. HeldVotes(w, p)' = HeldVotes(w, p) /\ RpvSince(w, p)' = RpvSince(w, p)
    BY <1>1, <1>4, <1>5 DEF HeldVotes, RpvSince, InList
  <2> QED  BY <2>1 DEF Accrued
<1>7. ASSUME NEW p \in Producers
      PROVE  /\ HeldVotes(v, p)' = IF p \in list THEN votes'[v] ELSE 0
             /\ OwedFor(v, p)' = 0 /\ Accrued(v, p)' = 0
  <2>1. HeldVotes(v, p)' = IF p \in list THEN votes'[v] ELSE 0
    BY <1>5 DEF HeldVotes, InList
  <2>2. producer[p].rpv \in Nat /\ votes'[v] \in Nat
    BY <1>1 DEF RowsInv, RowsTypeOK, ProducerRow
  <2>3. CASE p \in list
    <3>1. RpvSince(v, p)' = 0
      BY <1>4, <1>5, <2>2, <2>3 DEF RpvSince, InList, Marks
    <3>2. votes'[v] * 0 = 0
      BY <2>2
    <3> QED  BY <2>1, <2>3, <3>1, <3>2 DEF OwedFor, Accrued
  <2>4. CASE p \notin list
    <3>1. HeldVotes(v, p)' = 0 /\ RpvSince(v, p)' = producer[p].rpv
      BY <1>4, <1>5, <2>1, <2>2, <2>4 DEF RpvSince, InList
    <3>2. 0 * producer[p].rpv = 0 /\ (0 * producer[p].rpv) \div Precision = 0
      BY <2>2, Finite, NothingOfNothing
    <3> QED  BY <2>1, <2>4, <3>1, <3>2 DEF OwedFor, Accrued
  <2> QED  BY <2>3, <2>4
<1>8. ASSUME NEW p \in Producers
      PROVE  /\ producer'[p].votes = producer[p].votes + (HeldVotes(v, p)' - HeldVotes(v, p))
             /\ producer'[p].allocating = producer[p].allocating - Accrued(v, p)
             /\ producer'[p].total = producer[p].total
  <2>1. CASE p \in both
    BY <1>1, <1>4, <1>7, <2>1
  <2>2. CASE p \notin both
    <3>1. HeldVotes(v, p) = 0 /\ Accrued(v, p) = 0
      BY <1>1, <2>2, OwedIsNat
    <3>2. HeldVotes(v, p)' = 0
      BY <1>1, <1>7, <2>2
    <3> QED  BY <1>4, <2>2, <3>1, <3>2
  <2> QED  BY <2>1, <2>2
<1> QED  BY <1>3, <1>6, <1>7, <1>8

\* The votes of a producer go on adding up, and what is owed goes on being
\* covered, since as much is allocated as v had accrued, rounded down.
LEMMA SettlementKeepsOwed ==
  ASSUME OwedInv, NEW v \in Voters, NEW both, NEW delta, NEW list, Settles(v, both, delta, list)
  PROVE  OwedInv'
<1>1. RowsInv /\ RowsInv' /\ votes' \in [Voters -> Nat]
  BY SettlementEffect DEF OwedInv, Settles
<1>2. ASSUME NEW p \in Producers
      PROVE  producer'[p].votes = SumFunction([w \in Voters |-> HeldVotes(w, p)])'
  <2>1. PICK f \in [Voters -> Int] : f = [w \in Voters |-> HeldVotes(w, p)]
    BY <1>1, OwedColumns
  <2>2. PICK g \in [Voters -> Int] : g = [w \in Voters |-> HeldVotes(w, p)']
    <3>1. \A w \in Voters : HeldVotes(w, p)' \in Int
      BY <1>1, OwedIsNat, SettlementEffect
    <3> QED  BY <3>1
  <2>3. \A w \in Voters \ {v} : g[w] = f[w]
    BY <1>1, <2>1, <2>2, SettlementEffect
  <2>4. SumFunction(g) = SumFunction(f) - f[v] + g[v]
    BY <2>3, Finite, SumChange
  <2>5. producer[p].votes = SumFunction(f)
    BY <2>1 DEF OwedInv, VotesAddUp
  <2>6. producer'[p].votes = producer[p].votes + (g[v] - f[v])
    BY <1>1, <2>1, <2>2, SettlementEffect
  <2>7. producer[p].votes \in Int /\ f[v] \in Int /\ g[v] \in Int
    BY <1>1 DEF RowsInv, RowsTypeOK, ProducerRow
  <2>8. producer'[p].votes = SumFunction(g)
    BY <2>4, <2>5, <2>6, <2>7
  <2> QED  BY <2>2, <2>8
<1>3. ASSUME NEW p \in Producers
      PROVE  SumFunction([w \in Voters |-> OwedFor(w, p)])' <= producer'[p].allocating * Precision
  <2>1. PICK f \in [Voters -> Int] : f = [w \in Voters |-> OwedFor(w, p)]
    BY <1>1, OwedColumns
  <2>2. /\ \A w \in Voters \ {v} : OwedFor(w, p)' = OwedFor(w, p)
        /\ OwedFor(v, p)' = 0
    BY <1>1, SettlementEffect DEF OwedFor
  <2>3. PICK g \in [Voters -> Int] : g = [w \in Voters |-> OwedFor(w, p)']
    <3>1. \A w \in Voters : OwedFor(w, p)' \in Int
      BY <1>1, <2>2, OwedIsNat
    <3> QED  BY <3>1
  <2>4. g[v] = 0 /\ \A w \in Voters \ {v} : g[w] = f[w]
    BY <2>1, <2>2, <2>3
  <2>5. SumFunction(g) = SumFunction(f) - f[v] + 0
    BY <2>4, Finite, SumChange
  <2>6. SumFunction(f) <= producer[p].allocating * Precision
    BY <2>1 DEF OwedInv, RewardsCovered, OwedFor
  <2>7. PICK accrued \in Nat : accrued = Accrued(v, p)
    BY <1>1, OwedIsNat
  <2>8. PICK before \in Nat : before = producer[p].allocating
    BY <1>1 DEF RowsInv, RowsTypeOK, ProducerRow
  <2>9. producer'[p].allocating = before - accrued
    BY <1>1, <2>7, <2>8, SettlementEffect
  <2>10. accrued * Precision <= f[v]
    BY <1>1, <2>1, <2>7, OwedIsNat
  <2>11. (before - accrued) * Precision = before * Precision - accrued * Precision
    BY Finite
  <2>12. SumFunction(f) \in Int /\ f[v] \in Int
    BY Finite, SumInt
  <2>13. before * Precision \in Nat /\ accrued * Precision \in Nat
    BY Finite, ProductIsNat
  <2>14. SumFunction(g) <= (before - accrued) * Precision
    BY <2>5, <2>6, <2>8, <2>10, <2>11, <2>12, <2>13
  <2> QED  BY <2>3, <2>9, <2>14
<1> QED  BY <1>1, <1>2, <1>3 DEF OwedInv, VotesAddUp, RewardsCovered, OwedFor

\* What is left to allocate falls, over all producers, by all v had accrued.
LEMMA SettlementAllocates ==
  ASSUME RowsInv, NEW v \in Voters, NEW both, NEW delta, NEW list, Settles(v, both, delta, list)
  PROVE  /\ SumFunction([p \in Producers |-> producer[p].allocating]) \in Nat
         /\ SumFunction([p \in Producers |-> producer'[p].allocating])
              = SumFunction([p \in Producers |-> producer[p].allocating]) - AllAccrued(v)
<1>1. PICK f \in [Producers -> Nat] : f = [p \in Producers |-> producer[p].allocating]
  BY DEF RowsInv, RowsTypeOK, ProducerRow
<1>2. RowsInv'
  BY SettlementEffect
<1>3. PICK g \in [Producers -> Nat] : g = [p \in Producers |-> producer'[p].allocating]
  BY <1>2 DEF RowsInv, RowsTypeOK, ProducerRow
<1>4. PICK a \in [Producers -> Nat] : a = [p \in Producers |-> Accrued(v, p)]
  BY OwedIsNat
<1>5. \A p \in Producers : f[p] = g[p] + a[p]
  BY <1>1, <1>3, <1>4, SettlementEffect
<1>6. f \in [Producers -> Int] /\ g \in [Producers -> Int] /\ a \in [Producers -> Int]
  OBVIOUS
<1>7. SumFunction(f) = SumFunction(g) + SumFunction(a)
  BY <1>5, <1>6, Finite, SumPlus
<1>8. SumFunction(f) \in Nat /\ SumFunction(g) \in Nat /\ SumFunction(a) \in Nat
  BY Finite, SumNat
<1> QED  BY <1>1, <1>3, <1>4, <1>7, <1>8 DEF AllAccrued

\* A payment of n raises what is owed by n at most, the part of each vote being
\* rounded down.
LEMMA PaymentKeepsOwed ==
  ASSUME OwedInv, NEW p \in Producers, NEW n \in Nat, OnTransfer(p, n)
  PROVE  /\ OwedInv'
         /\ \A w \in Voters, q \in Producers :
              /\ HeldVotes(w, q)' = HeldVotes(w, q)
              /\ RpvSince(w, q)' >= RpvSince(w, q)
              /\ q # p => RpvSince(w, q)' = RpvSince(w, q)
         /\ \A q \in Producers : producer'[q].allocating
                                   = producer[q].allocating + (IF q = p THEN n ELSE 0)
         /\ producer'[p].total = producer[p].total + n
<1>1. RowsInv /\ RowsInv'
  BY OnTransferKeepsInv DEF OwedInv
<1> DEFINE row == producer[p]
           per == PerVote(n, row.votes)
<1>2. /\ row.votes \in Nat /\ row.allocating \in Nat /\ row.rpv \in Nat /\ row.total \in Nat
      /\ producer \in [Producers -> ProducerRow]
  BY <1>1 DEF RowsInv, RowsTypeOK, ProducerRow
<1>3. per \in Nat /\ per * row.votes <= n * Precision
  <2>1. n * Precision \in Nat
    BY Finite, ProductIsNat
  <2>2. CASE row.votes > 0
    <3>1. PICK paid \in Nat, all \in Nat : paid = n * Precision /\ all = row.votes
      BY <1>2, <2>1
    <3>2. paid \div all \in Nat /\ (paid \div all) * all <= paid
      BY <2>2, <3>1
    <3> QED  BY <2>2, <3>1, <3>2 DEF PerVote
  <2>3. CASE ~(row.votes > 0)
    BY <1>2, <2>1, <2>3 DEF PerVote
  <2> QED  BY <2>2, <2>3
<1>4. /\ producer'[p].votes = row.votes /\ producer'[p].allocating = row.allocating + n
      /\ producer'[p].total = row.total + n /\ producer'[p].rpv = row.rpv + per
      /\ \A q \in Producers \ {p} : producer'[q] = producer[q]
      /\ votes' = votes /\ marks' = marks
  <2>1. /\ producer' = [producer EXCEPT ![p] = Received(row, n)]
        /\ votes' = votes /\ marks' = marks
    BY DEF OnTransfer, voterTable
  <2> HIDE DEF per
  <2>2. /\ Received(row, n).votes = row.votes /\ Received(row, n).allocating = row.allocating + n
        /\ Received(row, n).total = row.total + n /\ Received(row, n).rpv = row.rpv + per
    BY <1>2 DEF Received, ProducerRow, per
  <2> QED  BY <1>2, <2>1, <2>2
<1> HIDE DEF per
<1>5. ASSUME NEW w \in Voters, NEW q \in Producers
      PROVE  /\ HeldVotes(w, q)' = HeldVotes(w, q)
             /\ RpvSince(w, q)' = RpvSince(w, q) + (IF q = p THEN per ELSE 0)
  <2>1. HeldVotes(w, q)' = HeldVotes(w, q)
    BY <1>4 DEF HeldVotes, InList
  <2>2. RpvSince(w, q) \in Nat
    BY <1>1, OwedIsNat
  <2>3. CASE q = p
    <3>1. marks'[w] = marks[w] /\ producer'[q].rpv = producer[q].rpv + per
      BY <1>4, <2>3
    <3>2. PICK mark : mark = IF q \in DOMAIN marks[w] THEN marks[w][q] ELSE 0
      OBVIOUS
    <3>3. mark \in Int
      <4>1. PICK list \in SUBSET Producers : marks[w] \in [list -> Nat]
        BY <1>1 DEF RowsInv, RowsTypeOK
      <4> QED  BY <3>2, <4>1
    <3>4. RpvSince(w, q) = producer[q].rpv - mark /\ RpvSince(w, q)' = producer'[q].rpv - mark
      BY <3>1, <3>2 DEF RpvSince, InList
    <3> QED  BY <1>2, <1>3, <2>1, <2>3, <3>1, <3>3, <3>4
  <2>4. CASE q # p
    <3>1. RpvSince(w, q)' = RpvSince(w, q)
      BY <1>4, <2>4 DEF RpvSince, InList
    <3> QED  BY <2>1, <2>2, <2>4, <3>1
  <2> QED  BY <2>3, <2>4
<1>6. VotesAddUp'
  <2>1. ASSUME NEW q \in Producers
        PROVE  producer'[q].votes = SumFunction([w \in Voters |-> HeldVotes(w, q)'])
    <3>1. [w \in Voters |-> HeldVotes(w, q)'] = [w \in Voters |-> HeldVotes(w, q)]
      BY <1>5
    <3>2. producer'[q].votes = producer[q].votes
      BY <1>4
    <3> QED  BY <3>1, <3>2 DEF OwedInv, VotesAddUp
  <2> QED  BY <2>1 DEF VotesAddUp
<1>7. ASSUME NEW q \in Producers
      PROVE  SumFunction([w \in Voters |-> OwedFor(w, q)'])
               <= producer'[q].allocating * Precision
  <2>1. CASE q # p
    <3>1. [w \in Voters |-> OwedFor(w, q)'] = [w \in Voters |-> OwedFor(w, q)]
      <4>1. \A w \in Voters : OwedFor(w, q)' = OwedFor(w, q)
        <5> SUFFICES ASSUME NEW w \in Voters PROVE OwedFor(w, q)' = OwedFor(w, q)
          OBVIOUS
        <5>1. RpvSince(w, q) \in Nat
          BY <1>1, OwedIsNat
        <5> QED  BY <1>5, <2>1, <5>1 DEF OwedFor
      <4> QED  BY <4>1
    <3>2. producer'[q].allocating = producer[q].allocating
      BY <1>4, <2>1
    <3>3. SumFunction([w \in Voters |-> OwedFor(w, q)]) <= producer[q].allocating * Precision
      BY DEF OwedInv, RewardsCovered, OwedFor
    <3> QED  BY <3>1, <3>2, <3>3
  <2>2. CASE q = p
    <3>1. PICK f \in [Voters -> Int] : f = [w \in Voters |-> HeldVotes(w, p)]
      BY <1>1, OwedColumns
    <3>2. PICK g \in [Voters -> Int] : g = [w \in Voters |-> OwedFor(w, p)]
      BY <1>1, OwedColumns
    <3>3. \A w \in Voters : OwedFor(w, p)' = per * f[w] + g[w]
      <4> SUFFICES ASSUME NEW w \in Voters PROVE OwedFor(w, p)' = per * f[w] + g[w]
        OBVIOUS
      <4>1. HeldVotes(w, p)' = f[w] /\ RpvSince(w, p)' = RpvSince(w, p) + per
        BY <1>5, <3>1
      <4>2. f[w] \in Int /\ RpvSince(w, p) \in Int /\ f[w] = HeldVotes(w, p)
        BY <1>1, <3>1, OwedIsNat
      <4>3. f[w] * (RpvSince(w, p) + per) = per * f[w] + f[w] * RpvSince(w, p)
        BY <1>3, <4>2
      <4> QED  BY <3>2, <4>1, <4>2, <4>3 DEF OwedFor
    <3>4. PICK h \in [Voters -> Int] : h = [w \in Voters |-> OwedFor(w, p)']
      <4>1. \A w \in Voters : per * f[w] + g[w] \in Int
        BY <1>3
      <4> QED  BY <3>3, <4>1
    <3>5. SumFunction(h) = per * SumFunction(f) + SumFunction(g)
      BY <1>3, <3>3, <3>4, Finite, SumLinear
    <3>6. SumFunction(f) = row.votes /\ SumFunction(g) <= row.allocating * Precision
      BY <3>1, <3>2 DEF OwedInv, VotesAddUp, RewardsCovered, OwedFor
    <3>7. (row.allocating + n) * Precision = row.allocating * Precision + n * Precision
      BY <1>2, Finite
    <3>8. /\ SumFunction(g) \in Int /\ per * row.votes \in Nat
          /\ row.allocating * Precision \in Nat /\ n * Precision \in Nat
      BY <1>2, <1>3, Finite, SumInt, ProductIsNat
    <3>9. SumFunction(h) <= (row.allocating + n) * Precision
      BY <1>3, <3>5, <3>6, <3>7, <3>8
    <3> QED  BY <1>4, <2>2, <3>4, <3>9
  <2> QED  BY <2>1, <2>2
<1>8. RewardsCovered'
  BY <1>7 DEF RewardsCovered, OwedFor
<1>9. \A q \in Producers : producer'[q].allocating
                             = producer[q].allocating + (IF q = p THEN n ELSE 0)
  <2>1. \A q \in Producers : producer[q].allocating \in Nat
    BY <1>1 DEF RowsInv, RowsTypeOK, ProducerRow
  <2> QED  BY <1>4, <2>1
<1>10. \A w \in Voters, q \in Producers :
         /\ HeldVotes(w, q)' = HeldVotes(w, q)
         /\ RpvSince(w, q)' >= RpvSince(w, q)
         /\ q # p => RpvSince(w, q)' = RpvSince(w, q)
  <2> SUFFICES ASSUME NEW w \in Voters, NEW q \in Producers
               PROVE  /\ HeldVotes(w, q)' = HeldVotes(w, q)
                      /\ RpvSince(w, q)' >= RpvSince(w, q)
                      /\ q # p => RpvSince(w, q)' = RpvSince(w, q)
    OBVIOUS
  <2>1. RpvSince(w, q) \in Nat
    BY <1>1, OwedIsNat
  <2> QED  BY <1>3, <1>5, <2>1
<1> QED  BY <1>1, <1>4, <1>6, <1>8, <1>9, <1>10 DEF OwedInv

\* What leaves votes, marks and rows alone, but for the registration
LEMMA OthersKeepOwed ==
  ASSUME OwedInv, RowsInv', votes' = votes, marks' = marks,
         \A p \in Producers : /\ producer'[p].votes = producer[p].votes
                              /\ producer'[p].allocating = producer[p].allocating
                              /\ producer'[p].rpv = producer[p].rpv
  PROVE  /\ OwedInv'
         /\ \A v \in Voters, p \in Producers : Accrued(v, p)' = Accrued(v, p)
<1>1. \A v \in Voters, p \in Producers :
        HeldVotes(v, p)' = HeldVotes(v, p) /\ RpvSince(v, p)' = RpvSince(v, p)
  BY DEF HeldVotes, RpvSince, InList
<1>2. VotesAddUp'
  <2>1. \A p \in Producers : [v \in Voters |-> HeldVotes(v, p)'] = [v \in Voters |-> HeldVotes(v, p)]
    BY <1>1
  <2> QED  BY <2>1 DEF OwedInv, VotesAddUp
<1>3. RewardsCovered'
  <2>1. \A p \in Producers : [v \in Voters |-> HeldVotes(v, p)' * RpvSince(v, p)']
                               = [v \in Voters |-> HeldVotes(v, p) * RpvSince(v, p)]
    BY <1>1
  <2> QED  BY <2>1 DEF OwedInv, RewardsCovered
<1> QED  BY <1>1, <1>2, <1>3 DEF OwedInv, Accrued

\* A settlement looks at the producers of the list only, before a step and
\* after it.
LEMMA AccruedInList ==
  RowsInv => \A v \in Voters : /\ AccruedFrom(v, DOMAIN marks[v]) = AllAccrued(v)
                               /\ AllAccrued(v) \in Nat
<1> SUFFICES ASSUME RowsInv, NEW v \in Voters
             PROVE  AccruedFrom(v, DOMAIN marks[v]) = AllAccrued(v) /\ AllAccrued(v) \in Nat
  OBVIOUS
<1>1. DOMAIN marks[v] \in SUBSET Producers
  BY DEF RowsInv, RowsTypeOK
<1> QED  BY <1>1, AccruedFromAll

LEMMA AccruedInListAfter ==
  (RowsInv => \A v \in Voters : /\ AccruedFrom(v, DOMAIN marks[v]) = AllAccrued(v)
                                /\ AllAccrued(v) \in Nat)'
BY AccruedInList, PTL

-----------------------------------------------------------------------------
(* The money of the contract, and what voters have earned.                 *)

RewardInv == OwedInv /\ RewardTypeOK /\ Solvent

\* What no step may do to a voter: EarnedByPaymentsOnly, of one step.
EarnedStep ==
  \A v \in Voters :
    /\ Earned(v)' >= Earned(v)
    /\ Earned(v)' > Earned(v) =>
         \E p \in DOMAIN marks[v] : producer'[p].total > producer[p].total

Allocating == [p \in Producers |-> producer[p].allocating]

LEMMA AccountsApart ==
  /\ Reward \in Accounts /\ Voters \subseteq Accounts /\ Producers \subseteq Accounts
  /\ Reward \notin Voters /\ Reward \notin Producers
  /\ Funds \in [Accounts -> Nat]
BY RewardAssumption DEF RewardAssumption, Accounts

\* A transfer between two accounts, one of which has enough.
LEMMA PaidIsTyped ==
  ASSUME bal \in [Accounts -> Nat], NEW a \in Accounts, NEW b \in Accounts, a # b,
         NEW n \in Nat, bal[a] >= n
  PROVE  /\ Paid(a, b, n) \in [Accounts -> Nat]
         /\ Paid(a, b, n)[a] = bal[a] - n /\ Paid(a, b, n)[b] = bal[b] + n
         /\ \A c \in Accounts \ {a, b} : Paid(a, b, n)[c] = bal[c]
<1>1. bal[a] - n \in Nat /\ bal[b] + n \in Nat
  OBVIOUS
<1> QED  BY <1>1 DEF Paid

\* What a voter has earned, in terms of all producers.
LEMMA EarnedIsSum ==
  RewardInv => \A v \in Voters : /\ Earned(v) = claimed[v] + unclaimed[v] + AllAccrued(v)
                                 /\ Due(v) = unclaimed[v] + AllAccrued(v)
                                 /\ AllAccrued(v) \in Nat
                                 /\ claimed[v] \in Nat /\ unclaimed[v] \in Nat
<1> SUFFICES ASSUME RewardInv, NEW v \in Voters
             PROVE  /\ Earned(v) = claimed[v] + unclaimed[v] + AllAccrued(v)
                    /\ Due(v) = unclaimed[v] + AllAccrued(v)
                    /\ AllAccrued(v) \in Nat
                    /\ claimed[v] \in Nat /\ unclaimed[v] \in Nat
  OBVIOUS
<1>1. AccruedFrom(v, DOMAIN marks[v]) = AllAccrued(v) /\ AllAccrued(v) \in Nat
  BY AccruedInList DEF RewardInv, OwedInv
<1>2. claimed[v] \in Nat /\ unclaimed[v] \in Nat
  BY DEF RewardInv, RewardTypeOK
<1> QED  BY <1>1, <1>2 DEF Earned, Due

LEMMA EarnedIsSumAfter ==
  (RewardInv => \A v \in Voters : /\ Earned(v) = claimed[v] + unclaimed[v] + AllAccrued(v)
                                  /\ Due(v) = unclaimed[v] + AllAccrued(v)
                                  /\ AllAccrued(v) \in Nat
                                  /\ claimed[v] \in Nat /\ unclaimed[v] \in Nat)'
BY EarnedIsSum, PTL

\* The claim that the sums of the two columns of Solvent make.
LEMMA SolventSums ==
  ASSUME RewardInv
  PROVE  /\ Allocating \in [Producers -> Int] /\ unclaimed \in [Voters -> Int]
         /\ SumFunction(Allocating) \in Nat /\ SumFunction(unclaimed) \in Nat
         /\ bal[Reward] = Funds[Reward] + SumFunction(Allocating) + SumFunction(unclaimed)
         /\ Funds[Reward] \in Nat
<1>1. Allocating \in [Producers -> Nat] /\ unclaimed \in [Voters -> Nat]
  BY DEF RewardInv, RewardTypeOK, RowsTypeOK, ProducerRow, Allocating
<1>2. unclaimed = [v \in Voters |-> unclaimed[v]]
  BY <1>1
<1>3. bal[Reward] = Funds[Reward] + SumFunction(Allocating) + SumFunction(unclaimed)
  BY <1>2 DEF RewardInv, Solvent, Allocating
<1>4. Allocating \in [Producers -> Int] /\ unclaimed \in [Voters -> Int]
  BY <1>1
<1>5. SumFunction(Allocating) \in Nat /\ SumFunction(unclaimed) \in Nat
  BY <1>1, Finite, SumNat
<1> QED  BY <1>3, <1>4, <1>5, AccountsApart

\* A settlement of v moves what v had accrued from what is to be allocated to
\* what v has not claimed, or pays it out with the rest; neither changes what
\* anybody has earned.
LEMMA SettlementKeepsMoney ==
  ASSUME RewardInv, NEW v \in Voters, NEW both, NEW delta, NEW list, Settles(v, both, delta, list),
         bal' \in [Accounts -> Nat],
         NEW paid \in Nat, NEW left \in Nat,
         left + paid = unclaimed[v] + AllAccrued(v),
         unclaimed' = [unclaimed EXCEPT ![v] = left],
         claimed' = [claimed EXCEPT ![v] = claimed[v] + paid],
         bal'[Reward] = bal[Reward] - paid
  PROVE  RewardInv' /\ EarnedStep
<1>1. OwedInv' /\ RowsInv
  BY SettlementKeepsOwed DEF RewardInv, OwedInv
<1>2. /\ unclaimed \in [Voters -> Nat] /\ claimed \in [Voters -> Nat]
      /\ unclaimed' \in [Voters -> Nat] /\ claimed' \in [Voters -> Nat]
      /\ unclaimed'[v] = left /\ claimed'[v] = claimed[v] + paid
      /\ \A w \in Voters \ {v} : unclaimed'[w] = unclaimed[w] /\ claimed'[w] = claimed[w]
  BY DEF RewardInv, RewardTypeOK
<1>3. RewardTypeOK'
  BY <1>1, <1>2 DEF RewardTypeOK, OwedInv, RowsInv
<1>4. SumFunction(unclaimed') = SumFunction(unclaimed) - unclaimed[v] + left
  <2>1. PICK f \in [Voters -> Int], g \in [Voters -> Int] : f = unclaimed /\ g = unclaimed'
    <3>1. unclaimed \in [Voters -> Int] /\ unclaimed' \in [Voters -> Int]
      BY <1>2
    <3> QED  BY <3>1
  <2>2. g[v] = left /\ \A w \in Voters \ {v} : g[w] = f[w]
    BY <1>2, <2>1
  <2>3. SumFunction(g) = SumFunction(f) - f[v] + g[v]
    BY <2>2, Finite, SumChange
  <2> QED  BY <2>1, <2>2, <2>3
<1>5. SumFunction(Allocating') = SumFunction(Allocating) - AllAccrued(v)
  BY <1>1, SettlementAllocates DEF Allocating
<1>6. AllAccrued(v) \in Nat /\ unclaimed[v] \in Nat
  BY EarnedIsSum
<1>7. bal'[Reward] = Funds[Reward] + SumFunction(Allocating') + SumFunction(unclaimed')
  BY <1>4, <1>5, <1>6, SolventSums
<1>8. Solvent'
  <2>1. unclaimed' = [w \in Voters |-> unclaimed'[w]]
    BY <1>2
  <2> QED  BY <1>7, <2>1 DEF Solvent, Allocating
<1>9. RewardInv'
  BY <1>1, <1>3, <1>8 DEF RewardInv
<1>10. ASSUME NEW w \in Voters PROVE Earned(w)' = Earned(w) /\ Earned(w) \in Nat
  <2>1. Earned(w)' = claimed'[w] + unclaimed'[w] + AllAccrued(w)'
    BY <1>9, EarnedIsSumAfter
  <2>2. /\ Earned(w) = claimed[w] + unclaimed[w] + AllAccrued(w)
        /\ AllAccrued(w) \in Nat /\ claimed[w] \in Nat /\ unclaimed[w] \in Nat
    BY EarnedIsSum
  <2>3. CASE w = v
    <3>1. AllAccrued(v)' = 0
      <4>1. PICK f \in [Producers -> Int] : f = [p \in Producers |-> 0]
        <5>1. [p \in Producers |-> 0] \in [Producers -> Int]
          OBVIOUS
        <5> QED  BY <5>1
      <4>2. [p \in Producers |-> Accrued(v, p)'] = f
        BY <1>1, <4>1, SettlementEffect
      <4>3. SumFunction(f) = 0
        BY <4>1, Finite, SumZero
      <4> QED  BY <4>2, <4>3 DEF AllAccrued
    <3> QED  BY <1>2, <2>1, <2>2, <2>3, <3>1
  <2>4. CASE w # v
    <3>1. [p \in Producers |-> Accrued(w, p)'] = [p \in Producers |-> Accrued(w, p)]
      BY <1>1, <2>4, SettlementEffect
    <3>2. AllAccrued(w)' = AllAccrued(w)
      BY <3>1 DEF AllAccrued
    <3> QED  BY <1>2, <2>1, <2>2, <2>4, <3>2
  <2> QED  BY <2>3, <2>4
<1>11. EarnedStep
  BY <1>10 DEF EarnedStep
<1> QED  BY <1>9, <1>11

\* addvote, subvote and voteproducer, whatever amax.system moves between
\* other accounts
LEMMA CallKeepsMoney ==
  ASSUME RewardInv, NEW v \in Voters, bal' \in [Accounts -> Nat], bal'[Reward] = bal[Reward],
         \/ \E change \in Int : ChangeVote(v, change)
         \/ \E list \in SUBSET Producers : RewardVoteProducer(v, list)
  PROVE  RewardInv' /\ EarnedStep
<1>1. RowsInv
  BY DEF RewardInv, OwedInv
<1>2. PICK both, delta, list :
        /\ both \in SUBSET Producers
        /\ Settles(v, both, delta, list)
        /\ unclaimed' = [unclaimed EXCEPT ![v] = @ + AccruedFrom(v, both)]
        /\ claimed' = claimed
  <2>1. ASSUME NEW change \in Int, ChangeVote(v, change)
        PROVE  \E both, delta, list :
                 /\ both \in SUBSET Producers
                 /\ Settles(v, both, delta, list)
                 /\ unclaimed' = [unclaimed EXCEPT ![v] = @ + AccruedFrom(v, both)]
                 /\ claimed' = claimed
    <3>1. Settles(v, DOMAIN marks[v], [p \in DOMAIN marks[v] |-> change], DOMAIN marks[v])
      BY <1>1, <2>1, ChangeVoteSettles
    <3>2. /\ unclaimed' = [unclaimed EXCEPT ![v] = @ + AccruedFrom(v, DOMAIN marks[v])]
          /\ claimed' = claimed /\ DOMAIN marks[v] \in SUBSET Producers
      BY <1>1, <2>1 DEF ChangeVote, RowsInv, RowsTypeOK
    <3> QED  BY <3>1, <3>2
  <2>2. ASSUME NEW list \in SUBSET Producers, RewardVoteProducer(v, list)
        PROVE  \E both, delta, l :
                 /\ both \in SUBSET Producers
                 /\ Settles(v, both, delta, l)
                 /\ unclaimed' = [unclaimed EXCEPT ![v] = @ + AccruedFrom(v, both)]
                 /\ claimed' = claimed
    <3> DEFINE union == DOMAIN marks[v] \cup list
    <3>1. Settles(v, union, [p \in union |-> VotesMoved(v, p, list)], list)
      BY <1>1, <2>2, VoteProducerSettles
    <3>2. /\ unclaimed' = [unclaimed EXCEPT ![v] = @ + AccruedFrom(v, union)]
          /\ claimed' = claimed /\ union \in SUBSET Producers
      BY <1>1, <2>2 DEF RewardVoteProducer, RowsInv, RowsTypeOK
    <3> QED  BY <3>1, <3>2
  <2> QED  BY <2>1, <2>2
<1>3. AccruedFrom(v, both) = AllAccrued(v)
  BY <1>1, <1>2, AccruedFromAll DEF Settles
<1>4. PICK left \in Nat : left = unclaimed[v] + AllAccrued(v)
  BY EarnedIsSum
<1>5. /\ unclaimed' = [unclaimed EXCEPT ![v] = left]
      /\ claimed' = [claimed EXCEPT ![v] = claimed[v] + 0]
      /\ bal'[Reward] = bal[Reward] - 0 /\ left + 0 = unclaimed[v] + AllAccrued(v) /\ 0 \in Nat
  <2>1. claimed \in [Voters -> Nat] /\ bal \in [Accounts -> Nat]
    BY DEF RewardInv, RewardTypeOK
  <2>2. claimed[v] + 0 = claimed[v] /\ bal[Reward] - 0 = bal[Reward]
    BY <2>1, AccountsApart
  <2>3. claimed = [claimed EXCEPT ![v] = claimed[v]]
    BY <2>1
  <2>4. unclaimed' = [unclaimed EXCEPT ![v] = left]
    BY <1>2, <1>3, <1>4
  <2>5. left + 0 = left
    OBVIOUS
  <2> QED  BY <1>2, <1>4, <2>2, <2>3, <2>4, <2>5
<1> QED  BY <1>2, <1>5, SettlementKeepsMoney

LEMMA ClaimKeepsMoney ==
  ASSUME RewardInv, NEW v \in Voters, Claim(v)
  PROVE  RewardInv' /\ EarnedStep
<1>1. RowsInv
  BY DEF RewardInv, OwedInv
<1>2. Settles(v, DOMAIN marks[v], [p \in DOMAIN marks[v] |-> 0], DOMAIN marks[v])
  BY <1>1, ClaimSettles
<1>3. PICK due \in Nat : due = Due(v) /\ due = unclaimed[v] + AllAccrued(v)
  BY EarnedIsSum
<1>4. /\ bal' = Paid(Reward, v, due) /\ bal[Reward] >= due
      /\ unclaimed' = [unclaimed EXCEPT ![v] = 0]
      /\ claimed' = [claimed EXCEPT ![v] = claimed[v] + due]
  BY <1>3 DEF Claim, CanPay
<1>5. bal' \in [Accounts -> Nat] /\ bal'[Reward] = bal[Reward] - due
  <2>1. bal \in [Accounts -> Nat] /\ v \in Accounts /\ Reward \in Accounts /\ v # Reward
    BY AccountsApart DEF RewardInv, RewardTypeOK
  <2> QED  BY <1>4, <2>1, PaidIsTyped
<1>6. 0 + due = unclaimed[v] + AllAccrued(v) /\ 0 \in Nat
  BY <1>3
<1> QED  BY <1>2, <1>4, <1>5, <1>6, SettlementKeepsMoney

\* What accrues is what is owed, in whole units.
LEMMA AccruedIsQuotient ==
  RowsInv => \A v \in Voters, p \in Producers :
               /\ Accrued(v, p) = OwedFor(v, p) \div Precision
               /\ Accrued(v, p) \in Nat /\ OwedFor(v, p) \in Nat
<1> SUFFICES ASSUME RowsInv, NEW v \in Voters, NEW p \in Producers
             PROVE  /\ Accrued(v, p) = OwedFor(v, p) \div Precision
                    /\ Accrued(v, p) \in Nat /\ OwedFor(v, p) \in Nat
  OBVIOUS
<1>1. /\ HeldVotes(v, p) \in Nat /\ RpvSince(v, p) \in Nat
      /\ Accrued(v, p) \in Nat /\ OwedFor(v, p) \in Nat
  BY OwedIsNat
<1>2. CASE RpvSince(v, p) > 0
  BY <1>1, <1>2 DEF Accrued, OwedFor
<1>3. CASE ~(RpvSince(v, p) > 0)
  <2>1. RpvSince(v, p) = 0 /\ HeldVotes(v, p) * 0 = 0 /\ 0 \div Precision = 0
    BY <1>1, <1>3, Finite
  <2> QED  BY <1>1, <2>1 DEF Accrued, OwedFor
<1> QED  BY <1>2, <1>3

LEMMA AccruedIsQuotientAfter ==
  (RowsInv => \A v \in Voters, p \in Producers :
                /\ Accrued(v, p) = OwedFor(v, p) \div Precision
                /\ Accrued(v, p) \in Nat /\ OwedFor(v, p) \in Nat)'
BY AccruedIsQuotient, PTL

LEMMA QuotientsInOrder ==
  ASSUME NEW a \in Nat, NEW b \in Nat, NEW c \in Nat, c > 0, a <= b
  PROVE  a \div c <= b \div c
OBVIOUS

LEMMA ProductsInOrder ==
  ASSUME NEW a \in Nat, NEW b \in Nat, NEW c \in Nat, a <= b
  PROVE  c * a <= c * b
OBVIOUS

\* ontransfer: what is paid in is what there is to allocate, and raises what
\* the voters of the producer have earned.
LEMMA PaymentKeepsMoney ==
  ASSUME RewardInv, NEW p \in Producers, NEW n \in Nat, OnTransfer(p, n)
  PROVE  RewardInv' /\ EarnedStep
<1>1. OwedInv /\ RowsInv
  BY DEF RewardInv, OwedInv
<1>2. /\ OwedInv' /\ RowsInv'
      /\ \A w \in Voters, q \in Producers :
           /\ HeldVotes(w, q)' = HeldVotes(w, q)
           /\ RpvSince(w, q)' >= RpvSince(w, q)
           /\ q # p => RpvSince(w, q)' = RpvSince(w, q)
      /\ \A q \in Producers : producer'[q].allocating
                                = producer[q].allocating + (IF q = p THEN n ELSE 0)
      /\ producer'[p].total = producer[p].total + n
  BY <1>1, PaymentKeepsOwed DEF OwedInv
<1>3. /\ unclaimed' = unclaimed /\ claimed' = claimed /\ marks' = marks
      /\ n > 0 /\ bal[p] >= n /\ bal' = Paid(p, Reward, n)
  BY DEF OnTransfer, voterTable, CanPay
<1>4. bal' \in [Accounts -> Nat] /\ bal'[Reward] = bal[Reward] + n
  <2>1. bal \in [Accounts -> Nat] /\ p \in Accounts /\ Reward \in Accounts /\ p # Reward
    BY AccountsApart DEF RewardInv, RewardTypeOK
  <2> QED  BY <1>3, <2>1, PaidIsTyped
<1>5. SumFunction(Allocating') = SumFunction(Allocating) + n
  <2>1. PICK f \in [Producers -> Int], g \in [Producers -> Int] : f = Allocating /\ g = Allocating'
    <3>1. \A q \in Producers : producer[q].allocating \in Int /\ producer'[q].allocating \in Int
      BY <1>1, <1>2 DEF RowsInv, RowsTypeOK, ProducerRow
    <3>2. Allocating \in [Producers -> Int] /\ Allocating' \in [Producers -> Int]
      BY <3>1 DEF Allocating
    <3> QED  BY <3>2
  <2>2. g[p] = f[p] + n /\ \A q \in Producers \ {p} : g[q] = f[q]
    <3>1. \A q \in Producers : g[q] = f[q] + (IF q = p THEN n ELSE 0)
      BY <1>2, <2>1 DEF Allocating
    <3> QED  BY <3>1
  <2>3. SumFunction(g) = SumFunction(f) - f[p] + g[p]
    BY <2>2, Finite, SumChange
  <2>4. SumFunction(f) \in Int
    BY Finite, SumInt
  <2> QED  BY <2>1, <2>2, <2>3, <2>4
<1>6. Solvent'
  <2>1. bal'[Reward] = Funds[Reward] + SumFunction(Allocating') + SumFunction(unclaimed)
    BY <1>4, <1>5, SolventSums
  <2>2. unclaimed = [v \in Voters |-> unclaimed[v]]
    BY DEF RewardInv, RewardTypeOK
  <2> QED  BY <1>3, <2>1, <2>2 DEF Solvent, Allocating
<1>7. RewardInv'
  BY <1>2, <1>3, <1>4, <1>6 DEF RewardInv, RewardTypeOK, RowsInv
<1>8. ASSUME NEW w \in Voters, NEW q \in Producers
      PROVE  /\ Accrued(w, q)' >= Accrued(w, q)
             /\ p \notin DOMAIN marks[w] => Accrued(w, q)' = Accrued(w, q)
             /\ Accrued(w, q) \in Nat /\ Accrued(w, q)' \in Nat
  <2>1. /\ HeldVotes(w, q) \in Nat /\ RpvSince(w, q) \in Nat
        /\ q \notin DOMAIN marks[w] => HeldVotes(w, q) = 0
    BY <1>1, OwedIsNat
  <2>2. PICK before \in Nat, after \in Nat :
          before = RpvSince(w, q) /\ after = RpvSince(w, q)' /\ before <= after
    <3>1. RpvSince(w, q)' >= RpvSince(w, q)
      BY <1>2
    <3>2. RpvSince(w, q)' \in Int
      <4>1. producer'[q].rpv \in Nat
        BY <1>2 DEF RowsInv, RowsTypeOK, ProducerRow
      <4>2. \E list \in SUBSET Producers : marks[w] \in [list -> Nat]
        BY <1>1 DEF RowsInv, RowsTypeOK
      <4> QED  BY <1>3, <4>1, <4>2 DEF RpvSince, InList
    <3> QED  BY <2>1, <3>1, <3>2
  <2>3. PICK held \in Nat : held = HeldVotes(w, q) /\ held = HeldVotes(w, q)'
    BY <1>2, <2>1
  <2>4. /\ Accrued(w, q) = (held * before) \div Precision
        /\ Accrued(w, q)' = (held * after) \div Precision
        /\ Accrued(w, q) \in Nat /\ Accrued(w, q)' \in Nat
    BY <1>1, <1>2, <2>2, <2>3, AccruedIsQuotient, AccruedIsQuotientAfter DEF OwedFor
  <2>5. held * before \in Nat /\ held * after \in Nat /\ held * before <= held * after
    BY <2>2, ProductIsNat, ProductsInOrder
  <2>6. (held * before) \div Precision <= (held * after) \div Precision
    <3>1. PICK a \in Nat, b \in Nat : a = held * before /\ b = held * after
      BY <2>5
    <3>2. a \div Precision <= b \div Precision
      BY <2>5, <3>1, Finite, QuotientsInOrder
    <3> QED  BY <3>1, <3>2
  <2>7. p \notin DOMAIN marks[w] => held * before = held * after
    <3>1. CASE q = p
      <4>1. p \notin DOMAIN marks[w] => held = 0
        BY <2>1, <2>3, <3>1
      <4>2. 0 * before = 0 * after
        OBVIOUS
      <4> QED  BY <4>1, <4>2
    <3>2. CASE q # p
      BY <1>2, <2>2, <3>2
    <3> QED  BY <3>1, <3>2
  <2> QED  BY <2>4, <2>6, <2>7
<1>9. ASSUME NEW w \in Voters
      PROVE  /\ AllAccrued(w)' >= AllAccrued(w)
             /\ p \notin DOMAIN marks[w] => AllAccrued(w)' = AllAccrued(w)
  <2>1. PICK f \in [Producers -> Int], g \in [Producers -> Int] :
          /\ f = [q \in Producers |-> Accrued(w, q)]
          /\ g = [q \in Producers |-> Accrued(w, q)']
    <3>1. /\ [q \in Producers |-> Accrued(w, q)] \in [Producers -> Int]
          /\ [q \in Producers |-> Accrued(w, q)'] \in [Producers -> Int]
      BY <1>8
    <3> QED  BY <3>1
  <2>2. \A q \in Producers : f[q] <= g[q]
    BY <1>8, <2>1
  <2>3. SumFunction(f) <= SumFunction(g)
    BY <2>2, Finite, SumMonotone
  <2>4. p \notin DOMAIN marks[w] => g = f
    BY <1>8, <2>1
  <2>5. SumFunction(f) \in Int /\ SumFunction(g) \in Int
    BY Finite, SumInt
  <2> QED  BY <2>1, <2>3, <2>4, <2>5 DEF AllAccrued
<1>10. ASSUME NEW w \in Voters
       PROVE  /\ Earned(w)' >= Earned(w)
              /\ Earned(w)' > Earned(w) =>
                   \E q \in DOMAIN marks[w] : producer'[q].total > producer[q].total
  <2>1. /\ Earned(w) = claimed[w] + unclaimed[w] + AllAccrued(w)
        /\ AllAccrued(w) \in Nat /\ claimed[w] \in Nat /\ unclaimed[w] \in Nat
    BY EarnedIsSum
  <2>2. Earned(w)' = claimed[w] + unclaimed[w] + AllAccrued(w)' /\ AllAccrued(w)' \in Nat
    BY <1>3, <1>7, EarnedIsSumAfter
  <2>3. producer'[p].total > producer[p].total
    <3>1. producer[p].total \in Nat
      BY <1>1 DEF RowsInv, RowsTypeOK, ProducerRow
    <3> QED  BY <1>2, <1>3, <3>1
  <2> QED  BY <1>9, <2>1, <2>2, <2>3
<1> QED  BY <1>7, <1>10 DEF EarnedStep

\* What changes at most which producers are registered, and the balances of
\* other accounts.
LEMMA OthersKeepMoney ==
  ASSUME RewardInv, bal' \in [Accounts -> Nat], bal'[Reward] = bal[Reward],
         UNCHANGED rewardVars \/ \E p \in Producers : RegReward(p)
  PROVE  RewardInv' /\ EarnedStep
<1>1. OwedInv /\ RowsInv
  BY DEF RewardInv, OwedInv
<1>2. UNCHANGED voterTable
  BY DEF rewardVars, RegReward
<1>3. RowsInv'
  <2>1. CASE UNCHANGED rewardVars
    BY <1>1, <2>1 DEF rewardVars, voterTable, RowsInv, RowsTypeOK, BooksBalance
  <2> QED  BY <1>1, <2>1, RegRewardKeepsInv
<1>4. \A p \in Producers : /\ producer'[p].votes = producer[p].votes
                           /\ producer'[p].allocating = producer[p].allocating
                           /\ producer'[p].rpv = producer[p].rpv
  <2>1. CASE UNCHANGED rewardVars
    BY <2>1 DEF rewardVars
  <2> QED  BY <1>1, <2>1 DEF RegReward, RowsInv, RowsTypeOK, ProducerRow
<1>5. OwedInv' /\ \A v \in Voters, p \in Producers : Accrued(v, p)' = Accrued(v, p)
  BY <1>1, <1>2, <1>3, <1>4, OthersKeepOwed DEF voterTable
<1>6. unclaimed' = unclaimed /\ claimed' = claimed
  BY <1>2 DEF voterTable
<1>7. Solvent'
  <2>1. Allocating' = Allocating
    BY <1>4 DEF Allocating
  <2> QED  BY <1>6, <2>1 DEF RewardInv, Solvent, Allocating
<1>8. RewardInv'
  BY <1>3, <1>5, <1>6, <1>7 DEF RewardInv, RewardTypeOK, RowsInv
<1>9. \A w \in Voters : Earned(w)' = Earned(w) /\ Earned(w) \in Int
  <2> SUFFICES ASSUME NEW w \in Voters PROVE Earned(w)' = Earned(w) /\ Earned(w) \in Int
    OBVIOUS
  <2>1. AllAccrued(w)' = AllAccrued(w)
    BY <1>5 DEF AllAccrued
  <2>2. /\ Earned(w) = claimed[w] + unclaimed[w] + AllAccrued(w)
        /\ AllAccrued(w) \in Nat /\ claimed[w] \in Nat /\ unclaimed[w] \in Nat
    BY EarnedIsSum
  <2>3. Earned(w)' = claimed'[w] + unclaimed'[w] + AllAccrued(w)'
    BY <1>8, EarnedIsSumAfter
  <2> QED  BY <1>6, <2>1, <2>2, <2>3
<1> QED  BY <1>8, <1>9 DEF EarnedStep

\* A voter may be settled for any producer of its list, if it keeps as many
\* votes as it gives up at most.
LEMMA AlwaysCanAllocate ==
  ASSUME OwedInv, NEW v \in Voters, NEW p \in DOMAIN marks[v], NEW change \in Int,
         votes[v] + change >= 0
  PROVE  CanAllocate(v, p, change)
<1>1. RowsInv /\ p \in Producers
  BY DEF OwedInv, RowsInv, RowsTypeOK
<1>2. /\ HeldVotes(v, p) \in Nat /\ RpvSince(v, p) \in Nat /\ HeldVotes(v, p) = votes[v]
      /\ producer[p].votes \in Nat /\ producer[p].allocating \in Nat
  <2>1. HeldVotes(v, p) = votes[v]
    BY DEF HeldVotes, InList
  <2> QED  BY <1>1, <2>1, OwedIsNat DEF RowsInv, RowsTypeOK, ProducerRow
<1>3. HeldVotes(v, p) <= producer[p].votes
  <2>1. PICK f \in [Voters -> Nat] : f = [w \in Voters |-> HeldVotes(w, p)]
    <3>1. [w \in Voters |-> HeldVotes(w, p)] \in [Voters -> Nat]
      BY <1>1, OwedIsNat
    <3> QED  BY <3>1
  <2>2. f[v] <= SumFunction(f)
    BY Finite, SumNat
  <2> QED  BY <2>1, <2>2, <1>1 DEF OwedInv, VotesAddUp
<1>4. producer[p].allocating >= Accrued(v, p)
  <2>1. PICK f \in [Voters -> Nat] : f = [w \in Voters |-> OwedFor(w, p)]
    <3>1. [w \in Voters |-> OwedFor(w, p)] \in [Voters -> Nat]
      BY <1>1, OwedIsNat
    <3> QED  BY <3>1
  <2>2. f[v] <= SumFunction(f) /\ SumFunction(f) \in Nat
    BY Finite, SumNat
  <2>3. SumFunction(f) <= producer[p].allocating * Precision
    BY <1>1, <2>1 DEF OwedInv, RewardsCovered, OwedFor
  <2>4. PICK owed \in Nat, all \in Nat : owed = OwedFor(v, p) /\ all = producer[p].allocating
    BY <1>1, <1>2, OwedIsNat
  <2>5. owed <= all * Precision
    <3>1. all * Precision \in Nat
      BY Finite, ProductIsNat
    <3> QED  BY <2>1, <2>2, <2>3, <2>4, <3>1
  <2>6. owed \div Precision <= all
    BY <2>5, Finite
  <2> QED  BY <1>1, <2>4, <2>6, AccruedIsQuotient
<1>5. producer[p].total = producer[p].allocating + producer[p].allocated
  BY <1>1 DEF RowsInv, BooksBalance
<1>6. producer[p].votes + change >= 0
  BY <1>2, <1>3
<1> QED  BY <1>2, <1>3, <1>4, <1>5, <1>6 DEF CanAllocate

\* The contract has what any voter has earned and not claimed.
LEMMA ClaimsArePossible ==
  ASSUME RewardInv
  PROVE  ClaimNeverRefused
<1> SUFFICES ASSUME NEW v \in Voters, votes[v] > 0, Due(v) > 0
             PROVE  /\ \A p \in DOMAIN marks[v] : CanAllocate(v, p, 0)
                    /\ CanPay(Reward, Due(v))
  BY DEF ClaimNeverRefused
<1>1. OwedInv /\ RowsInv /\ votes[v] \in Nat
  BY DEF RewardInv, OwedInv, RowsInv, RowsTypeOK
<1>2. \A p \in DOMAIN marks[v] : CanAllocate(v, p, 0)
  BY <1>1, AlwaysCanAllocate
<1>3. AllAccrued(v) <= SumFunction(Allocating)
  <2>1. PICK f \in [Producers -> Int], g \in [Producers -> Int] :
          f = [p \in Producers |-> Accrued(v, p)] /\ g = Allocating
    <3>1. [p \in Producers |-> Accrued(v, p)] \in [Producers -> Int]
      BY <1>1, OwedIsNat
    <3> QED  BY <3>1, SolventSums
  <2>2. ASSUME NEW p \in Producers PROVE f[p] <= g[p]
    <3>1. f[p] = Accrued(v, p) /\ g[p] = producer[p].allocating /\ g[p] \in Nat
      BY <1>1, <2>1 DEF Allocating, RowsInv, RowsTypeOK, ProducerRow
    <3>2. CASE p \in DOMAIN marks[v]
      <4>1. producer[p].allocating >= Accrued(v, p)
        <5>1. CASE RpvSince(v, p) > 0 /\ HeldVotes(v, p) > 0
          BY <1>2, <3>2, <5>1 DEF CanAllocate
        <5>2. CASE ~(RpvSince(v, p) > 0 /\ HeldVotes(v, p) > 0)
          BY <1>1, <3>1, <5>2, AccruedIsNat DEF RowsInv
        <5> QED  BY <5>1, <5>2
      <4>2. Accrued(v, p) \in Nat
        BY <1>1, OwedIsNat
      <4> QED  BY <3>1, <4>1, <4>2
    <3>3. CASE p \notin DOMAIN marks[v]
      BY <1>1, <3>1, <3>3, OwedIsNat
    <3> QED  BY <3>2, <3>3
  <2>3. SumFunction(f) <= SumFunction(g)
    BY <2>2, Finite, SumMonotone
  <2> QED  BY <2>1, <2>3 DEF AllAccrued
<1>4. unclaimed[v] <= SumFunction(unclaimed)
  <2>1. unclaimed \in [Voters -> Nat]
    BY DEF RewardInv, RewardTypeOK
  <2> QED  BY <2>1, Finite, SumNat
<1>5. bal[Reward] >= Due(v)
  <2>1. /\ Due(v) = unclaimed[v] + AllAccrued(v)
        /\ AllAccrued(v) \in Nat /\ unclaimed[v] \in Nat
    BY EarnedIsSum
  <2> QED  BY <1>3, <1>4, <2>1, SolventSums
<1> QED  BY <1>2, <1>5 DEF CanPay

-----------------------------------------------------------------------------
(* The specification of amax.reward.                                       *)

LEMMA InitHasMoney == RewardInit => RewardInv
<1> SUFFICES ASSUME RewardInit PROVE RewardInv
  OBVIOUS
<1>1. RowsInv
  BY InitEstablishesInv
<1>2. PICK zero \in [Voters -> Int], none \in [Producers -> Int] :
        zero = [v \in Voters |-> 0] /\ none = [p \in Producers |-> 0]
  <2>1. [v \in Voters |-> 0] \in [Voters -> Int] /\ [p \in Producers |-> 0] \in [Producers -> Int]
    OBVIOUS
  <2> QED  BY <2>1
<1>3. SumFunction(zero) = 0 /\ SumFunction(none) = 0
  BY <1>2, Finite, SumZero
<1>4. /\ votes = zero /\ unclaimed = zero /\ claimed = zero /\ bal = Funds
      /\ \A p \in Producers : producer[p] = NewProducer
  BY <1>2 DEF RewardInit
<1>5. \A p \in Producers : producer[p].votes = 0 /\ producer[p].allocating = 0
  BY <1>4 DEF NewProducer
<1>6. ASSUME NEW p \in Producers
      PROVE  /\ [v \in Voters |-> HeldVotes(v, p)] = zero
             /\ [v \in Voters |-> HeldVotes(v, p) * RpvSince(v, p)] = zero
  <2>1. ASSUME NEW v \in Voters PROVE HeldVotes(v, p) = 0
    BY <1>2, <1>4 DEF HeldVotes
  <2>2. ASSUME NEW v \in Voters PROVE HeldVotes(v, p) * RpvSince(v, p) = 0
    <3>1. RpvSince(v, p) \in Nat
      BY <1>1, OwedIsNat
    <3>2. 0 * RpvSince(v, p) = 0
      BY <3>1
    <3> QED  BY <2>1, <3>2
  <2> QED  BY <1>2, <2>1, <2>2
<1>7. VotesAddUp
  BY <1>3, <1>5, <1>6 DEF VotesAddUp
<1>8. RewardsCovered
  <2>1. ASSUME NEW p \in Producers
        PROVE  SumFunction([v \in Voters |-> HeldVotes(v, p) * RpvSince(v, p)])
                 <= producer[p].allocating * Precision
    <3>1. SumFunction([v \in Voters |-> HeldVotes(v, p) * RpvSince(v, p)]) = 0
      BY <1>3, <1>6
    <3>2. 0 <= 0 * Precision
      BY Finite
    <3> QED  BY <1>5, <3>1, <3>2
  <2> QED  BY <2>1 DEF RewardsCovered
<1>9. Solvent
  <2>1. /\ [p \in Producers |-> producer[p].allocating] = none
        /\ [v \in Voters |-> unclaimed[v]] = zero
    BY <1>2, <1>4, <1>5
  <2>2. Funds[Reward] + 0 + 0 = Funds[Reward]
    BY AccountsApart
  <2> QED  BY <1>3, <1>4, <2>1, <2>2 DEF Solvent
<1>10. RewardTypeOK
  <2>1. zero \in [Voters -> Nat]
    BY <1>2
  <2> QED  BY <1>1, <1>4, <2>1, AccountsApart DEF RewardTypeOK, RowsInv
<1> QED  BY <1>1, <1>7, <1>8, <1>9, <1>10 DEF RewardInv, OwedInv

LEMMA NextKeepsMoney ==
  RewardInv /\ [RewardNext]_<<rewardVars, bal>> => RewardInv' /\ EarnedStep
<1> SUFFICES ASSUME RewardInv, [RewardNext]_<<rewardVars, bal>>
             PROVE  RewardInv' /\ EarnedStep
  OBVIOUS
<1>1. bal \in [Accounts -> Nat]
  BY DEF RewardInv, RewardTypeOK
<1>2. ASSUME NEW v \in Voters, CalledBySystem(v) PROVE RewardInv' /\ EarnedStep
  <2>1. bal' \in [Accounts -> Nat] /\ bal'[Reward] = bal[Reward]
    BY <1>1, <1>2 DEF CalledBySystem
  <2>2. \/ \E change \in Int : ChangeVote(v, change)
        \/ \E list \in SUBSET Producers : RewardVoteProducer(v, list)
    <3>1. ASSUME NEW n \in 1 .. MaxVotes, RewardAddVote(v, n) \/ RewardSubVote(v, n)
          PROVE  \E change \in Int : ChangeVote(v, change)
      <4>1. n \in Int /\ -n \in Int
        OBVIOUS
      <4> QED  BY <3>1, <4>1 DEF RewardAddVote, RewardSubVote
    <3> QED  BY <1>2, <3>1 DEF CalledBySystem
  <2> QED  BY <2>1, <2>2, CallKeepsMoney
<1>3. ASSUME NEW v \in Voters, Claim(v) PROVE RewardInv' /\ EarnedStep
  BY <1>3, ClaimKeepsMoney
<1>4. ASSUME NEW p \in Producers, RegReward(p) /\ UNCHANGED bal PROVE RewardInv' /\ EarnedStep
  BY <1>1, <1>4, OthersKeepMoney
<1>5. ASSUME NEW p \in Producers, NEW n \in 1 .. bal[p], OnTransfer(p, n)
      PROVE  RewardInv' /\ EarnedStep
  <2>1. n \in Nat
    OBVIOUS
  <2> QED  BY <1>5, <2>1, PaymentKeepsMoney
<1>6. CASE UNCHANGED <<rewardVars, bal>>
  BY <1>1, <1>6, OthersKeepMoney
<1> QED  BY <1>2, <1>3, <1>4, <1>5, <1>6 DEF RewardNext

\* The contract on its own, called by amax.system in any order, can pay: its
\* balance is what it has not allocated and what is not claimed.
THEOREM RewardAlwaysSolvent == RewardSpec => []Solvent
<1>1. RewardInv => Solvent
  BY DEF RewardInv
<1> QED  BY <1>1, InitHasMoney, NextKeepsMoney, PTL DEF RewardSpec

\* However it is called, what its voters can claim is covered.
THEOREM RewardAlwaysCovers == RewardSpec => []RewardsCovered
<1>1. RewardInv => RewardsCovered
  BY DEF RewardInv, OwedInv
<1> QED  BY <1>1, InitHasMoney, NextKeepsMoney, PTL DEF RewardSpec

-----------------------------------------------------------------------------
(* amax.system.                                                            *)

\* The types of the rows that the argument needs; ContractsAgree makes the
\* elected votes natural numbers.
SystemRowsOK ==
  /\ prods \in [Producers -> [known : BOOLEAN, active : BOOLEAN, elected : Int]]
  /\ voters \in [Voters -> [known : BOOLEAN, votes : Int, list : SUBSET Producers]]

AgreeInv == RowsInv /\ SystemRowsOK /\ ContractsAgree /\ electionsOn = TRUE

-----------------------------------------------------------------------------
(* What an action does to votes, in either contract.                       *)

\* amax.system: from loses n, to gains m, whatever the two have in common.
LEMMA ElectedChange ==
  ASSUME SystemRowsOK, NEW n \in Int, NEW m \in Int,
         NEW from \in SUBSET Producers, NEW to \in SUBSET Producers,
         Elect(from, n, to, m)
  PROVE  /\ prods' \in [Producers -> [known : BOOLEAN, active : BOOLEAN, elected : Int]]
         /\ \A p \in Producers :
              prods'[p].elected = prods[p].elected
                - (IF p \in from THEN n ELSE 0) + (IF p \in to THEN m ELSE 0)
BY DEF SystemRowsOK, Elect

\* amax.reward: the list of v becomes list, the other lists stay.
LEMMA ListsAfterSettlement ==
  ASSUME RowsInv, NEW v \in Voters, NEW list \in SUBSET Producers,
         marks' = [marks EXCEPT ![v] = Marks(list)]
  PROVE  \A w \in Voters :
           DOMAIN marks'[w] = IF w = v THEN list ELSE DOMAIN marks[w]
<1>1. marks = [w \in Voters |-> marks[w]]
  BY DEF RowsInv, RowsTypeOK
<1>2. DOMAIN Marks(list) = list
  BY DEF Marks
<1> QED  BY <1>1, <1>2

\* amax.reward: addvote and subvote change the votes of v, and those of the
\* producers of its list by as many.
LEMMA RewardVotesChange ==
  ASSUME RowsInv, NEW v \in Voters, NEW change \in Int, ChangeVote(v, change)
  PROVE  /\ votes' = [votes EXCEPT ![v] = votes[v] + change]
         /\ \A w \in Voters : DOMAIN marks'[w] = DOMAIN marks[w]
         /\ \A p \in Producers :
              producer'[p].votes = producer[p].votes
                + (IF p \in DOMAIN marks[v] THEN change ELSE 0)
<1> DEFINE list  == DOMAIN marks[v]
           delta == [p \in list |-> change]
<1>1. list \in SUBSET Producers
  BY DEF RowsInv, RowsTypeOK
<1>2. /\ Allocate(v, delta) /\ marks' = [marks EXCEPT ![v] = Marks(list)]
      /\ votes' = [votes EXCEPT ![v] = votes[v] + change]
  BY DEF ChangeVote
<1>3. /\ DOMAIN delta = list /\ DOMAIN delta \subseteq Producers
      /\ \A p \in DOMAIN delta : delta[p] \in Int
      /\ \A p \in list : delta[p] = change
  BY <1>1
<1> HIDE DEF delta
<1>4. \A w \in Voters : DOMAIN marks'[w] = DOMAIN marks[w]
  <2> HIDE DEF list
  <2>1. \A w \in Voters :
          DOMAIN marks'[w] = IF w = v THEN list ELSE DOMAIN marks[w]
    BY <1>1, <1>2, ListsAfterSettlement
  <2>2. list = DOMAIN marks[v]
    BY DEF list
  <2> QED  BY <2>1, <2>2
<1>5. \A p \in Producers :
        producer'[p].votes = producer[p].votes
          + (IF p \in DOMAIN delta THEN delta[p] ELSE 0)
  BY <1>2, <1>3, AllocateKeepsBooks
<1> QED  BY <1>2, <1>3, <1>4, <1>5

\* amax.reward: a claim changes neither votes nor lists.
LEMMA ClaimKeepsVotes ==
  ASSUME RowsInv, NEW v \in Voters, Claim(v)
  PROVE  /\ votes' = votes
         /\ \A w \in Voters : DOMAIN marks'[w] = DOMAIN marks[w]
         /\ \A p \in Producers : producer'[p].votes = producer[p].votes
<1> DEFINE list  == DOMAIN marks[v]
           delta == [p \in list |-> 0]
<1>1. list \in SUBSET Producers
  BY DEF RowsInv, RowsTypeOK
<1>2. /\ Allocate(v, delta) /\ marks' = [marks EXCEPT ![v] = Marks(list)]
      /\ votes' = votes
  BY DEF Claim
<1>3. /\ DOMAIN delta \subseteq Producers
      /\ \A p \in DOMAIN delta : delta[p] \in Int /\ delta[p] = 0
  BY <1>1
<1> HIDE DEF delta
<1>4. \A w \in Voters : DOMAIN marks'[w] = DOMAIN marks[w]
  <2> HIDE DEF list
  <2>1. \A w \in Voters :
          DOMAIN marks'[w] = IF w = v THEN list ELSE DOMAIN marks[w]
    BY <1>1, <1>2, ListsAfterSettlement
  <2>2. list = DOMAIN marks[v]
    BY DEF list
  <2> QED  BY <2>1, <2>2
<1>5. \A p \in Producers :
        producer'[p].votes = producer[p].votes
          + (IF p \in DOMAIN delta THEN delta[p] ELSE 0)
  BY <1>2, <1>3, AllocateKeepsBooks
<1>6. \A p \in Producers : producer[p].votes \in Nat
  BY DEF RowsInv, RowsTypeOK, ProducerRow
<1> QED  BY <1>2, <1>3, <1>4, <1>5, <1>6

\* amax.reward: voteproducer takes the votes of v from what its old list
\* alone names and gives them to what the new one alone names.
LEMMA RewardListChange ==
  ASSUME RowsInv, NEW v \in Voters, NEW list \in SUBSET Producers,
         RewardVoteProducer(v, list)
  PROVE  /\ votes' = votes
         /\ \A w \in Voters :
              DOMAIN marks'[w] = IF w = v THEN list ELSE DOMAIN marks[w]
         /\ \A p \in Producers :
              producer'[p].votes = producer[p].votes
                - (IF p \in DOMAIN marks[v] THEN votes[v] ELSE 0)
                + (IF p \in list THEN votes[v] ELSE 0)
<1> DEFINE both  == DOMAIN marks[v] \cup list
           delta == [p \in both |-> VotesMoved(v, p, list)]
<1>1. both \in SUBSET Producers /\ votes[v] \in Nat
  BY DEF RowsInv, RowsTypeOK
<1>2. /\ Allocate(v, delta) /\ marks' = [marks EXCEPT ![v] = Marks(list)]
      /\ votes' = votes
  BY DEF RewardVoteProducer
<1>3. /\ DOMAIN delta = both /\ DOMAIN delta \subseteq Producers
      /\ \A p \in both : delta[p] = VotesMoved(v, p, list)
      /\ \A p \in DOMAIN delta : delta[p] \in Int
  BY <1>1 DEF VotesMoved
<1> HIDE DEF delta
<1>4. \A w \in Voters :
        DOMAIN marks'[w] = IF w = v THEN list ELSE DOMAIN marks[w]
  BY <1>2, ListsAfterSettlement
<1>5. ASSUME NEW p \in Producers
      PROVE  producer'[p].votes = producer[p].votes
               - (IF p \in DOMAIN marks[v] THEN votes[v] ELSE 0)
               + (IF p \in list THEN votes[v] ELSE 0)
  <2>1. producer'[p].votes = producer[p].votes
          + (IF p \in DOMAIN delta THEN delta[p] ELSE 0)
    BY <1>2, <1>3, AllocateKeepsBooks
  <2>2. producer[p].votes \in Nat
    BY DEF RowsInv, RowsTypeOK, ProducerRow
  <2>3. p \in both <=> p \in DOMAIN marks[v] \/ p \in list
    OBVIOUS
  <2> HIDE DEF both
  <2> QED  BY <1>1, <1>3, <2>1, <2>2, <2>3 DEF VotesMoved, InList
<1> QED  BY <1>2, <1>4, <1>5
-----------------------------------------------------------------------------
(* The actions.                                                            *)

LEMMA AddVoteKeepsAgreement ==
  ASSUME AgreeInv, NEW v \in Voters, NEW n \in Nat, AddVote(v, n)
  PROVE  AgreeInv'
<1> DEFINE list == Listed(v)
<1>1. list \in SUBSET Producers /\ list = DOMAIN marks[v]
  BY DEF AgreeInv, SystemRowsOK, ContractsAgree, Listed
<1>2. RowsInv'
  BY ChangeVoteKeepsInv DEF AgreeInv, AddVote, RewardAddVote
<1>3. /\ votes' = [votes EXCEPT ![v] = votes[v] + n]
      /\ \A w \in Voters : DOMAIN marks'[w] = DOMAIN marks[w]
      /\ \A p \in Producers :
           producer'[p].votes = producer[p].votes + (IF p \in list THEN n ELSE 0)
  BY <1>1, RewardVotesChange DEF AgreeInv, AddVote, RewardAddVote
<1>4. /\ prods' \in [Producers -> [known : BOOLEAN, active : BOOLEAN, elected : Int]]
      /\ \A p \in Producers :
           prods'[p].elected = prods[p].elected + (IF p \in list THEN n ELSE 0)
  <2>1. Elect({}, 0, list, n) /\ SystemRowsOK
    BY DEF AddVote, AgreeInv
  <2> HIDE DEF list
  <2> QED  BY <1>1, <2>1 DEF Elect, SystemRowsOK
<1>5. \A p \in Producers : prods'[p].elected = producer'[p].votes
  <2> SUFFICES ASSUME NEW p \in Producers
               PROVE  prods'[p].elected = producer'[p].votes
    OBVIOUS
  <2>1. prods[p].elected = producer[p].votes /\ prods[p].elected \in Int
    BY DEF AgreeInv, ContractsAgree, SystemRowsOK
  <2> HIDE DEF list
  <2> QED  BY <1>3, <1>4, <2>1
<1>6. /\ voters' \in [Voters -> [known : BOOLEAN, votes : Int, list : SUBSET Producers]]
      /\ \A w \in Voters : /\ voters'[w].votes = voters[w].votes
                                                   + (IF w = v THEN n ELSE 0)
                           /\ voters'[w].list = voters[w].list
  BY DEF AgreeInv, SystemRowsOK, AddVote, WithVotes
<1> QED
  <2>1. electionsOn' = TRUE
    BY DEF AgreeInv, AddVote
  <2>2. votes \in [Voters -> Nat]
    BY DEF AgreeInv, RowsInv, RowsTypeOK
  <2>3. \A w \in Voters : /\ voters[w].votes = votes[w]
                          /\ voters[w].list = DOMAIN marks[w]
    BY DEF AgreeInv, ContractsAgree, Listed
  <2>4. \A w \in Voters : voters'[w].votes = votes'[w] /\ voters'[w].list = DOMAIN marks'[w]
    BY <1>3, <1>6, <2>2, <2>3
  <2> QED  BY <1>2, <1>4, <1>5, <1>6, <2>1, <2>4
           DEF AgreeInv, SystemRowsOK, ContractsAgree, Listed
LEMMA SubVoteKeepsAgreement ==
  ASSUME AgreeInv, NEW v \in Voters, NEW n \in Nat, SubVote(v, n)
  PROVE  AgreeInv'
<1> DEFINE list == Listed(v)
<1>1. list \in SUBSET Producers /\ list = DOMAIN marks[v] /\ -n \in Int
  BY DEF AgreeInv, SystemRowsOK, ContractsAgree, Listed
<1>2. RowsInv'
  BY <1>1, ChangeVoteKeepsInv DEF AgreeInv, SubVote, RewardSubVote
<1>3. /\ votes' = [votes EXCEPT ![v] = votes[v] + (-n)]
      /\ \A w \in Voters : DOMAIN marks'[w] = DOMAIN marks[w]
      /\ \A p \in Producers :
           producer'[p].votes = producer[p].votes + (IF p \in list THEN -n ELSE 0)
  BY <1>1, RewardVotesChange DEF AgreeInv, SubVote, RewardSubVote
<1>4. /\ prods' \in [Producers -> [known : BOOLEAN, active : BOOLEAN, elected : Int]]
      /\ \A p \in Producers :
           prods'[p].elected = prods[p].elected - (IF p \in list THEN n ELSE 0)
  <2>1. Elect(list, n, {}, 0) /\ SystemRowsOK
    BY DEF SubVote, AgreeInv
  <2> HIDE DEF list
  <2> QED  BY <1>1, <2>1 DEF Elect, SystemRowsOK
<1>5. \A p \in Producers : prods'[p].elected = producer'[p].votes
  <2> SUFFICES ASSUME NEW p \in Producers
               PROVE  prods'[p].elected = producer'[p].votes
    OBVIOUS
  <2>1. prods[p].elected = producer[p].votes /\ prods[p].elected \in Int
    BY DEF AgreeInv, ContractsAgree, SystemRowsOK
  <2> HIDE DEF list
  <2> QED  BY <1>3, <1>4, <2>1
<1>6. /\ voters' \in [Voters -> [known : BOOLEAN, votes : Int, list : SUBSET Producers]]
      /\ \A w \in Voters : /\ voters'[w].votes = voters[w].votes
                                                   + (IF w = v THEN -n ELSE 0)
                           /\ voters'[w].list = voters[w].list
  BY DEF AgreeInv, SystemRowsOK, SubVote, WithVotes
<1>7. electionsOn' = TRUE
  BY DEF AgreeInv, SubVote
<1>8. \A w \in Voters : voters'[w].votes = votes'[w] /\ voters'[w].list = DOMAIN marks'[w]
  <2>1. votes \in [Voters -> Nat]
    BY DEF AgreeInv, RowsInv, RowsTypeOK
  <2>2. \A w \in Voters : /\ voters[w].votes = votes[w]
                          /\ voters[w].list = DOMAIN marks[w]
    BY DEF AgreeInv, ContractsAgree, Listed
  <2> QED  BY <1>3, <1>6, <2>1, <2>2
<1> QED  BY <1>2, <1>4, <1>5, <1>6, <1>7, <1>8
         DEF AgreeInv, SystemRowsOK, ContractsAgree, Listed

LEMMA VoteKeepsAgreement ==
  ASSUME AgreeInv, NEW v \in Voters, NEW list \in SUBSET Producers, Vote(v, list)
  PROVE  AgreeInv'
<1> DEFINE old == Listed(v)
           n   == voters[v].votes
<1>1. /\ old \in SUBSET Producers /\ old = DOMAIN marks[v]
      /\ n \in Int /\ n = votes[v]
  BY DEF AgreeInv, SystemRowsOK, ContractsAgree, Listed
<1>2. RowsInv'
  BY VoteProducerKeepsInv DEF AgreeInv, Vote
<1>3. /\ votes' = votes
      /\ \A w \in Voters :
           DOMAIN marks'[w] = IF w = v THEN list ELSE DOMAIN marks[w]
      /\ \A p \in Producers :
           producer'[p].votes = producer[p].votes
             - (IF p \in old THEN n ELSE 0) + (IF p \in list THEN n ELSE 0)
  BY <1>1, RewardListChange DEF AgreeInv, Vote
<1>4. /\ prods' \in [Producers -> [known : BOOLEAN, active : BOOLEAN, elected : Int]]
      /\ \A p \in Producers :
           prods'[p].elected = prods[p].elected
             - (IF p \in old THEN n ELSE 0) + (IF p \in list THEN n ELSE 0)
  <2>1. Elect(old, n, list, n) /\ SystemRowsOK
    BY DEF Vote, AgreeInv
  <2> HIDE DEF old, n
  <2> QED  BY <1>1, <2>1, ElectedChange
<1>5. \A p \in Producers : prods'[p].elected = producer'[p].votes
  <2> SUFFICES ASSUME NEW p \in Producers
               PROVE  prods'[p].elected = producer'[p].votes
    OBVIOUS
  <2>1. prods[p].elected = producer[p].votes
    BY DEF AgreeInv, ContractsAgree
  <2> HIDE DEF old, n
  <2> QED  BY <1>3, <1>4, <2>1
<1>6. /\ voters' \in [Voters -> [known : BOOLEAN, votes : Int, list : SUBSET Producers]]
      /\ \A w \in Voters : /\ voters'[w].votes = voters[w].votes
                           /\ voters'[w].list = IF w = v THEN list ELSE voters[w].list
  BY DEF AgreeInv, SystemRowsOK, Vote
<1>7. electionsOn' = TRUE
  BY DEF AgreeInv, Vote
<1>8. \A w \in Voters : voters'[w].votes = votes'[w] /\ voters'[w].list = DOMAIN marks'[w]
  <2>1. \A w \in Voters : /\ voters[w].votes = votes[w]
                          /\ voters[w].list = DOMAIN marks[w]
    BY DEF AgreeInv, ContractsAgree, Listed
  <2> QED  BY <1>3, <1>6, <2>1
<1> QED  BY <1>2, <1>4, <1>5, <1>6, <1>7, <1>8
         DEF AgreeInv, SystemRowsOK, ContractsAgree, Listed

\* regproducer, whether or not amax.reward knows the producer
LEMMA RegProducerKeepsAgreement ==
  ASSUME AgreeInv, NEW p \in Producers, RegProducer(p)
  PROVE  AgreeInv'
<1>1. /\ RowsInv' /\ votes' = votes /\ marks' = marks
      /\ \A q \in Producers : producer'[q].votes = producer[q].votes
  <2>1. CASE UNCHANGED rewardVars
    BY <2>1 DEF rewardVars, voterTable, AgreeInv, RowsInv, RowsTypeOK, BooksBalance
  <2>2. CASE RegReward(p)
    <3>1. RowsInv'
      BY <2>2, RegRewardKeepsInv DEF AgreeInv
    <3>2. \A q \in Producers : producer'[q].votes = producer[q].votes
      BY <2>2 DEF AgreeInv, RowsInv, RowsTypeOK, RegReward, ProducerRow
    <3> QED  BY <2>2, <3>1, <3>2 DEF RegReward, voterTable
  <2> QED  BY <2>1, <2>2 DEF RegProducer
<1>2. /\ prods' \in [Producers -> [known : BOOLEAN, active : BOOLEAN, elected : Int]]
      /\ \A q \in Producers : prods'[q].elected = prods[q].elected
  BY DEF AgreeInv, SystemRowsOK, RegProducer, Registered
<1>3. voters' = voters /\ electionsOn' = electionsOn
  BY DEF RegProducer
<1> QED  BY <1>1, <1>2, <1>3 DEF AgreeInv, SystemRowsOK, ContractsAgree, Listed

\* claimrewards, claimfor and a payment leave votes and lists alone.
LEMMA RewardActionKeepsAgreement ==
  ASSUME AgreeInv, RewardAction
  PROVE  AgreeInv'
<1> DEFINE Same == /\ RowsInv' /\ votes' = votes
                   /\ \A w \in Voters : DOMAIN marks'[w] = DOMAIN marks[w]
                   /\ \A p \in Producers : producer'[p].votes = producer[p].votes
<1>1. Same
  <2>1. ASSUME NEW v \in Voters, Claim(v)
        PROVE  Same
    <3>1. RowsInv'
      BY <2>1, ClaimKeepsInv DEF AgreeInv
    <3> QED  BY <2>1, <3>1, ClaimKeepsVotes DEF AgreeInv
  <2>2. ASSUME NEW p \in Producers, NEW n \in 1 .. bal[p], OnTransfer(p, n)
        PROVE  Same
    <3>1. RowsInv'
      <4>1. n \in Nat
        OBVIOUS
      <4> QED  BY <2>2, <4>1, OnTransferKeepsInv DEF AgreeInv
    <3>2. \A q \in Producers : producer'[q].votes = producer[q].votes
      BY <2>2 DEF AgreeInv, RowsInv, RowsTypeOK, OnTransfer, Received, ProducerRow
    <3> QED  BY <2>2, <3>1, <3>2 DEF OnTransfer, voterTable
  <2> QED  BY <2>1, <2>2 DEF RewardAction
<1>2. prods' = prods /\ voters' = voters /\ electionsOn' = electionsOn
  BY DEF RewardAction, systemVars
<1> QED  BY <1>1, <1>2 DEF AgreeInv, SystemRowsOK, ContractsAgree, Listed
\* The actions that change neither elected votes nor what the voters hold.
LEMMA OtherStepKeepsAgreement ==
  ASSUME AgreeInv, UNCHANGED <<rewardVars, electionsOn>>,
         \/ UNCHANGED <<prods, voters>>
         \/ \E p \in Producers : UnregProducer(p)
         \/ \E v \in Voters : StakeBandwidth(v)
  PROVE  AgreeInv'
<1> DEFINE
      ProdsAlike ==
        /\ prods' \in [Producers -> [known : BOOLEAN, active : BOOLEAN, elected : Int]]
        /\ \A p \in Producers : prods'[p].elected = prods[p].elected
      VotersAlike ==
        /\ voters' \in [Voters -> [known : BOOLEAN, votes : Int, list : SUBSET Producers]]
        /\ \A w \in Voters : /\ voters'[w].votes = voters[w].votes
                             /\ voters'[w].list = voters[w].list
<1>1. ProdsAlike
  <2>1. CASE prods' = prods
    BY <2>1 DEF AgreeInv, SystemRowsOK
  <2>2. ASSUME NEW q \in Producers, UnregProducer(q) PROVE ProdsAlike
    BY <2>2 DEF AgreeInv, SystemRowsOK, UnregProducer
  <2> QED  BY <2>1, <2>2 DEF StakeBandwidth
<1>2. VotersAlike
  <2>1. CASE voters' = voters
    BY <2>1 DEF AgreeInv, SystemRowsOK
  <2>2. ASSUME NEW v \in Voters, StakeBandwidth(v) PROVE VotersAlike
    BY <2>2 DEF AgreeInv, SystemRowsOK, StakeBandwidth, WithVotes
  <2> QED  BY <2>1, <2>2 DEF UnregProducer
<1>3. votes' = votes /\ marks' = marks /\ producer' = producer
  BY DEF rewardVars, voterTable
<1>4. RowsInv'
  BY <1>3 DEF AgreeInv, RowsInv, RowsTypeOK, BooksBalance
<1> QED  BY <1>1, <1>2, <1>3, <1>4
         DEF AgreeInv, SystemRowsOK, ContractsAgree, Listed

-----------------------------------------------------------------------------
(* The specification.                                                      *)

LEMMA InitEstablishesAgreement == ~LegacyVoting /\ StakingInit => AgreeInv
<1> SUFFICES ASSUME ~LegacyVoting, StakingInit PROVE AgreeInv
  OBVIOUS
<1>1. RowsInv
  BY InitEstablishesInv DEF StakingInit
<1>2. SystemRowsOK
  BY DEF StakingInit, SystemRowsOK
<1>3. /\ votes = [v \in Voters |-> 0] /\ \A v \in Voters : DOMAIN marks[v] = {}
      /\ \A p \in Producers : producer[p].votes = 0
  BY DEF StakingInit, RewardInit, Marks, NewProducer
<1>4. /\ \A v \in Voters : voters[v].votes = 0 /\ voters[v].list = {}
      /\ \A p \in Producers : prods[p].elected = 0
  BY DEF StakingInit
<1>5. electionsOn = TRUE
  <2>1. electionsOn = ~LegacyVoting
    BY DEF StakingInit
  <2> QED  BY <2>1
<1> QED  BY <1>1, <1>2, <1>3, <1>4, <1>5 DEF AgreeInv, ContractsAgree, Listed

LEMMA NextKeepsAgreement == AgreeInv /\ [StakingNext]_vars => AgreeInv'
<1> SUFFICES ASSUME AgreeInv, [StakingNext]_vars PROVE AgreeInv'
  OBVIOUS
<1>1. ASSUME NEW v \in Voters, VoterAction(v) PROVE AgreeInv'
  <2>1. ASSUME NEW n \in 1 .. bal[v], AddVote(v, n) PROVE AgreeInv'
    <3>1. n \in Nat
      OBVIOUS
    <3> QED  BY <2>1, <3>1, AddVoteKeepsAgreement
  <2>2. ASSUME NEW n \in 1 .. voters[v].votes, SubVote(v, n) PROVE AgreeInv'
    <3>1. n \in Nat
      OBVIOUS
    <3> QED  BY <2>2, <3>1, SubVoteKeepsAgreement
  <2>3. ASSUME NEW list \in SUBSET Producers, Vote(v, list) PROVE AgreeInv'
    BY <2>3, VoteKeepsAgreement
  <2>4. ASSUME NEW list \in SUBSET Producers, LegacyVote(v, list) PROVE AgreeInv'
    BY <2>4 DEF LegacyVote, AgreeInv
  <2>5. CASE StakeBandwidth(v)
    BY <2>5, OtherStepKeepsAgreement DEF StakeBandwidth
  <2> QED  BY <1>1, <2>1, <2>2, <2>3, <2>4, <2>5 DEF VoterAction
<1>2. ASSUME NEW v \in Voters, RefundVote(v) PROVE AgreeInv'
  BY <1>2, OtherStepKeepsAgreement DEF RefundVote
<1>3. ASSUME NEW p \in Producers, RegProducer(p) PROVE AgreeInv'
  BY <1>3, RegProducerKeepsAgreement
<1>4. ASSUME NEW p \in Producers, UnregProducer(p) PROVE AgreeInv'
  BY <1>4, OtherStepKeepsAgreement DEF UnregProducer
<1>5. CASE InitElections
  BY <1>5 DEF InitElections, AgreeInv
<1>6. CASE RewardAction
  BY <1>6, RewardActionKeepsAgreement
<1>7. CASE Tick
  BY <1>7, OtherStepKeepsAgreement DEF Tick
<1>8. CASE UNCHANGED vars
  BY <1>8, OtherStepKeepsAgreement DEF vars, systemVars
<1> QED  BY <1>1, <1>2, <1>3, <1>4, <1>5, <1>6, <1>7, <1>8 DEF StakingNext

\* Once the elections are initialized, amax.system and amax.reward hold the
\* same votes and lists for every voter and the same votes for every producer,
\* in every reachable state.
THEOREM ContractsAlwaysAgree == ~LegacyVoting /\ StakingSpec => []ContractsAgree
<1>1. AgreeInv => ContractsAgree
  BY DEF AgreeInv
<1> QED  BY <1>1, InitEstablishesAgreement, NextKeepsAgreement, PTL DEF StakingSpec

-----------------------------------------------------------------------------
(* The types of the rows of amax.system, elections or not.                 *)

ElectedRow == [known : BOOLEAN, active : BOOLEAN, elected : Nat]
VoterRow   == [known : BOOLEAN, votes : Nat, list : SUBSET Producers]

\* The guards of Elect keep elected votes and their total from going below 0.
LEMMA ElectKeepsTypes ==
  ASSUME StakingTypeOK, NEW n \in Nat, NEW m \in Nat,
         NEW from \in SUBSET Producers, NEW to \in SUBSET Producers,
         Elect(from, n, to, m)
  PROVE  /\ prods' \in [Producers -> ElectedRow]
         /\ totalElected' \in Nat
<1>1. Cardinality(from) \in Nat /\ Cardinality(to) \in Nat
  BY FS_Subset, FS_CardinalityType, RewardAssumption DEF RewardAssumption
<1>2. totalElected' \in Nat
  <2> DEFINE less == n * Cardinality(from)
             more == m * Cardinality(to)
  <2>1. less \in Nat /\ more \in Nat
    BY <1>1
  <2>2. totalElected \in Nat /\ totalElected >= less /\ totalElected' = totalElected - less + more
    BY DEF Elect, StakingTypeOK
  <2> HIDE DEF less, more
  <2> QED  BY <2>1, <2>2
<1>3. ASSUME NEW p \in Producers
      PROVE  prods[p].elected - (IF p \in from THEN n ELSE 0) + (IF p \in to THEN m ELSE 0) \in Nat
  BY DEF Elect, StakingTypeOK
<1>4. prods' \in [Producers -> ElectedRow]
  BY <1>3 DEF Elect, StakingTypeOK, ElectedRow
<1> QED  BY <1>2, <1>4

\* What the steps leave alone, and what they do to the row of one voter.
LEMMA VoterRowTyped ==
  ASSUME StakingTypeOK, NEW v \in Voters, NEW n \in Int, voters[v].votes + n >= 0
  PROVE  WithVotes(voters[v], n) \in VoterRow
<1>1. voters[v].votes + n \in Nat /\ voters[v].list \in SUBSET Producers
  BY DEF StakingTypeOK
<1> QED  BY <1>1 DEF WithVotes, VoterRow

LEMMA VoterStepKeepsTypes ==
  ASSUME StakingTypeOK, NEW v \in Voters, VoterAction(v)
  PROVE  StakingTypeOK'
<1>1. /\ voters[v] \in VoterRow /\ Listed(v) \in SUBSET Producers /\ voters[v].votes \in Nat
      /\ {} \in SUBSET Producers /\ 0 \in Nat /\ 0 \in 0 .. VoteInterval + 1
      /\ 0 \in 0 .. RefundDelay
  BY StakingAssumption DEF StakingTypeOK, VoterRow, Listed, StakingAssumption
<1>2. ASSUME NEW n \in 1 .. bal[v], AddVote(v, n) PROVE StakingTypeOK'
  <2>1. n \in Nat /\ voters[v].votes + n >= 0
    BY <1>1
  <2>2. Elect({}, 0, Listed(v), n)
    BY <1>2 DEF AddVote
  <2>3. WithVotes(voters[v], n) \in VoterRow
    BY <2>1, VoterRowTyped
  <2> QED  BY <1>1, <1>2, <2>1, <2>2, <2>3, ElectKeepsTypes
           DEF AddVote, StakingTypeOK, ElectedRow, VoterRow
<1>3. ASSUME NEW n \in 1 .. voters[v].votes, SubVote(v, n) PROVE StakingTypeOK'
  <2>1. n \in Nat /\ voters[v].votes + (-n) >= 0 /\ -n \in Int
    BY <1>1
  <2>2. Elect(Listed(v), n, {}, 0)
    BY <1>3 DEF SubVote
  <2>3. WithVotes(voters[v], -n) \in VoterRow
    BY <2>1, VoterRowTyped
  <2>4. [votes |-> n, age |-> 0] \in [votes : Nat, age : 0 .. RefundDelay]
    BY <1>1, <2>1
  <2>5. prods' \in [Producers -> ElectedRow] /\ totalElected' \in Nat
    BY <1>1, <2>1, <2>2, ElectKeepsTypes
  <2> QED  BY <1>1, <1>3, <2>3, <2>4, <2>5
           DEF SubVote, StakingTypeOK, ElectedRow, VoterRow
<1>4. ASSUME NEW list \in SUBSET Producers, Vote(v, list) PROVE StakingTypeOK'
  <2>1. Elect(Listed(v), voters[v].votes, list, voters[v].votes)
    BY <1>4 DEF Vote
  <2>2. prods' \in [Producers -> ElectedRow] /\ totalElected' \in Nat
    BY <1>1, <2>1, ElectKeepsTypes
  <2> QED  BY <1>1, <1>4, <2>2 DEF Vote, StakingTypeOK, ElectedRow, VoterRow
<1>5. ASSUME NEW list \in SUBSET Producers, LegacyVote(v, list) PROVE StakingTypeOK'
  BY <1>1, <1>5 DEF LegacyVote, StakingTypeOK, VoterRow
<1>6. CASE StakeBandwidth(v)
  <2>1. WithVotes(voters[v], 0) \in VoterRow
    BY <1>1, VoterRowTyped
  <2> QED  BY <1>6, <2>1 DEF StakeBandwidth, StakingTypeOK, VoterRow
<1> QED  BY <1>2, <1>3, <1>4, <1>5, <1>6 DEF VoterAction

LEMMA StakingNextKeepsTypes == StakingTypeOK /\ [StakingNext]_vars => StakingTypeOK'
<1> SUFFICES ASSUME StakingTypeOK, [StakingNext]_vars PROVE StakingTypeOK'
  OBVIOUS
<1>1. ASSUME NEW v \in Voters, VoterAction(v) PROVE StakingTypeOK'
  BY <1>1, VoterStepKeepsTypes
<1>2. ASSUME NEW v \in Voters, RefundVote(v) PROVE StakingTypeOK'
  <2>1. NoRefund \in [votes : Nat, age : 0 .. RefundDelay]
    BY StakingAssumption DEF NoRefund, StakingAssumption
  <2> QED  BY <1>2, <2>1 DEF RefundVote, RowErased, StakingTypeOK
<1>3. ASSUME NEW p \in Producers, RegProducer(p) PROVE StakingTypeOK'
  <2>1. Registered(prods[p]) \in ElectedRow
    BY DEF Registered, StakingTypeOK, ElectedRow
  <2> QED  BY <1>3, <2>1 DEF RegProducer, StakingTypeOK, ElectedRow
<1>4. ASSUME NEW p \in Producers, UnregProducer(p) PROVE StakingTypeOK'
  BY <1>4 DEF UnregProducer, StakingTypeOK
<1>5. CASE InitElections
  BY <1>5 DEF InitElections, StakingTypeOK
<1>6. CASE RewardAction
  BY <1>6 DEF RewardAction, systemVars, StakingTypeOK
<1>7. CASE Tick
  <2>1. sinceUnvoted' \in [Voters -> 0 .. VoteInterval + 1]
    BY <1>7, StakingAssumption DEF Tick, Older, StakingTypeOK, StakingAssumption
  <2>2. ASSUME NEW v \in Voters
        PROVE  (IF refunds[v] = NoRefund THEN NoRefund
                ELSE [refunds[v] EXCEPT !.age = Older(@, RefundDelay)])
                 \in [votes : Nat, age : 0 .. RefundDelay]
    <3>1. refunds[v] \in [votes : Nat, age : 0 .. RefundDelay]
      BY DEF StakingTypeOK
    <3>2. Older(refunds[v].age, RefundDelay) \in 0 .. RefundDelay
      BY <3>1, StakingAssumption DEF Older, StakingAssumption
    <3> QED  BY <3>1, <3>2
  <2>3. refunds' \in [Voters -> [votes : Nat, age : 0 .. RefundDelay]]
    BY <1>7, <2>2 DEF Tick
  <2> QED  BY <1>7, <2>1, <2>3 DEF Tick, StakingTypeOK
<1>8. CASE UNCHANGED vars
  BY <1>8 DEF vars, systemVars, StakingTypeOK
<1> QED  BY <1>1, <1>2, <1>3, <1>4, <1>5, <1>6, <1>7, <1>8 DEF StakingNext

\* Before and after the elections are initialized, the votes of a producer, of
\* a voter and of a refund and the total are natural numbers: no addvote,
\* subvote, vote or refundvote takes away more than there is.
THEOREM StakingTyped == StakingSpec => []StakingTypeOK
<1>1. StakingInit => StakingTypeOK
  BY StakingAssumption DEF StakingInit, StakingTypeOK, NoRefund, StakingAssumption
<1> QED  BY <1>1, StakingNextKeepsTypes, PTL DEF StakingSpec

-----------------------------------------------------------------------------
(* The money of amax.reward when amax.system calls it.                     *)

MoneyInv == RewardInv /\ StakingTypeOK

LEMMA VoteAccountApart ==
  /\ VoteAccount \in Accounts /\ VoteAccount # Reward
  /\ VoteAccount \notin Voters /\ VoteAccount \notin Producers
BY RewardAssumption, StakingAssumption DEF RewardAssumption, StakingAssumption, Accounts

LEMMA TokensIsNat == ASSUME NEW n \in Nat PROVE Tokens(n) \in Nat
BY StakingAssumption, ProductIsNat DEF StakingAssumption, Tokens

\* A voter pays for votes, or is paid for a refund.
LEMMA StakeIsPaid ==
  ASSUME bal \in [Accounts -> Nat], NEW v \in Voters, NEW n \in Nat
  PROVE  /\ bal[v] >= Tokens(n) /\ bal' = Paid(v, VoteAccount, Tokens(n)) =>
              /\ bal' \in [Accounts -> Nat] /\ bal'[Reward] = bal[Reward]
              /\ bal'[VoteAccount] = bal[VoteAccount] + Tokens(n)
         /\ bal[VoteAccount] >= Tokens(n) /\ bal' = Paid(VoteAccount, v, Tokens(n)) =>
              /\ bal' \in [Accounts -> Nat] /\ bal'[Reward] = bal[Reward]
              /\ bal'[VoteAccount] = bal[VoteAccount] - Tokens(n)
<1>1. PICK m \in Nat : m = Tokens(n)
  BY TokensIsNat
<1>2. /\ v \in Accounts /\ v # VoteAccount /\ VoteAccount \in Accounts
      /\ Reward \in Accounts \ {v, VoteAccount}
  BY AccountsApart, VoteAccountApart
<1>3. /\ bal[v] >= m /\ bal' = Paid(v, VoteAccount, m) =>
            /\ bal' \in [Accounts -> Nat] /\ bal'[Reward] = bal[Reward]
            /\ bal'[VoteAccount] = bal[VoteAccount] + m
  BY <1>1, <1>2, PaidIsTyped
<1>4. /\ bal[VoteAccount] >= m /\ bal' = Paid(VoteAccount, v, m) =>
            /\ bal' \in [Accounts -> Nat] /\ bal'[Reward] = bal[Reward]
            /\ bal'[VoteAccount] = bal[VoteAccount] - m
  BY <1>1, <1>2, PaidIsTyped
<1> QED  BY <1>1, <1>3, <1>4

LEMMA VoterKeepsMoney ==
  ASSUME MoneyInv, NEW v \in Voters, VoterAction(v)
  PROVE  RewardInv' /\ EarnedStep
<1>1. RewardInv /\ bal \in [Accounts -> Nat] /\ voters[v].votes \in Nat
  BY DEF MoneyInv, RewardInv, RewardTypeOK, StakingTypeOK
<1>2. ASSUME NEW n \in 1 .. bal[v], AddVote(v, n) PROVE RewardInv' /\ EarnedStep
  <2>1. n \in Nat /\ n \in Int
    OBVIOUS
  <2>2. bal[v] >= Tokens(n) /\ bal' = Paid(v, VoteAccount, Tokens(n)) /\ ChangeVote(v, n)
    BY <1>2 DEF AddVote, CanPay, RewardAddVote
  <2>3. bal' \in [Accounts -> Nat] /\ bal'[Reward] = bal[Reward]
    BY <1>1, <2>1, <2>2, StakeIsPaid
  <2> QED  BY <1>1, <2>1, <2>2, <2>3, CallKeepsMoney
<1>3. ASSUME NEW n \in 1 .. voters[v].votes, SubVote(v, n) PROVE RewardInv' /\ EarnedStep
  <2>1. -n \in Int
    OBVIOUS
  <2>2. bal' = bal /\ ChangeVote(v, -n)
    BY <1>3 DEF SubVote, RewardSubVote
  <2> QED  BY <1>1, <2>1, <2>2, CallKeepsMoney
<1>4. ASSUME NEW list \in SUBSET Producers, Vote(v, list) PROVE RewardInv' /\ EarnedStep
  <2>1. bal' = bal /\ RewardVoteProducer(v, list)
    BY <1>4 DEF Vote
  <2> QED  BY <1>1, <2>1, CallKeepsMoney
<1>5. ASSUME NEW list \in SUBSET Producers, LegacyVote(v, list) PROVE RewardInv' /\ EarnedStep
  <2>1. bal' = bal /\ UNCHANGED rewardVars
    BY <1>5 DEF LegacyVote
  <2> QED  BY <1>1, <2>1, OthersKeepMoney
<1>6. CASE StakeBandwidth(v)
  <2>1. bal' = bal /\ UNCHANGED rewardVars
    BY <1>6 DEF StakeBandwidth
  <2> QED  BY <1>1, <2>1, OthersKeepMoney
<1> QED  BY <1>2, <1>3, <1>4, <1>5, <1>6 DEF VoterAction

LEMMA StakingKeepsMoney ==
  MoneyInv /\ [StakingNext]_vars => MoneyInv' /\ EarnedStep
<1> SUFFICES ASSUME MoneyInv, [StakingNext]_vars PROVE RewardInv' /\ EarnedStep
  BY StakingNextKeepsTypes DEF MoneyInv
<1>1. RewardInv /\ bal \in [Accounts -> Nat] /\ \A v \in Voters : refunds[v].votes \in Nat
  BY DEF MoneyInv, RewardInv, RewardTypeOK, StakingTypeOK
<1>2. ASSUME NEW v \in Voters, VoterAction(v) PROVE RewardInv' /\ EarnedStep
  BY <1>2, VoterKeepsMoney
<1>3. ASSUME NEW v \in Voters, RefundVote(v) PROVE RewardInv' /\ EarnedStep
  <2>1. PICK n \in Nat : n = refunds[v].votes
    BY <1>1
  <2>2. /\ bal[VoteAccount] >= Tokens(n) /\ bal' = Paid(VoteAccount, v, Tokens(n))
        /\ UNCHANGED rewardVars
    BY <1>3, <2>1 DEF RefundVote, CanPay
  <2>3. bal' \in [Accounts -> Nat] /\ bal'[Reward] = bal[Reward]
    BY <1>1, <2>2, StakeIsPaid
  <2> QED  BY <1>1, <2>2, <2>3, OthersKeepMoney
<1>4. ASSUME NEW p \in Producers, RegProducer(p) PROVE RewardInv' /\ EarnedStep
  <2>1. bal' = bal /\ (UNCHANGED rewardVars \/ RegReward(p))
    BY <1>4 DEF RegProducer
  <2> QED  BY <1>1, <2>1, OthersKeepMoney
<1>5. ASSUME NEW p \in Producers, UnregProducer(p) PROVE RewardInv' /\ EarnedStep
  <2>1. bal' = bal /\ UNCHANGED rewardVars
    BY <1>5 DEF UnregProducer
  <2> QED  BY <1>1, <2>1, OthersKeepMoney
<1>6. CASE InitElections
  <2>1. bal' = bal /\ UNCHANGED rewardVars
    BY <1>6 DEF InitElections
  <2> QED  BY <1>1, <2>1, OthersKeepMoney
<1>7. CASE RewardAction
  <2>1. ASSUME NEW p \in Producers, NEW n \in 1 .. bal[p], OnTransfer(p, n)
        PROVE  RewardInv' /\ EarnedStep
    <3>1. n \in Nat
      OBVIOUS
    <3> QED  BY <1>1, <2>1, <3>1, PaymentKeepsMoney
  <2> QED  BY <1>1, <1>7, <2>1, ClaimKeepsMoney DEF RewardAction
<1>8. CASE Tick
  <2>1. bal' = bal /\ UNCHANGED rewardVars
    BY <1>8 DEF Tick
  <2> QED  BY <1>1, <2>1, OthersKeepMoney
<1>9. CASE UNCHANGED vars
  <2>1. bal' = bal /\ UNCHANGED rewardVars
    BY <1>9 DEF vars
  <2> QED  BY <1>1, <2>1, OthersKeepMoney
<1> QED  BY <1>2, <1>3, <1>4, <1>5, <1>6, <1>7, <1>8, <1>9 DEF StakingNext

LEMMA StakingInitHasMoney == StakingInit => MoneyInv
<1>1. StakingInit => StakingTypeOK
  BY StakingAssumption DEF StakingInit, StakingTypeOK, NoRefund, StakingAssumption
<1> QED  BY <1>1, InitHasMoney DEF StakingInit, MoneyInv

LEMMA MoneyAlways == StakingSpec => []MoneyInv
BY StakingInitHasMoney, StakingKeepsMoney, PTL DEF StakingSpec

\* Under amax.system, before and after the elections are initialized, no
\* amount of amax.reward and no balance goes below 0.
THEOREM StakingRewardTyped == StakingSpec => []RewardTypeOK
<1>1. MoneyInv => RewardTypeOK
  BY DEF MoneyInv, RewardInv
<1> QED  BY <1>1, MoneyAlways, PTL

\* What the voters of a producer can claim is covered by what it has paid in,
\* although each claim and each payment is rounded on its own.
THEOREM StakingRewardsCovered == StakingSpec => []RewardsCovered
<1>1. MoneyInv => RewardsCovered
  BY DEF MoneyInv, RewardInv, OwedInv
<1> QED  BY <1>1, MoneyAlways, PTL

\* amax.reward has the money for everything that it owes.
THEOREM StakingSolvent == StakingSpec => []Solvent
<1>1. MoneyInv => Solvent
  BY DEF MoneyInv, RewardInv
<1> QED  BY <1>1, MoneyAlways, PTL

\* A voter with votes and something to claim is never refused by a check of
\* allocate_producer_rewards, nor for want of money.
THEOREM StakingClaimNeverRefused == StakingSpec => []ClaimNeverRefused
<1>1. MoneyInv => ClaimNeverRefused
  BY ClaimsArePossible DEF MoneyInv
<1> QED  BY <1>1, MoneyAlways, PTL

\* No step takes from what a voter has earned, and only a payment of a
\* producer of its list adds to it.
THEOREM StakingEarnedByPaymentsOnly == StakingSpec => EarnedByPaymentsOnly
<1> DEFINE Step ==
      \A v \in Voters :
        /\ Earned(v)' >= Earned(v)
        /\ Earned(v)' > Earned(v) =>
             \E p \in DOMAIN marks[v] : producer'[p].total > producer[p].total
<1>1. MoneyInv /\ [StakingNext]_vars => [Step]_<<rewardVars, bal>>
  BY StakingKeepsMoney DEF EarnedStep
<1>2. StakingSpec => [][Step]_<<rewardVars, bal>>
  BY <1>1, MoneyAlways, PTL DEF StakingSpec
<1> QED  BY <1>2 DEF EarnedByPaymentsOnly

-----------------------------------------------------------------------------
(* The tokens of the vote account.                                         *)

Owned == [v \in Voters |-> voters[v].votes + refunds[v].votes]

BackedInv == MoneyInv /\ StakesBacked

LEMMA FactorDistributes ==
  ASSUME NEW s \in Int, NEW d \in Int
  PROVE  Tokens(s + d) = Tokens(s) + Tokens(d) /\ Tokens(s) \in Int /\ Tokens(d) \in Int
         /\ Tokens(-d) = -Tokens(d)
BY StakingAssumption DEF StakingAssumption, Tokens

LEMMA OwnedIsNat == StakingTypeOK => Owned \in [Voters -> Nat]
BY DEF StakingTypeOK, Owned

LEMMA OwnedIsNatAfter == (StakingTypeOK => Owned \in [Voters -> Nat])'
BY OwnedIsNat, PTL

\* A step that changes what v owns by d moves as many tokens.
LEMMA StakeStep ==
  ASSUME BackedInv, MoneyInv', NEW v \in Voters, NEW d \in Int,
         voters'[v].votes + refunds'[v].votes = voters[v].votes + refunds[v].votes + d,
         \A w \in Voters \ {v} : voters'[w].votes + refunds'[w].votes
                                   = voters[w].votes + refunds[w].votes,
         bal'[VoteAccount] = bal[VoteAccount] + Tokens(d)
  PROVE  StakesBacked'
<1>1. PICK f \in [Voters -> Int], g \in [Voters -> Int] : f = Owned /\ g = Owned'
  <2>1. Owned \in [Voters -> Nat] /\ Owned' \in [Voters -> Nat]
    BY OwnedIsNat, OwnedIsNatAfter DEF BackedInv, MoneyInv
  <2>2. Owned \in [Voters -> Int] /\ Owned' \in [Voters -> Int]
    BY <2>1
  <2> QED  BY <2>2
<1>2. g[v] = f[v] + d /\ \A w \in Voters \ {v} : g[w] = f[w]
  BY <1>1 DEF Owned
<1>3. SumFunction(g) = SumFunction(f) - f[v] + g[v] /\ SumFunction(f) \in Int
  BY <1>2, Finite, SumChange, SumInt
<1>4. SumFunction(g) = SumFunction(f) + d
  BY <1>2, <1>3
<1>5. PICK s \in Int : s = SumFunction(f)
  BY <1>3
<1>6. Tokens(s + d) = Tokens(s) + Tokens(d) /\ Tokens(s) \in Int /\ Tokens(d) \in Int
  BY FactorDistributes
<1>7. bal[VoteAccount] = Funds[VoteAccount] + Tokens(s)
  BY <1>1, <1>5 DEF BackedInv, StakesBacked, Owned
<1>8. Funds[VoteAccount] \in Int
  BY AccountsApart, VoteAccountApart
<1>9. bal'[VoteAccount] = Funds[VoteAccount] + Tokens(s + d)
  BY <1>6, <1>7, <1>8
<1>10. bal'[VoteAccount] = Funds[VoteAccount] + Tokens(SumFunction(Owned'))
  BY <1>1, <1>4, <1>5, <1>9
<1> QED  BY <1>10 DEF StakesBacked, Owned

\* A step that changes neither votes nor refunds, and moves the tokens of
\* other accounts only.
LEMMA OtherStakeStep ==
  ASSUME BackedInv,
         \A w \in Voters : /\ voters'[w].votes = voters[w].votes
                           /\ refunds'[w].votes = refunds[w].votes,
         bal'[VoteAccount] = bal[VoteAccount]
  PROVE  StakesBacked'
<1>1. Owned' = Owned
  BY DEF Owned
<1> QED  BY <1>1 DEF BackedInv, StakesBacked, Owned

LEMMA VoterKeepsBacked ==
  ASSUME BackedInv, MoneyInv', NEW v \in Voters, VoterAction(v)
  PROVE  StakesBacked'
<1>1. /\ StakingTypeOK /\ bal \in [Accounts -> Nat]
      /\ voters[v].votes \in Nat /\ refunds[v].votes \in Nat
  BY DEF BackedInv, MoneyInv, RewardInv, RewardTypeOK, StakingTypeOK
<1>2. ASSUME NEW n \in 1 .. bal[v], AddVote(v, n) PROVE StakesBacked'
  <2>1. n \in Nat /\ n \in Int
    OBVIOUS
  <2>2. bal[v] >= Tokens(n) /\ bal' = Paid(v, VoteAccount, Tokens(n))
    BY <1>2 DEF AddVote, CanPay
  <2>3. bal'[VoteAccount] = bal[VoteAccount] + Tokens(n)
    BY <1>1, <2>1, <2>2, StakeIsPaid
  <2>4. refunds' = refunds /\ voters' = [voters EXCEPT ![v] = WithVotes(voters[v], n)]
    BY <1>2 DEF AddVote
  <2>5. /\ voters'[v].votes + refunds'[v].votes = voters[v].votes + refunds[v].votes + n
        /\ \A w \in Voters \ {v} : voters'[w] = voters[w] /\ refunds'[w] = refunds[w]
    BY <1>1, <2>4 DEF WithVotes, StakingTypeOK
  <2> QED  BY <2>1, <2>3, <2>5, StakeStep
<1>3. ASSUME NEW n \in 1 .. voters[v].votes, SubVote(v, n) PROVE StakesBacked'
  <2>1. n \in Nat /\ 0 \in Int
    OBVIOUS
  <2>2. /\ refunds[v] = NoRefund /\ bal' = bal
        /\ refunds' = [refunds EXCEPT ![v] = [votes |-> n, age |-> 0]]
        /\ voters' = [voters EXCEPT ![v] = WithVotes(voters[v], -n)]
    BY <1>3 DEF SubVote, RefundFree
  <2>3. voters'[v].votes = voters[v].votes + (-n) /\ refunds'[v].votes = n /\ refunds[v].votes = 0
    BY <1>1, <2>2 DEF WithVotes, StakingTypeOK, NoRefund
  <2>4. voters'[v].votes + refunds'[v].votes = voters[v].votes + refunds[v].votes + 0
    BY <1>1, <2>1, <2>3
  <2>5. \A w \in Voters \ {v} : voters'[w] = voters[w] /\ refunds'[w] = refunds[w]
    BY <1>1, <2>2 DEF StakingTypeOK
  <2>6. bal'[VoteAccount] = bal[VoteAccount] + Tokens(0)
    <3>1. Tokens(0) = 0
      BY StakingAssumption DEF StakingAssumption, Tokens
    <3>2. bal[VoteAccount] + 0 = bal[VoteAccount]
      BY <1>1, VoteAccountApart
    <3> QED  BY <2>2, <3>1, <3>2
  <2> QED  BY <2>1, <2>4, <2>5, <2>6, StakeStep
<1>4. ASSUME NEW list \in SUBSET Producers, Vote(v, list) \/ LegacyVote(v, list)
      PROVE  StakesBacked'
  <2>1. /\ bal' = bal /\ refunds' = refunds
        /\ voters' = [voters EXCEPT ![v].list = list]
    BY <1>4 DEF Vote, LegacyVote
  <2>2. \A w \in Voters : voters'[w].votes = voters[w].votes
    BY <1>1, <2>1 DEF StakingTypeOK
  <2> QED  BY <2>1, <2>2, OtherStakeStep
<1>5. CASE StakeBandwidth(v)
  <2>1. /\ bal' = bal /\ refunds' = refunds
        /\ voters' = [voters EXCEPT ![v] = WithVotes(voters[v], 0)]
    BY <1>5 DEF StakeBandwidth
  <2>2. \A w \in Voters : voters'[w].votes = voters[w].votes
    BY <1>1, <2>1 DEF StakingTypeOK, WithVotes
  <2> QED  BY <2>1, <2>2, OtherStakeStep
<1> QED  BY <1>2, <1>3, <1>4, <1>5 DEF VoterAction

LEMMA NextKeepsBacked == BackedInv /\ MoneyInv' /\ [StakingNext]_vars => StakesBacked'
<1> SUFFICES ASSUME BackedInv, MoneyInv', [StakingNext]_vars PROVE StakesBacked'
  OBVIOUS
<1>1. /\ StakingTypeOK /\ bal \in [Accounts -> Nat]
      /\ \A v \in Voters : refunds[v].votes \in Nat
  BY DEF BackedInv, MoneyInv, RewardInv, RewardTypeOK, StakingTypeOK
<1>2. ASSUME NEW v \in Voters, VoterAction(v) PROVE StakesBacked'
  BY <1>2, VoterKeepsBacked
<1>3. ASSUME NEW v \in Voters, RefundVote(v) PROVE StakesBacked'
  <2>1. PICK n \in Nat : n = refunds[v].votes
    BY <1>1
  <2>2. /\ bal[VoteAccount] >= Tokens(n) /\ bal' = Paid(VoteAccount, v, Tokens(n))
        /\ voters' = voters /\ refunds' = [refunds EXCEPT ![v] = NoRefund]
    BY <1>3, <2>1 DEF RefundVote, CanPay, RowErased
  <2>3. bal'[VoteAccount] = bal[VoteAccount] - Tokens(n)
    BY <1>1, <2>2, StakeIsPaid
  <2>4. bal'[VoteAccount] = bal[VoteAccount] + Tokens(-n)
    <3>1. Tokens(-n) = -Tokens(n) /\ Tokens(n) \in Int
      BY FactorDistributes
    <3>2. bal[VoteAccount] \in Int
      BY <1>1, VoteAccountApart
    <3> QED  BY <2>3, <3>1, <3>2
  <2>5. /\ refunds'[v].votes = 0 /\ voters'[v].votes = voters[v].votes
        /\ voters[v].votes \in Nat
        /\ \A w \in Voters \ {v} : voters'[w] = voters[w] /\ refunds'[w] = refunds[w]
    BY <1>1, <2>2 DEF StakingTypeOK, NoRefund
  <2>6. voters'[v].votes + refunds'[v].votes = voters[v].votes + refunds[v].votes + (-n)
    BY <2>1, <2>5
  <2> QED  BY <2>4, <2>5, <2>6, StakeStep
<1>4. ASSUME bal'[VoteAccount] = bal[VoteAccount], voters' = voters,
             \A w \in Voters : refunds'[w].votes = refunds[w].votes
      PROVE  StakesBacked'
  BY <1>4, OtherStakeStep
<1>5. ASSUME NEW p \in Producers, RegProducer(p) \/ UnregProducer(p) PROVE StakesBacked'
  BY <1>4, <1>5 DEF RegProducer, UnregProducer
<1>6. CASE InitElections
  BY <1>4, <1>6 DEF InitElections
<1>7. CASE RewardAction
  <2>1. voters' = voters /\ refunds' = refunds
    BY <1>7 DEF RewardAction, systemVars
  <2>2. ASSUME NEW v \in Voters, Claim(v) PROVE bal'[VoteAccount] = bal[VoteAccount]
    <3>1. PICK due \in Nat : due = Due(v)
      BY EarnedIsSum DEF BackedInv, MoneyInv
    <3>2. bal' = Paid(Reward, v, due) /\ bal[Reward] >= due
      BY <2>2, <3>1 DEF Claim, CanPay
    <3>3. Reward \in Accounts /\ v \in Accounts /\ v # Reward /\ VoteAccount \in Accounts \ {Reward, v}
      BY AccountsApart, VoteAccountApart
    <3>4. bal \in [Accounts -> Nat] /\ Reward # v
      BY <1>1, <3>3 DEF RewardTypeOK
    <3>5. \A c \in Accounts \ {Reward, v} : Paid(Reward, v, due)[c] = bal[c]
      BY ONLY <3>1, <3>2, <3>3, <3>4, PaidIsTyped
    <3>6. Paid(Reward, v, due)[VoteAccount] = bal[VoteAccount]
      BY ONLY <3>3, <3>5
    <3> QED  BY <3>2, <3>6
  <2>3. ASSUME NEW p \in Producers, NEW n \in 1 .. bal[p], OnTransfer(p, n)
        PROVE  bal'[VoteAccount] = bal[VoteAccount]
    <3>1. n \in Nat /\ bal' = Paid(p, Reward, n) /\ bal[p] >= n
      BY <2>3 DEF OnTransfer, CanPay
    <3>2. Reward \in Accounts /\ p \in Accounts /\ p # Reward /\ VoteAccount \in Accounts \ {p, Reward}
      BY AccountsApart, VoteAccountApart
    <3>3. bal \in [Accounts -> Nat]
      BY <1>1 DEF RewardTypeOK
    <3>4. \A c \in Accounts \ {p, Reward} : Paid(p, Reward, n)[c] = bal[c]
      BY ONLY <3>1, <3>2, <3>3, PaidIsTyped
    <3>5. Paid(p, Reward, n)[VoteAccount] = bal[VoteAccount]
      BY ONLY <3>2, <3>4
    <3> QED  BY <3>1, <3>5
  <2> QED  BY <1>4, <1>7, <2>1, <2>2, <2>3 DEF RewardAction
<1>8. CASE Tick
  <2>1. \A w \in Voters : refunds'[w].votes = refunds[w].votes
    BY <1>1, <1>8 DEF Tick, StakingTypeOK
  <2> QED  BY <1>4, <1>8, <2>1 DEF Tick
<1>9. CASE UNCHANGED vars
  BY <1>4, <1>9 DEF vars, systemVars
<1> QED  BY <1>2, <1>3, <1>5, <1>6, <1>7, <1>8, <1>9 DEF StakingNext

\* The vote account always holds the tokens of all votes and of all refunds
\* that are not paid yet, whatever the two ways of voting did to the lists.
THEOREM StakesAlwaysBacked == StakingSpec => []StakesBacked
<1>1. StakingInit => StakesBacked
  <2> SUFFICES ASSUME StakingInit PROVE StakesBacked
    OBVIOUS
  <2>1. PICK zero \in [Voters -> Int] : zero = [v \in Voters |-> 0]
    <3>1. [v \in Voters |-> 0] \in [Voters -> Int]
      OBVIOUS
    <3> QED  BY <3>1
  <2>2. \A v \in Voters : voters[v].votes + refunds[v].votes = 0
    BY DEF StakingInit, NoRefund
  <2>3. Owned = zero
    BY <2>1, <2>2 DEF Owned
  <2>4. SumFunction(Owned) = 0
    BY <2>1, <2>3, Finite, SumZero
  <2>5. Tokens(0) = 0
    BY StakingAssumption DEF StakingAssumption, Tokens
  <2>6. Funds[VoteAccount] + 0 = Funds[VoteAccount] /\ bal = Funds
    BY AccountsApart, VoteAccountApart DEF StakingInit, RewardInit
  <2> QED  BY <2>4, <2>5, <2>6 DEF StakesBacked, Owned
<1>2. BackedInv /\ [StakingNext]_vars => BackedInv'
  BY StakingKeepsMoney, NextKeepsBacked DEF BackedInv
<1>3. StakingInit => BackedInv
  BY <1>1, StakingInitHasMoney DEF BackedInv
<1>4. BackedInv => StakesBacked
  BY DEF BackedInv
<1> QED  BY <1>2, <1>3, <1>4, PTL DEF StakingSpec

-----------------------------------------------------------------------------
(* The elected votes add up, and can be taken back.  Once the elections    *)
(* are initialized a list is set by vote alone, which checks that the      *)
(* producers are there, and no action removes the row of a producer.       *)

ListedKnown == \A v \in Voters : \A p \in Listed(v) : prods[p].known
ElectedVotes == [p \in Producers |-> prods[p].elected]

ElectInv ==
  /\ AgreeInv /\ MoneyInv
  /\ ListedKnown /\ totalElected = SumFunction(ElectedVotes)

\* What is taken from the producers of from and given to those of to, taken
\* from the total and given to it.
LEMMA ElectKeepsTotal ==
  ASSUME SystemRowsOK, totalElected = SumFunction(ElectedVotes),
         NEW n \in Int, NEW m \in Int,
         NEW from \in SUBSET Producers, NEW to \in SUBSET Producers,
         Elect(from, n, to, m)
  PROVE  /\ totalElected' = SumFunction(ElectedVotes')
         /\ \A p \in Producers : prods'[p].known = prods[p].known
<1>1. PICK f \in [Producers -> Int], g \in [Producers -> Int], less \in [Producers -> Int],
           more \in [Producers -> Int], both \in [Producers -> Int] :
        /\ f = ElectedVotes /\ g = ElectedVotes'
        /\ less = [p \in Producers |-> IF p \in from THEN n ELSE 0]
        /\ more = [p \in Producers |-> IF p \in to THEN m ELSE 0]
        /\ both = [p \in Producers |-> f[p] + more[p]]
  <2>1. ElectedVotes \in [Producers -> Int]
    BY DEF SystemRowsOK, ElectedVotes
  <2>2. prods' \in [Producers -> [known : BOOLEAN, active : BOOLEAN, elected : Int]]
    BY ElectedChange
  <2>3. ElectedVotes' \in [Producers -> Int]
    BY <2>2 DEF ElectedVotes
  <2>4. /\ [p \in Producers |-> IF p \in from THEN n ELSE 0] \in [Producers -> Int]
        /\ [p \in Producers |-> IF p \in to THEN m ELSE 0] \in [Producers -> Int]
    OBVIOUS
  <2>5. PICK f \in [Producers -> Int], more \in [Producers -> Int] :
          f = ElectedVotes /\ more = [p \in Producers |-> IF p \in to THEN m ELSE 0]
    BY <2>1, <2>4
  <2>6. [p \in Producers |-> f[p] + more[p]] \in [Producers -> Int]
    OBVIOUS
  <2> QED  BY <2>3, <2>4, <2>5, <2>6
<1>2. \A p \in Producers : g[p] = f[p] - less[p] + more[p]
  BY <1>1, ElectedChange DEF ElectedVotes
<1>3. /\ \A p \in Producers : both[p] = f[p] + more[p]
      /\ \A p \in Producers : g[p] = (-1) * less[p] + both[p]
  BY <1>1, <1>2
<1>4. SumFunction(both) = SumFunction(f) + SumFunction(more)
  <2>1. \A p \in Producers : both[p] = f[p] + more[p]
    BY <1>3
  <2> QED  BY <2>1, Finite, SumPlus
<1>5. SumFunction(g) = (-1) * SumFunction(less) + SumFunction(both)
  <2>1. -1 \in Int /\ \A p \in Producers : g[p] = (-1) * less[p] + both[p]
    BY <1>3
  <2> QED  BY <2>1, Finite, SumLinear, SMTT(60)
<1>6. SumFunction(less) = n * Cardinality(from) /\ SumFunction(more) = m * Cardinality(to)
  BY <1>1, Finite, SumOfConstant
<1>7. SumFunction(f) \in Int /\ SumFunction(less) \in Int /\ SumFunction(more) \in Int
  BY Finite, SumInt
<1>8. totalElected' = totalElected - SumFunction(less) + SumFunction(more)
  BY <1>6 DEF Elect
<1>9. totalElected' = SumFunction(g)
  BY <1>1, <1>4, <1>5, <1>7, <1>8
<1>10. \A p \in Producers : prods'[p].known = prods[p].known
  BY DEF Elect, SystemRowsOK
<1> QED  BY <1>1, <1>9, <1>10

LEMMA VoterKeepsElected ==
  ASSUME ElectInv, NEW v \in Voters, VoterAction(v)
  PROVE  ListedKnown' /\ totalElected' = SumFunction(ElectedVotes')
<1>1. /\ SystemRowsOK /\ electionsOn = TRUE /\ ListedKnown
      /\ totalElected = SumFunction(ElectedVotes)
      /\ Listed(v) \in SUBSET Producers /\ voters[v].votes \in Int
      /\ {} \in SUBSET Producers /\ 0 \in Int
  BY DEF ElectInv, AgreeInv, SystemRowsOK, Listed
<1>2. ASSUME NEW n \in Int, Elect({}, 0, Listed(v), n) \/ Elect(Listed(v), n, {}, 0),
             NEW row, voters' = [voters EXCEPT ![v] = row], row.list = Listed(v)
      PROVE  ListedKnown' /\ totalElected' = SumFunction(ElectedVotes')
  <2>1. /\ totalElected' = SumFunction(ElectedVotes')
        /\ \A p \in Producers : prods'[p].known = prods[p].known
    BY <1>1, <1>2, ElectKeepsTotal
  <2>2. \A w \in Voters : voters'[w].list = voters[w].list /\ voters[w].list \subseteq Producers
    BY <1>1, <1>2 DEF SystemRowsOK, Listed
  <2> QED  BY <1>1, <2>1, <2>2 DEF ListedKnown, Listed
<1>3. ASSUME NEW n \in 1 .. bal[v], AddVote(v, n)
      PROVE  ListedKnown' /\ totalElected' = SumFunction(ElectedVotes')
  <2>1. n \in Int /\ WithVotes(voters[v], n).list = Listed(v)
    BY DEF WithVotes, Listed
  <2> QED  BY <1>2, <1>3, <2>1 DEF AddVote
<1>4. ASSUME NEW n \in 1 .. voters[v].votes, SubVote(v, n)
      PROVE  ListedKnown' /\ totalElected' = SumFunction(ElectedVotes')
  <2>1. n \in Int /\ WithVotes(voters[v], -n).list = Listed(v)
    BY DEF WithVotes, Listed
  <2> QED  BY <1>2, <1>4, <2>1 DEF SubVote
<1>5. ASSUME NEW list \in SUBSET Producers, Vote(v, list)
      PROVE  ListedKnown' /\ totalElected' = SumFunction(ElectedVotes')
  <2>1. /\ Elect(Listed(v), voters[v].votes, list, voters[v].votes)
        /\ voters' = [voters EXCEPT ![v].list = list]
    BY <1>5 DEF Vote
  <2>2. /\ totalElected' = SumFunction(ElectedVotes')
        /\ \A p \in Producers : prods'[p].known = prods[p].known
    BY <1>1, <2>1, ElectKeepsTotal
  <2>3. \A w \in Voters : /\ voters'[w].list = IF w = v THEN list ELSE voters[w].list
                          /\ voters[w].list \subseteq Producers
    BY <1>1, <2>1 DEF SystemRowsOK
  <2>4. \A p \in list : prods[p].known
    BY <2>1 DEF Elect
  <2> QED  BY <1>1, <2>2, <2>3, <2>4 DEF ListedKnown, Listed
<1>6. ASSUME NEW list \in SUBSET Producers, LegacyVote(v, list)
      PROVE  FALSE
  BY <1>1, <1>6 DEF LegacyVote
<1>7. CASE StakeBandwidth(v)
  <2>1. /\ voters' = [voters EXCEPT ![v] = WithVotes(voters[v], 0)]
        /\ prods' = prods /\ totalElected' = totalElected
    BY <1>7 DEF StakeBandwidth
  <2>2. \A w \in Voters : voters'[w].list = voters[w].list
    BY <1>1, <2>1 DEF SystemRowsOK, WithVotes
  <2> QED  BY <1>1, <2>1, <2>2 DEF ListedKnown, ElectedVotes, Listed
<1> QED  BY <1>3, <1>4, <1>5, <1>6, <1>7 DEF VoterAction

LEMMA NextKeepsElected == ElectInv /\ [StakingNext]_vars => ElectInv'
<1> SUFFICES ASSUME ElectInv, [StakingNext]_vars
             PROVE  ListedKnown' /\ totalElected' = SumFunction(ElectedVotes')
  BY NextKeepsAgreement, StakingKeepsMoney DEF ElectInv
<1>1. /\ SystemRowsOK /\ ListedKnown /\ totalElected = SumFunction(ElectedVotes)
  BY DEF ElectInv, AgreeInv
<1>2. ASSUME voters' = voters, totalElected' = totalElected,
             \A p \in Producers : /\ prods'[p].elected = prods[p].elected
                                  /\ prods[p].known => prods'[p].known
      PROVE  ListedKnown' /\ totalElected' = SumFunction(ElectedVotes')
  <2>1. ElectedVotes' = ElectedVotes
    BY <1>2 DEF ElectedVotes
  <2>2. ListedKnown'
    BY <1>1, <1>2 DEF ListedKnown, Listed, SystemRowsOK
  <2> QED  BY <1>1, <1>2, <2>1, <2>2
<1>3. ASSUME voters' = voters, totalElected' = totalElected, prods' = prods
      PROVE  ListedKnown' /\ totalElected' = SumFunction(ElectedVotes')
  BY <1>2, <1>3
<1>4. ASSUME NEW v \in Voters, VoterAction(v)
      PROVE  ListedKnown' /\ totalElected' = SumFunction(ElectedVotes')
  BY <1>4, VoterKeepsElected
<1>5. ASSUME NEW v \in Voters, RefundVote(v)
      PROVE  ListedKnown' /\ totalElected' = SumFunction(ElectedVotes')
  BY <1>3, <1>5 DEF RefundVote
<1>6. ASSUME NEW q \in Producers, RegProducer(q) \/ UnregProducer(q)
      PROVE  ListedKnown' /\ totalElected' = SumFunction(ElectedVotes')
  <2>1. \A p \in Producers : /\ prods'[p].elected = prods[p].elected
                             /\ prods[p].known => prods'[p].known
    BY <1>1, <1>6 DEF RegProducer, UnregProducer, Registered, SystemRowsOK
  <2>2. voters' = voters /\ totalElected' = totalElected
    BY <1>6 DEF RegProducer, UnregProducer
  <2> QED  BY <1>2, <2>1, <2>2
<1>7. CASE InitElections
  BY <1>3, <1>7 DEF InitElections
<1>8. CASE RewardAction
  BY <1>3, <1>8 DEF RewardAction, systemVars
<1>9. CASE Tick
  BY <1>3, <1>9 DEF Tick
<1>10. CASE UNCHANGED vars
  BY <1>3, <1>10 DEF vars, systemVars
<1> QED  BY <1>4, <1>5, <1>6, <1>7, <1>8, <1>9, <1>10 DEF StakingNext

LEMMA InitElects == ~LegacyVoting /\ StakingInit => ElectInv
<1> SUFFICES ASSUME ~LegacyVoting, StakingInit PROVE ElectInv
  OBVIOUS
<1>1. AgreeInv /\ MoneyInv
  BY InitEstablishesAgreement, StakingInitHasMoney
<1>2. ListedKnown
  BY DEF StakingInit, ListedKnown, Listed
<1>3. PICK none \in [Producers -> Int] : none = [p \in Producers |-> 0]
  <2>1. [p \in Producers |-> 0] \in [Producers -> Int]
    OBVIOUS
  <2> QED  BY <2>1
<1>4. SumFunction(none) = 0
  BY <1>3, Finite, SumZero
<1>5. ElectedVotes = none /\ totalElected = 0
  BY <1>3 DEF StakingInit, ElectedVotes
<1> QED  BY <1>1, <1>2, <1>4, <1>5 DEF ElectInv

LEMMA ElectAlways == ~LegacyVoting /\ StakingSpec => []ElectInv
BY InitElects, NextKeepsElected, PTL DEF StakingSpec

\* The two contracts' votes for one producer are the same function.
LEMMA VotesOfProducer ==
  ASSUME ElectInv, NEW p \in Producers
  PROVE  /\ [v \in Voters |-> IF p \in Listed(v) THEN voters[v].votes ELSE 0]
              = [v \in Voters |-> HeldVotes(v, p)]
         /\ prods[p].elected = SumFunction([v \in Voters |-> HeldVotes(v, p)])
<1>1. \A v \in Voters : HeldVotes(v, p) = IF p \in Listed(v) THEN voters[v].votes ELSE 0
  BY DEF ElectInv, AgreeInv, ContractsAgree, HeldVotes, InList
<1>2. prods[p].elected = producer[p].votes
  BY DEF ElectInv, AgreeInv, ContractsAgree
<1>3. producer[p].votes = SumFunction([v \in Voters |-> HeldVotes(v, p)])
  BY DEF ElectInv, MoneyInv, RewardInv, OwedInv, VotesAddUp
<1> QED  BY <1>1, <1>2, <1>3

\* Once the elections are initialized, the elected votes of every producer are
\* those of the voters that list it, and the total is the sum of all, through
\* every change of lists by addition and subtraction.
THEOREM ElectedVotesAlwaysAddUp == ~LegacyVoting /\ StakingSpec => []ElectedVotesAddUp
<1>1. ASSUME ElectInv PROVE ElectedVotesAddUp
  <2>1. ASSUME NEW p \in Producers
        PROVE  prods[p].elected = SumFunction([v \in Voters |->
                                    IF p \in Listed(v) THEN voters[v].votes ELSE 0])
    BY <1>1, VotesOfProducer
  <2>2. totalElected = SumFunction([p \in Producers |-> prods[p].elected])
    BY <1>1 DEF ElectInv, ElectedVotes
  <2> QED  BY <2>1, <2>2 DEF ElectedVotesAddUp
<1>2. ElectInv => ElectedVotesAddUp
  BY <1>1
<1> QED  BY <1>2, ElectAlways, PTL

\* Once the elections are initialized, no check on the votes of amax.system or
\* of amax.reward keeps a voter from subtracting all the votes it has.
THEOREM VotesCanAlwaysBeTakenBack == ~LegacyVoting /\ StakingSpec => []VotesCanBeTakenBack
<1>1. ASSUME ElectInv, NEW v \in Voters
      PROVE  /\ votes[v] >= voters[v].votes
             /\ \A p \in Listed(v) : prods[p].known /\ prods[p].elected >= voters[v].votes
             /\ \A p \in DOMAIN marks[v] : CanAllocate(v, p, -voters[v].votes)
  <2>1. /\ votes[v] = voters[v].votes /\ votes[v] \in Nat /\ Listed(v) = DOMAIN marks[v]
        /\ Listed(v) \subseteq Producers /\ RowsInv /\ OwedInv
    BY <1>1 DEF ElectInv, AgreeInv, ContractsAgree, SystemRowsOK, Listed, RowsInv, RowsTypeOK,
                MoneyInv, RewardInv
  <2>2. ASSUME NEW p \in Listed(v)
        PROVE  prods[p].known /\ prods[p].elected >= voters[v].votes
    <3>1. p \in Producers /\ prods[p].known
      BY <1>1, <2>1 DEF ElectInv, ListedKnown
    <3>2. PICK f \in [Voters -> Nat] : f = [w \in Voters |-> HeldVotes(w, p)]
      <4>1. [w \in Voters |-> HeldVotes(w, p)] \in [Voters -> Nat]
        BY <2>1, <3>1, OwedIsNat
      <4> QED  BY <4>1
    <3>3. f[v] <= SumFunction(f)
      BY Finite, SumNat
    <3>4. f[v] = votes[v]
      BY <2>1, <3>2 DEF HeldVotes, InList
    <3>5. prods[p].elected = SumFunction(f) /\ SumFunction(f) \in Nat
      BY <1>1, <3>1, <3>2, VotesOfProducer, Finite, SumNat
    <3> QED  BY <2>1, <3>1, <3>3, <3>4, <3>5
  <2>3. ASSUME NEW p \in DOMAIN marks[v] PROVE CanAllocate(v, p, -voters[v].votes)
    <3>1. -voters[v].votes \in Int /\ votes[v] + (-voters[v].votes) >= 0
      BY <2>1
    <3> QED  BY <2>1, <3>1, AlwaysCanAllocate
  <2> QED  BY <2>1, <2>2, <2>3
<1>2. ElectInv => VotesCanBeTakenBack
  BY <1>1 DEF VotesCanBeTakenBack
<1> QED  BY <1>2, ElectAlways, PTL
=============================================================================
