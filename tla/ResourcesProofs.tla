--------------------------- MODULE ResourcesProofs ---------------------------
(***************************************************************************)
(* Theorems about resources, for all accounts, amounts, fees and sizes of  *)
(* the RAM.  The limits of an account follow its totals, whichever of the  *)
(* three handlers wrote them last.  The market of RAM can always pay for   *)
(* what is sold to it: no step makes the product of its two connectors     *)
(* fall below the initial quote times the size of the RAM, as every        *)
(* rounding favours the market.  And the books balance: delegations,       *)
(* totals and votes agree, the stake account holds what is staked and      *)
(* owed, and every byte of RAM is free or somebody's.                      *)
(***************************************************************************)
EXTENDS Resources, Sums, TLAPS

Wallets == Accounts \cup {Stake, RamAccount, FeeAccount}
ResourceNames == {"ram", "net", "cpu"}

TotalsType == [row : BOOLEAN, net : Int, cpu : Int, ram : Int]
VoterType  == [known : BOOLEAN, staked : Int, managed : SUBSET ResourceNames]
LimitsType == [ram : Int, net : Int, cpu : Int]

RowsOK ==
  /\ res \in [Accounts -> TotalsType]
  /\ voter \in [Accounts -> VoterType]
  /\ limits \in [Accounts -> LimitsType]
  /\ bal = [w \in Wallets |-> bal[w]]

\* The product of the connectors is enough to buy all RAM back.
ProductHolds == InitialQuote * ram.size <= market.quote * market.base

MarketOK ==
  /\ market \in [base : Nat, quote : Nat]
  /\ ram \in [size : Nat, reserved : Int, stake : Nat, rate : Nat]
  /\ elapsed \in Nat
  /\ MarketMatches
  /\ ProductHolds

ResourcesInv == RowsOK /\ LimitsFollowTotals /\ MarketOK

-----------------------------------------------------------------------------
(* Arithmetic.                                                             *)

LEMMA Quotient ==
  ASSUME NEW n \in Nat, NEW d \in Nat, d > 0
  PROVE  n \div d \in Nat /\ (n \div d) * d <= n
OBVIOUS

LEMMA Product ==
  ASSUME NEW m \in Nat, NEW n \in Nat
  PROVE  m * n \in Nat
OBVIOUS

LEMMA QuotientMonotone ==
  ASSUME NEW n \in Nat, NEW q \in Nat, NEW d \in Nat, d > 0, n <= q * d
  PROVE  n \div d <= q
OBVIOUS

\* Both connectors grow or the product stays: base grows with the size.
LEMMA GrowthKeepsProduct ==
  ASSUME NEW initial \in Nat, NEW size \in Nat, NEW quote \in Nat, NEW base \in Nat,
         NEW more \in Nat, initial <= quote, initial * size <= quote * base
  PROVE  initial * (size + more) <= quote * (base + more)
<1>1. initial * more <= quote * more
  OBVIOUS
<1>2. /\ initial * (size + more) = initial * size + initial * more
      /\ quote * (base + more) = quote * base + quote * more
  OBVIOUS
<1>3. /\ initial * size \in Nat /\ initial * more \in Nat
      /\ quote * base \in Nat /\ quote * more \in Nat
  BY Product
<1> QED  BY <1>1, <1>2, <1>3

\* What goes into one connector takes out of the other no more than keeps the
\* product: in enters reserveIn, out leaves reserveOut.
LEMMA TradeKeepsProduct ==
  ASSUME NEW reserveIn \in Nat, NEW reserveOut \in Nat, NEW in \in Nat, reserveIn + in > 0
  PROVE  LET out == BancorOutput(reserveIn, reserveOut, in)
         IN  /\ out \in Nat /\ out <= reserveOut
             /\ out * (reserveIn + in) <= in * reserveOut
             /\ reserveIn * reserveOut <= (reserveIn + in) * (reserveOut - out)
<1> DEFINE sum == reserveIn + in
           out == BancorOutput(reserveIn, reserveOut, in)
<1>1. sum \in Nat /\ sum > 0 /\ in * reserveOut \in Nat /\ reserveIn * reserveOut \in Nat
  BY Product
<1>2. out = (in * reserveOut) \div sum
  BY DEF BancorOutput
<1>3. sum * reserveOut = reserveIn * reserveOut + in * reserveOut
  OBVIOUS
<1>4. in * reserveOut <= reserveOut * sum
  BY <1>1, <1>3
<1>5. out \in Nat /\ out * sum <= in * reserveOut
  <2> HIDE DEF sum, out
  <2> QED  BY <1>1, <1>2, Quotient
<1>6. out <= reserveOut
  <2> HIDE DEF sum, out
  <2> QED  BY <1>1, <1>2, <1>4, QuotientMonotone
<1>7. sum * (reserveOut - out) = sum * reserveOut - out * sum
  <2> HIDE DEF sum, out
  <2> QED  BY <1>1, <1>5, <1>6
<1>8. out * sum \in Nat
  <2> HIDE DEF sum, out
  <2> QED  BY <1>1, <1>5, Product
<1>9. reserveIn * reserveOut <= sum * (reserveOut - out)
  <2> HIDE DEF sum, out
  <2> QED  BY <1>1, <1>3, <1>5, <1>7, <1>8
<1> QED  BY <1>5, <1>6, <1>9

-----------------------------------------------------------------------------
(* The market.                                                             *)

LEMMA MarketFacts ==
  ASSUME MarketOK
  PROVE  /\ market.base \in Nat /\ market.quote \in Nat
         /\ ram.size \in Nat /\ ram.reserved \in Int /\ ram.stake \in Nat /\ ram.rate \in Nat
         /\ elapsed * ram.rate \in Nat
         /\ GrownBase \in Nat /\ GrownSize \in Nat
         /\ GrownBase = GrownSize - ram.reserved
         /\ InitialQuote \in Nat /\ InitialQuote > 0
         /\ market.quote = InitialQuote + ram.stake
         /\ InitialQuote * GrownSize <= market.quote * GrownBase
<1>1. /\ market.base \in Nat /\ market.quote \in Nat /\ ram.size \in Nat
      /\ ram.reserved \in Int /\ ram.stake \in Nat /\ ram.rate \in Nat /\ elapsed \in Nat
      /\ InitialQuote \in Nat /\ InitialQuote > 0
      /\ market.base = ram.size - ram.reserved
      /\ market.quote = InitialQuote + ram.stake
  BY ResourcesAssumption DEF MarketOK, MarketMatches, ResourcesAssumption
<1>2. PICK more \in Nat : more = elapsed * ram.rate
  BY <1>1, Product
<1>3. GrownBase = market.base + more /\ GrownSize = ram.size + more
  BY <1>2 DEF GrownBase, GrownSize
<1>4. InitialQuote * ram.size <= market.quote * market.base
  BY DEF MarketOK, ProductHolds
<1>5. InitialQuote * (ram.size + more) <= market.quote * (market.base + more)
  BY <1>1, <1>4, GrowthKeepsProduct
<1> QED  BY <1>1, <1>2, <1>3, <1>5

\* A market left by a handler that has updated the supply.
LEMMA MarketAfter ==
  ASSUME NEW base \in Nat, NEW quote \in Nat, NEW size \in Nat, NEW reserved \in Int,
         NEW stake \in Nat, NEW rate \in Nat,
         market' = [base |-> base, quote |-> quote],
         ram' = [size |-> size, reserved |-> reserved, stake |-> stake, rate |-> rate],
         elapsed' \in Nat,
         base = size - reserved, quote = InitialQuote + stake, bal'[RamAccount] = stake,
         InitialQuote * size <= quote * base
  PROVE  MarketOK'
BY DEF MarketOK, MarketMatches, ProductHolds

LEMMA WalletsApart ==
  /\ RamAccount \in Wallets /\ Stake \in Wallets /\ FeeAccount \in Wallets
  /\ Accounts \subseteq Wallets
  /\ RamAccount # Stake /\ RamAccount # FeeAccount /\ RamAccount \notin Accounts
BY ResourcesAssumption DEF ResourcesAssumption, Wallets

LEMMA BuyKeepsMarket ==
  ASSUME RowsOK, MarketOK, NEW payer \in Accounts, NEW receiver \in Accounts, NEW quant \in Nat,
         BuyRam(payer, receiver, quant)
  PROVE  /\ MarketOK' /\ bal' = [w \in Wallets |-> bal'[w]]
         /\ \E bytes \in Nat :
              /\ res' = [res EXCEPT ![receiver] = [res[receiver] EXCEPT !.row = TRUE, !.ram = @ + bytes]]
              /\ limits' = RamLimit(receiver, [res[receiver] EXCEPT !.row = TRUE, !.ram = @ + bytes])
              /\ ram'.reserved = ram.reserved + bytes
<1> DEFINE paid  == quant - FeeOf(quant)
           bytes == BancorOutput(market.quote, GrownBase, paid)
<1>1. paid \in Nat /\ paid > 0
  <2>1. FeeParts \in Nat /\ FeeParts > 1
    BY ResourcesAssumption DEF ResourcesAssumption
  <2>2. quant + FeeParts - 1 \in Nat
    BY <2>1
  <2>3. FeeOf(quant) \in Nat
    BY <2>1, <2>2, Quotient DEF FeeOf
  <2> QED  BY <2>3 DEF BuyRam
<1>2. /\ market' = [base |-> GrownBase - bytes, quote |-> market.quote + paid]
      /\ ram' = [ram EXCEPT !.size = GrownSize, !.reserved = @ + bytes, !.stake = @ + paid]
      /\ elapsed' = 0
  BY DEF BuyRam
<1>3. /\ res' = [res EXCEPT ![receiver] = [res[receiver] EXCEPT !.row = TRUE, !.ram = @ + bytes]]
      /\ limits' = RamLimit(receiver, [res[receiver] EXCEPT !.row = TRUE, !.ram = @ + bytes])
  BY DEF BuyRam
<1>4. bal' = [bal EXCEPT ![payer] = @ - quant, ![RamAccount] = @ + paid,
                         ![FeeAccount] = @ + FeeOf(quant)]
  BY DEF BuyRam
<1> HIDE DEF paid
<1>5. /\ bytes \in Nat /\ bytes <= GrownBase
      /\ market.quote * GrownBase <= (market.quote + paid) * (GrownBase - bytes)
  <2>1. market.quote + paid > 0
    BY <1>1, MarketFacts
  <2> QED  BY <1>1, <2>1, MarketFacts, TradeKeepsProduct
<1> HIDE DEF bytes
<1>6. bal'[RamAccount] = bal[RamAccount] + paid /\ bal' = [w \in Wallets |-> bal'[w]]
  BY <1>4, WalletsApart DEF RowsOK
<1>7. ram' = [size |-> GrownSize, reserved |-> ram.reserved + bytes, stake |-> ram.stake + paid,
              rate |-> ram.rate]
  BY <1>2 DEF MarketOK
<1>8. InitialQuote * GrownSize <= (market.quote + paid) * (GrownBase - bytes)
  <2>1. /\ InitialQuote * GrownSize \in Nat /\ market.quote * GrownBase \in Nat
        /\ (market.quote + paid) * (GrownBase - bytes) \in Nat
    BY <1>1, <1>5, MarketFacts, Product
  <2>2. InitialQuote * GrownSize <= market.quote * GrownBase
    BY MarketFacts
  <2> QED  BY <1>5, <2>1, <2>2
<1>9. MarketOK'
  <2>1. /\ GrownBase - bytes \in Nat /\ market.quote + paid \in Nat /\ GrownSize \in Nat
        /\ ram.reserved + bytes \in Int /\ ram.stake + paid \in Nat /\ ram.rate \in Nat
        /\ GrownBase - bytes = GrownSize - (ram.reserved + bytes)
        /\ market.quote + paid = InitialQuote + (ram.stake + paid)
    BY <1>1, <1>5, MarketFacts
  <2>2. bal'[RamAccount] = ram.stake + paid /\ elapsed' \in Nat
    BY <1>2, <1>6 DEF MarketOK, MarketMatches
  <2> QED  BY <1>2, <1>7, <1>8, <2>1, <2>2, MarketAfter
<1>10. ram'.reserved = ram.reserved + bytes
  BY <1>7
<1> QED  BY <1>3, <1>5, <1>6, <1>9, <1>10

LEMMA SellKeepsMarket ==
  ASSUME RowsOK, MarketOK, NEW account \in Accounts, NEW bytes \in Nat, bytes > 0,
         SellRam(account, bytes)
  PROVE  /\ MarketOK' /\ bal' = [w \in Wallets |-> bal'[w]]
<1> DEFINE out == SaleOf(bytes)
<1>1. /\ market' = [base |-> GrownBase + bytes, quote |-> market.quote - out]
      /\ ram' = [ram EXCEPT !.size = GrownSize, !.reserved = @ - bytes, !.stake = @ - out]
      /\ elapsed' = 0 /\ out <= ram.stake
      /\ bal' = [bal EXCEPT ![RamAccount] = @ - out, ![account] = @ + out - FeeOf(out),
                            ![FeeAccount] = @ + FeeOf(out)]
  BY DEF SellRam
<1>2. /\ out \in Nat /\ out <= market.quote
      /\ GrownBase * market.quote <= (GrownBase + bytes) * (market.quote - out)
  <2>1. GrownBase + bytes > 0
    BY MarketFacts
  <2> QED  BY <2>1, MarketFacts, TradeKeepsProduct DEF SaleOf
<1> HIDE DEF out
<1>3. bal'[RamAccount] = bal[RamAccount] - out /\ bal' = [w \in Wallets |-> bal'[w]]
  BY <1>1, WalletsApart DEF RowsOK
<1>4. ram' = [size |-> GrownSize, reserved |-> ram.reserved - bytes, stake |-> ram.stake - out,
              rate |-> ram.rate]
  BY <1>1 DEF MarketOK
<1>5. InitialQuote * GrownSize <= (market.quote - out) * (GrownBase + bytes)
  <2>1. /\ InitialQuote * GrownSize \in Nat /\ market.quote * GrownBase \in Nat
        /\ GrownBase * market.quote = market.quote * GrownBase
        /\ (market.quote - out) * (GrownBase + bytes) \in Nat
        /\ (GrownBase + bytes) * (market.quote - out) = (market.quote - out) * (GrownBase + bytes)
    BY <1>2, MarketFacts, Product
  <2>2. InitialQuote * GrownSize <= market.quote * GrownBase
    BY MarketFacts
  <2> QED  BY <1>2, <2>1, <2>2
<1>6. MarketOK'
  <2>1. /\ GrownBase + bytes \in Nat /\ market.quote - out \in Nat /\ GrownSize \in Nat
        /\ ram.reserved - bytes \in Int /\ ram.stake - out \in Nat /\ ram.rate \in Nat
        /\ GrownBase + bytes = GrownSize - (ram.reserved - bytes)
        /\ market.quote - out = InitialQuote + (ram.stake - out)
    BY <1>1, <1>2, MarketFacts
  <2>2. bal'[RamAccount] = ram.stake - out /\ elapsed' \in Nat
    BY <1>1, <1>3 DEF MarketOK, MarketMatches
  <2> QED  BY <1>1, <1>4, <1>5, <2>1, <2>2, MarketAfter
<1> QED  BY <1>3, <1>6

\* setram and setramrate enlarge base and size alike.
LEMMA GrowthKeepsMarket ==
  ASSUME MarketOK,
         \/ \E size \in RamSizes : SetRam(size)
         \/ \E rate \in RamRates : SetRamRate(rate)
  PROVE  MarketOK'
<1>1. ASSUME NEW size \in RamSizes, SetRam(size) PROVE MarketOK'
  <2>1. size \in Nat /\ size > ram.size /\ size > ram.reserved
    BY <1>1, ResourcesAssumption DEF SetRam, ResourcesAssumption
  <2>2. PICK more \in Nat : more = size - ram.size
    BY <2>1, MarketFacts
  <2>3. /\ market' = [base |-> market.base + more, quote |-> market.quote]
        /\ ram' = [size |-> ram.size + more, reserved |-> ram.reserved, stake |-> ram.stake,
                   rate |-> ram.rate]
        /\ elapsed' = elapsed /\ bal' = bal
    <3>1. market.base + size - ram.size = market.base + more /\ size = ram.size + more
      BY <2>1, <2>2, MarketFacts
    <3>2. /\ market' = [market EXCEPT !.base = market.base + more]
          /\ ram' = [ram EXCEPT !.size = ram.size + more]
          /\ elapsed' = elapsed /\ bal' = bal
      BY <1>1, <3>1 DEF SetRam
    <3> QED  BY <3>2 DEF MarketOK
  <2>4. InitialQuote * (ram.size + more) <= market.quote * (market.base + more)
    <3>1. InitialQuote * ram.size <= market.quote * market.base /\ InitialQuote <= market.quote
      BY MarketFacts DEF MarketOK, ProductHolds
    <3> QED  BY <3>1, MarketFacts, GrowthKeepsProduct
  <2>5. /\ market.base + more = ram.size + more - ram.reserved
        /\ bal'[RamAccount] = ram.stake /\ elapsed' \in Nat
    BY <2>3, MarketFacts DEF MarketOK, MarketMatches
  <2>6. /\ market.base + more \in Nat /\ ram.size + more \in Nat /\ market.quote \in Nat
        /\ ram.reserved \in Int /\ ram.stake \in Nat /\ ram.rate \in Nat
        /\ market.quote = InitialQuote + ram.stake
    BY MarketFacts
  <2>7. PICK base \in Nat, newSize \in Nat :
          base = market.base + more /\ newSize = ram.size + more
    BY <2>6
  <2>8. /\ market' = [base |-> base, quote |-> market.quote]
        /\ ram' = [size |-> newSize, reserved |-> ram.reserved, stake |-> ram.stake,
                   rate |-> ram.rate]
    BY <2>3, <2>7
  <2>10. base = newSize - ram.reserved
    BY <2>2, <2>6, <2>7, MarketFacts DEF MarketOK, MarketMatches
  <2>9. InitialQuote * newSize <= market.quote * base
    BY <2>4, <2>7
  <2> QED  BY <2>5, <2>6, <2>8, <2>9, <2>10, MarketAfter
<1>2. ASSUME NEW rate \in RamRates, SetRamRate(rate) PROVE MarketOK'
  <2>1. rate \in Nat
    BY ResourcesAssumption DEF ResourcesAssumption
  <2>2. /\ market' = [base |-> GrownBase, quote |-> market.quote]
        /\ ram' = [size |-> GrownSize, reserved |-> ram.reserved, stake |-> ram.stake,
                   rate |-> rate]
        /\ elapsed' = 0 /\ bal'[RamAccount] = ram.stake
    BY <1>2 DEF SetRamRate, MarketOK, MarketMatches
  <2> QED  BY <2>1, <2>2, MarketFacts, MarketAfter
<1> QED  BY <1>1, <1>2

\* What leaves the market alone keeps it, but for the blocks that go by.
LEMMA OthersKeepMarket ==
  ASSUME MarketOK, UNCHANGED <<market, ram>>, elapsed' \in Nat, bal'[RamAccount] = bal[RamAccount]
  PROVE  MarketOK'
BY DEF MarketOK, MarketMatches, ProductHolds

-----------------------------------------------------------------------------
(* The rows of accounts and their limits.                                  *)

\* What LimitsFollowTotals says of one account.
Follow(a) == /\ ~Managed(a, "net") => limits[a].net = res[a].net
             /\ ~Managed(a, "cpu") => limits[a].cpu = res[a].cpu

LEMMA FollowEach == LimitsFollowTotals <=> \A a \in Accounts \ Unlimited : Follow(a)
BY DEF LimitsFollowTotals, Follow

\* changebw: one account gets new totals, and the limits that go with them.
LEMMA RestakeKeepsRows ==
  ASSUME RowsOK, LimitsFollowTotals, NEW from \in Accounts, NEW receiver \in Accounts,
         NEW d \in [net : Int, cpu : Int], Restake(from, receiver, d)
  PROVE  /\ res' \in [Accounts -> TotalsType]
         /\ voter' \in [Accounts -> VoterType]
         /\ limits' \in [Accounts -> LimitsType]
         /\ LimitsFollowTotals'
<1> DEFINE tot == [Plus(res[receiver], d) EXCEPT !.row = TRUE]
<1>1. /\ res[receiver] \in TotalsType /\ limits[receiver] \in LimitsType
      /\ voter[from] \in VoterType
  BY DEF RowsOK
<1>2. /\ res' = [res EXCEPT ![receiver] = Left(tot)]
      /\ limits' = [limits EXCEPT ![receiver] = LimitsFor(receiver, tot)]
      /\ voter' = [voter EXCEPT ![from].known = TRUE, ![from].staked = @ + Total(d)]
  BY DEF Restake
<1>3. tot \in TotalsType
  <2>1. res[receiver].net + d.net \in Int /\ res[receiver].cpu + d.cpu \in Int
    BY <1>1 DEF TotalsType
  <2>2. Plus(res[receiver], d) \in TotalsType
    BY <1>1, <2>1 DEF TotalsType, Plus
  <2> QED  BY <2>2 DEF TotalsType
<1> HIDE DEF tot
<1>4. Left(tot) \in TotalsType /\ Left(tot).net = tot.net /\ Left(tot).cpu = tot.cpu
  BY <1>3 DEF Left, NoRow, TotalsType
<1>5. voter' \in [Accounts -> VoterType] /\ \A a \in Accounts : voter'[a].managed = voter[a].managed
  <2>1. Total(d) \in Int
    BY DEF Total
  <2>2. voter[from].staked + Total(d) \in Int
    BY <1>1, <2>1 DEF VoterType
  <2>3. [voter[from] EXCEPT !.known = TRUE, !.staked = @ + Total(d)] \in VoterType
    BY <1>1, <2>2 DEF VoterType
  <2>4. [voter[from] EXCEPT !.known = TRUE, !.staked = @ + Total(d)].managed = voter[from].managed
    BY <1>1 DEF VoterType
  <2>5. voter' = [voter EXCEPT ![from] = [voter[from] EXCEPT !.known = TRUE, !.staked = @ + Total(d)]]
    BY <1>2
  <2> QED  BY <2>3, <2>4, <2>5 DEF RowsOK
<1>6. LimitsFor(receiver, tot) \in LimitsType
  <2>1. Max({tot.ram + GiftBytes, limits[receiver].ram}) \in Int
    <3> DEFINE both == {tot.ram + GiftBytes, limits[receiver].ram}
    <3>1. tot.ram + GiftBytes \in Int /\ limits[receiver].ram \in Int
      BY <1>1, <1>3, ResourcesAssumption DEF TotalsType, LimitsType, ResourcesAssumption
    <3>2. \E m \in both : \A n \in both : m >= n
      BY <3>1
    <3>3. Max(both) \in both
      BY <3>2 DEF Max
    <3> QED  BY <3>1, <3>3
  <2>2. CASE AllManaged(receiver)
    BY <1>1, <2>2 DEF LimitsFor
  <2>3. CASE ~AllManaged(receiver)
    BY <1>1, <1>3, <2>1, <2>3 DEF LimitsFor, LimitsType, TotalsType
  <2> QED  BY <2>2, <2>3
<1>7. /\ res' \in [Accounts -> TotalsType] /\ limits' \in [Accounts -> LimitsType]
      /\ res'[receiver] = Left(tot) /\ limits'[receiver] = LimitsFor(receiver, tot)
      /\ \A a \in Accounts \ {receiver} : res'[a] = res[a] /\ limits'[a] = limits[a]
  BY <1>2, <1>4, <1>6 DEF RowsOK
<1>8. /\ ~Managed(receiver, "net") => LimitsFor(receiver, tot).net = tot.net
      /\ ~Managed(receiver, "cpu") => LimitsFor(receiver, tot).cpu = tot.cpu
  BY DEF LimitsFor, AllManaged
<1>9. ASSUME NEW a \in Accounts \ Unlimited PROVE Follow(a)'
  <2>1. \A resource \in ResourceNames : Managed(a, resource)' <=> Managed(a, resource)
    BY <1>5 DEF Managed
  <2>2. CASE a = receiver
    BY <1>4, <1>7, <1>8, <2>1, <2>2 DEF Follow, ResourceNames
  <2>3. CASE a # receiver
    BY <1>7, <2>1, <2>3, FollowEach DEF Follow, ResourceNames
  <2> QED  BY <2>2, <2>3
<1>10. LimitsFollowTotals'
  BY <1>9 DEF Follow, LimitsFollowTotals
<1> QED  BY <1>5, <1>7, <1>10

\* buyram and sellram: the RAM of an account changes, and its limit of RAM.
LEMMA RamKeepsRows ==
  ASSUME RowsOK, LimitsFollowTotals, NEW a \in Accounts, NEW tot \in TotalsType,
         tot.net = res[a].net, tot.cpu = res[a].cpu,
         res' = [res EXCEPT ![a] = tot], limits' = RamLimit(a, tot), voter' = voter
  PROVE  /\ res' \in [Accounts -> TotalsType]
         /\ limits' \in [Accounts -> LimitsType]
         /\ LimitsFollowTotals'
<1>1. limits[a] \in LimitsType /\ tot.ram + GiftBytes \in Int
  BY ResourcesAssumption DEF RowsOK, TotalsType, ResourcesAssumption
<1>2. [limits[a] EXCEPT !.ram = tot.ram + GiftBytes] \in LimitsType
  BY <1>1 DEF LimitsType
<1>3. limits' = limits \/ limits' = [limits EXCEPT ![a] = [limits[a] EXCEPT !.ram = tot.ram + GiftBytes]]
  BY DEF RamLimit
<1>4. /\ limits' \in [Accounts -> LimitsType]
      /\ \A b \in Accounts : limits'[b].net = limits[b].net /\ limits'[b].cpu = limits[b].cpu
  BY <1>1, <1>2, <1>3 DEF RowsOK, LimitsType
<1>5. /\ res' \in [Accounts -> TotalsType]
      /\ \A b \in Accounts : res'[b].net = res[b].net /\ res'[b].cpu = res[b].cpu
  BY DEF RowsOK
<1>6. LimitsFollowTotals'
  BY <1>4, <1>5 DEF LimitsFollowTotals, Managed
<1> QED  BY <1>4, <1>5, <1>6

\* setacctram, setacctnet and setacctcpu
LEMMA SetAcctKeepsRows ==
  ASSUME RowsOK, LimitsFollowTotals, NEW a \in Accounts, NEW resource \in ResourceNames,
         NEW limit \in Limits \cup {Unmanaged}, SetAcct(a, resource, limit)
  PROVE  /\ voter' \in [Accounts -> VoterType]
         /\ limits' \in [Accounts -> LimitsType]
         /\ LimitsFollowTotals'
<1> DEFINE managed == IF limit = Unmanaged THEN voter[a].managed \ {resource}
                      ELSE voter[a].managed \cup {resource}
           new == IF limit = Unmanaged THEN Follows(a, resource) ELSE limit
<1>1. voter[a] \in VoterType /\ limits[a] \in LimitsType /\ res[a] \in TotalsType
  BY DEF RowsOK
<1>2. new \in Int
  <2>1. Follows(a, resource) \in Int
    BY <1>1, ResourcesAssumption DEF Follows, TotalsType, ResourceNames, ResourcesAssumption
  <2>2. ASSUME limit # Unmanaged PROVE limit \in Int
    <3>1. limit \in Limits
      BY <2>2, Zenon
    <3>2. Limits \subseteq Nat
      BY ResourcesAssumption DEF ResourcesAssumption
    <3> QED  BY <3>1, <3>2
  <2> QED  BY <2>1, <2>2
<1>3. /\ [voter[a] EXCEPT !.known = TRUE, !.managed = managed] \in VoterType
      /\ [voter[a] EXCEPT !.known = TRUE, !.managed = managed].managed = managed
  <2>1. managed \in SUBSET ResourceNames
    BY <1>1 DEF VoterType
  <2> HIDE DEF managed
  <2> QED  BY <1>1, <2>1 DEF VoterType
<1>4. voter' = [voter EXCEPT ![a] = [voter[a] EXCEPT !.known = TRUE, !.managed = managed]]
  BY DEF SetAcct
<1>5. limits' = [limits EXCEPT ![a] = [limits[a] EXCEPT ![resource] = new]]
  BY DEF SetAcct
<1>6. res' = res
  BY DEF SetAcct
<1>7. [limits[a] EXCEPT ![resource] = new] \in LimitsType
  <2> HIDE DEF new
  <2> QED  BY <1>1, <1>2 DEF LimitsType, ResourceNames
<1>8. /\ voter' \in [Accounts -> VoterType]
      /\ voter'[a].managed = managed
      /\ \A b \in Accounts \ {a} : voter'[b] = voter[b]
  <2> HIDE DEF managed
  <2> QED  BY <1>3, <1>4 DEF RowsOK
<1>9. /\ limits' \in [Accounts -> LimitsType]
      /\ limits'[a] = [limits[a] EXCEPT ![resource] = new]
      /\ \A b \in Accounts \ {a} : limits'[b] = limits[b]
  <2> HIDE DEF new
  <2> QED  BY <1>5, <1>7 DEF RowsOK
<1>10. ASSUME NEW other \in {"net", "cpu"}, a \notin Unlimited, ~Managed(a, other)'
       PROVE  limits'[a][other] = res[a][other]
  <2>1. other \notin managed
    BY <1>8, <1>10 DEF Managed
  <2>2. CASE other = resource
    <3>1. limit = Unmanaged
      BY <2>1, <2>2
    <3>2. limits'[a][other] = new
      <4> HIDE DEF new
      <4> QED  BY <1>1, <1>9, <2>2 DEF LimitsType, ResourceNames
    <3> QED  BY <2>2, <3>1, <3>2 DEF Follows
  <2>3. CASE other # resource
    <3>1. ~Managed(a, other)
      BY <2>1, <2>3 DEF Managed
    <3>2. limits'[a][other] = limits[a][other]
      <4> HIDE DEF new
      <4> QED  BY <1>1, <1>9, <2>3 DEF LimitsType, ResourceNames
    <3>3. limits[a][other] = res[a][other]
      BY <1>10, <3>1 DEF LimitsFollowTotals
    <3> QED  BY <3>2, <3>3
  <2> QED  BY <2>2, <2>3
<1>11. ASSUME NEW b \in Accounts \ Unlimited, b # a PROVE Follow(b)'
  BY <1>6, <1>8, <1>9, <1>11, FollowEach DEF Follow, Managed
<1>12. LimitsFollowTotals'
  BY <1>6, <1>10, <1>11 DEF Follow, LimitsFollowTotals
<1> QED  BY <1>8, <1>9, <1>12

-----------------------------------------------------------------------------
(* The actions.                                                            *)

\* delegatebw and undelegatebw are changebw, by integers.
LEMMA StakingIsChange ==
  ASSUME Staking
  PROVE  \E source \in Accounts, receiver \in Accounts, d \in [net : Int, cpu : Int],
            transfer \in BOOLEAN : ChangeBw(source, receiver, d, transfer)
<1>1. PICK a \in Accounts, b \in Accounts, d \in [net : Amounts, cpu : Amounts] :
        \/ \E transfer \in BOOLEAN : DelegateBw(a, b, d, transfer)
        \/ UndelegateBw(a, b, d)
  BY DEF Staking
<1>2. d.net \in Int /\ d.cpu \in Int /\ d = [net |-> d.net, cpu |-> d.cpu]
  <2>1. Amounts \subseteq Int
    BY ResourcesAssumption DEF ResourcesAssumption
  <2> QED  BY <2>1
<1>3. d \in [net : Int, cpu : Int] /\ [net |-> -d.net, cpu |-> -d.cpu] \in [net : Int, cpu : Int]
  BY <1>2
<1>4. CASE \E transfer \in BOOLEAN : DelegateBw(a, b, d, transfer)
  BY <1>3, <1>4 DEF DelegateBw
<1>5. CASE UndelegateBw(a, b, d)
  BY <1>3, <1>5 DEF UndelegateBw
<1> QED  BY <1>1, <1>4, <1>5

LEMMA StakingKeepsInv ==
  ASSUME ResourcesInv, Staking
  PROVE  ResourcesInv'
<1>1. PICK source \in Accounts, receiver \in Accounts, d \in [net : Int, cpu : Int],
           transfer \in BOOLEAN : ChangeBw(source, receiver, d, transfer)
  BY StakingIsChange
<1>2. PICK from \in Accounts : Restake(from, receiver, d)
  <2>1. (IF transfer THEN receiver ELSE source) \in Accounts
    OBVIOUS
  <2> QED  BY <1>1, <2>1 DEF ChangeBw
<1>3. /\ res' \in [Accounts -> TotalsType] /\ voter' \in [Accounts -> VoterType]
      /\ limits' \in [Accounts -> LimitsType] /\ LimitsFollowTotals'
  BY <1>2, RestakeKeepsRows DEF ResourcesInv
<1>4. /\ UNCHANGED <<market, ram, elapsed>>
      /\ \E n, m : bal' = Paid(source, Stake, n) \/ bal' = Paid(Stake, source, m)
  BY <1>1 DEF ChangeBw, ramVars, MoveAtOnce, MoveByRefund
<1>5. bal'[RamAccount] = bal[RamAccount] /\ bal' = [w \in Wallets |-> bal'[w]]
  BY <1>4, WalletsApart DEF Paid, ResourcesInv, RowsOK
<1>6. MarketOK'
  BY <1>4, <1>5, OthersKeepMarket DEF ResourcesInv, MarketOK
<1> QED  BY <1>3, <1>5, <1>6 DEF ResourcesInv, RowsOK

LEMMA RefundKeepsInv ==
  ASSUME ResourcesInv, NEW a \in Accounts, Refund(a)
  PROVE  ResourcesInv'
<1>1. /\ UNCHANGED <<res, voter, limits, market, ram, elapsed>>
      /\ \E n : bal' = Paid(Stake, a, n)
  BY DEF Refund, ramVars
<1>2. bal'[RamAccount] = bal[RamAccount] /\ bal' = [w \in Wallets |-> bal'[w]]
  BY <1>1, WalletsApart DEF Paid, ResourcesInv, RowsOK
<1>3. MarketOK'
  BY <1>1, <1>2, OthersKeepMarket DEF ResourcesInv, MarketOK
<1> QED  BY <1>1, <1>2, <1>3 DEF ResourcesInv, RowsOK, LimitsFollowTotals, Managed

LEMMA BuyKeepsInv ==
  ASSUME ResourcesInv, NEW payer \in Accounts, NEW receiver \in Accounts, NEW quant \in Nat,
         BuyRam(payer, receiver, quant)
  PROVE  ResourcesInv'
<1>1. MarketOK' /\ bal' = [w \in Wallets |-> bal'[w]]
  BY BuyKeepsMarket DEF ResourcesInv
<1>2. PICK bytes \in Nat :
        /\ res' = [res EXCEPT ![receiver] = [res[receiver] EXCEPT !.row = TRUE, !.ram = @ + bytes]]
        /\ limits' = RamLimit(receiver, [res[receiver] EXCEPT !.row = TRUE, !.ram = @ + bytes])
  BY BuyKeepsMarket DEF ResourcesInv
<1> DEFINE tot == [res[receiver] EXCEPT !.row = TRUE, !.ram = @ + bytes]
<1>3. tot \in TotalsType /\ tot.net = res[receiver].net /\ tot.cpu = res[receiver].cpu
  <2>1. res[receiver] \in TotalsType
    BY DEF ResourcesInv, RowsOK
  <2>2. res[receiver].ram + bytes \in Int
    BY <2>1 DEF TotalsType
  <2> QED  BY <2>1, <2>2 DEF TotalsType
<1>4. voter' = voter /\ res' = [res EXCEPT ![receiver] = tot] /\ limits' = RamLimit(receiver, tot)
  BY <1>2 DEF BuyRam
<1> HIDE DEF tot
<1>5. /\ res' \in [Accounts -> TotalsType] /\ limits' \in [Accounts -> LimitsType]
      /\ LimitsFollowTotals'
  BY <1>3, <1>4, RamKeepsRows DEF ResourcesInv
<1> QED  BY <1>1, <1>4, <1>5 DEF ResourcesInv, RowsOK

LEMMA SellKeepsInv ==
  ASSUME ResourcesInv, NEW account \in Accounts, NEW bytes \in Nat, bytes > 0,
         SellRam(account, bytes)
  PROVE  ResourcesInv'
<1>1. MarketOK' /\ bal' = [w \in Wallets |-> bal'[w]]
  BY SellKeepsMarket DEF ResourcesInv
<1> DEFINE tot == [res[account] EXCEPT !.ram = @ - bytes]
<1>2. tot \in TotalsType /\ tot.net = res[account].net /\ tot.cpu = res[account].cpu
  <2>1. res[account] \in TotalsType
    BY DEF ResourcesInv, RowsOK
  <2>2. res[account].ram - bytes \in Int
    BY <2>1 DEF TotalsType
  <2> QED  BY <2>1, <2>2 DEF TotalsType
<1>3. voter' = voter /\ res' = [res EXCEPT ![account] = tot] /\ limits' = RamLimit(account, tot)
  BY DEF SellRam
<1> HIDE DEF tot
<1>4. /\ res' \in [Accounts -> TotalsType] /\ limits' \in [Accounts -> LimitsType]
      /\ LimitsFollowTotals'
  BY <1>2, <1>3, RamKeepsRows DEF ResourcesInv
<1> QED  BY <1>1, <1>3, <1>4 DEF ResourcesInv, RowsOK

\* buyrambytes is buyram too, and all amounts are natural numbers.
LEMMA TradingIsTrade ==
  ASSUME ResourcesInv, Trading
  PROVE  \/ \E a, b \in Accounts, quant \in Nat : BuyRam(a, b, quant)
         \/ \E a \in Accounts, bytes \in Nat : bytes > 0 /\ SellRam(a, bytes)
<1> DEFINE Trade == \/ \E a, b \in Accounts, quant \in Nat : BuyRam(a, b, quant)
                    \/ \E a \in Accounts, bytes \in Nat : bytes > 0 /\ SellRam(a, bytes)
<1>1. ASSUME NEW a \in Accounts, NEW b \in Accounts, NEW quant \in Quants, BuyRam(a, b, quant)
      PROVE  Trade
  BY <1>1, ResourcesAssumption DEF ResourcesAssumption
<1>2. ASSUME NEW a \in Accounts, NEW b \in Accounts, NEW bytes \in Bytes, BuyRamBytes(a, b, bytes)
      PROVE  Trade
  <2> DEFINE cost  == BancorInput(market.base, market.quote, bytes)
             quant == (cost * FeeParts) \div (FeeParts - 1)
  <2>1. /\ bytes \in Nat /\ bytes < market.base /\ BuyRam(a, b, quant)
        /\ FeeParts \in Nat /\ FeeParts - 1 \in Nat /\ FeeParts - 1 > 0
    BY <1>2, ResourcesAssumption DEF BuyRamBytes, ResourcesAssumption
  <2>2. market.base \in Nat /\ market.quote \in Nat /\ market.base - bytes \in Nat /\ market.base - bytes > 0
    BY <2>1, MarketFacts DEF ResourcesInv
  <2>3. market.quote * bytes \in Nat
    BY <2>1, <2>2, Product
  <2>4. cost \in Nat
    BY <2>2, <2>3, Quotient DEF BancorInput
  <2> HIDE DEF cost
  <2>5. cost * FeeParts \in Nat
    BY <2>1, <2>4, Product
  <2>6. quant \in Nat
    BY <2>1, <2>5, Quotient
  <2> HIDE DEF quant
  <2> QED  BY <2>1, <2>6
<1>3. ASSUME NEW a \in Accounts, NEW bytes \in Bytes \cup {res[a].ram}, bytes > 0, SellRam(a, bytes)
      PROVE  Trade
  <2>1. bytes \in Int
    <3>1. res[a].ram \in Int
      BY DEF ResourcesInv, RowsOK, TotalsType
    <3>2. Bytes \subseteq Int
      BY ResourcesAssumption DEF ResourcesAssumption
    <3> QED  BY <3>1, <3>2
  <2>2. bytes \in Nat
    BY <1>3, <2>1
  <2> QED  BY <1>3, <2>2
<1> QED  BY <1>1, <1>2, <1>3 DEF Trading

LEMMA TradingKeepsInv ==
  ASSUME ResourcesInv, Trading
  PROVE  ResourcesInv'
BY TradingIsTrade, BuyKeepsInv, SellKeepsInv

LEMMA AdministeringKeepsInv ==
  ASSUME ResourcesInv, Administering
  PROVE  ResourcesInv'
<1>1. ASSUME \/ \E size \in RamSizes : SetRam(size)
             \/ \E rate \in RamRates : SetRamRate(rate)
      PROVE  ResourcesInv'
  <2>1. MarketOK'
    BY <1>1, GrowthKeepsMarket DEF ResourcesInv
  <2>2. UNCHANGED <<res, voter, limits, bal>>
    BY <1>1 DEF SetRam, SetRamRate
  <2> QED  BY <2>1, <2>2 DEF ResourcesInv, RowsOK, LimitsFollowTotals, Managed
<1>2. ASSUME NEW a \in Accounts, NEW resource \in {"ram", "net", "cpu"},
             NEW limit \in Limits \cup {Unmanaged}, SetAcct(a, resource, limit)
      PROVE  ResourcesInv'
  <2>1. /\ voter' \in [Accounts -> VoterType] /\ limits' \in [Accounts -> LimitsType]
        /\ LimitsFollowTotals'
    BY <1>2, SetAcctKeepsRows DEF ResourcesInv, ResourceNames
  <2>2. UNCHANGED <<res, market, ram, elapsed, bal>>
    BY <1>2 DEF SetAcct, ramVars
  <2>3. MarketOK'
    BY <2>2, OthersKeepMarket DEF ResourcesInv, MarketOK
  <2> QED  BY <2>1, <2>2, <2>3 DEF ResourcesInv, RowsOK
<1>3. ASSUME NEW a \in Unlimited, NEW n \in Limits, SetALimits(a, n) PROVE ResourcesInv'
  <2>1. /\ UNCHANGED <<res, voter, market, ram, elapsed, bal>>
        /\ limits' = [limits EXCEPT ![a] = [ram |-> n, net |-> n, cpu |-> n]]
    BY <1>3 DEF SetALimits, ramVars
  <2>2. [ram |-> n, net |-> n, cpu |-> n] \in LimitsType
    BY ResourcesAssumption DEF LimitsType, ResourcesAssumption
  <2>3. /\ limits' \in [Accounts -> LimitsType]
        /\ \A b \in Accounts \ Unlimited : limits'[b] = limits[b]
    BY <2>1, <2>2 DEF ResourcesInv, RowsOK
  <2>4. LimitsFollowTotals'
    BY <2>1, <2>3 DEF ResourcesInv, LimitsFollowTotals, Managed
  <2>5. MarketOK'
    BY <2>1, OthersKeepMarket DEF ResourcesInv, MarketOK
  <2> QED  BY <2>1, <2>3, <2>4, <2>5 DEF ResourcesInv, RowsOK
<1> QED  BY <1>1, <1>2, <1>3 DEF Administering

-----------------------------------------------------------------------------
(* The books: three tables, the stake account and the RAM in use.          *)

StakeType  == [net : Int, cpu : Int]
RefundType == [net : Int, cpu : Int, age : Int]

BooksInv ==
  /\ del \in [Accounts -> [Accounts -> StakeType]]
  /\ refunds \in [Accounts -> RefundType]
  /\ StakesAddUp
  /\ StakesCovered
  /\ RamConserved

\* The three columns StakesAddUp sums up, and the one of StakesCovered.
StakesOf(a)  == [b \in Accounts |-> Total(del[a][b])]
NetFor(a)    == [b \in Accounts |-> del[b][a].net]
CpuFor(a)    == [b \in Accounts |-> del[b][a].cpu]
Owing        == [a \in Accounts |-> voter[a].staked + Total(refunds[a])]
RamOf        == [a \in Accounts |-> res[a].ram]

LEMMA ColumnsTyped ==
  ASSUME ResourcesInv, BooksInv
  PROVE  /\ IsFiniteSet(Accounts)
         /\ \A a \in Accounts : /\ StakesOf(a) \in [Accounts -> Int]
                                /\ NetFor(a) \in [Accounts -> Int]
                                /\ CpuFor(a) \in [Accounts -> Int]
         /\ Owing \in [Accounts -> Int] /\ RamOf \in [Accounts -> Int]
<1>1. \A a, b \in Accounts : del[a][b].net \in Int /\ del[a][b].cpu \in Int
  BY DEF BooksInv, StakeType
<1>2. \A a \in Accounts : /\ voter[a].staked \in Int /\ res[a].ram \in Int
                          /\ refunds[a].net \in Int /\ refunds[a].cpu \in Int
  BY DEF ResourcesInv, RowsOK, VoterType, TotalsType, BooksInv, RefundType
<1>3. IsFiniteSet(Accounts)
  BY ResourcesAssumption DEF ResourcesAssumption
<1>4. \A a \in Accounts : StakesOf(a) \in [Accounts -> Int]
  BY <1>1 DEF StakesOf, Total
<1>5. \A a \in Accounts : NetFor(a) \in [Accounts -> Int] /\ CpuFor(a) \in [Accounts -> Int]
  BY <1>1 DEF NetFor, CpuFor
<1>6. Owing \in [Accounts -> Int] /\ RamOf \in [Accounts -> Int]
  BY <1>2 DEF Owing, RamOf, Total
<1> QED  BY <1>3, <1>4, <1>5, <1>6

\* What changebw writes: one delegation, the totals of the receiver and the
\* votes of the staker, each by the same amount; the RAM of nobody.
LEMMA RestakeWrites ==
  ASSUME ResourcesInv, BooksInv, NEW from \in Accounts, NEW receiver \in Accounts,
         NEW d \in StakeType, Restake(from, receiver, d)
  PROVE  /\ del' \in [Accounts -> [Accounts -> StakeType]]
         /\ del'[from][receiver].net = del[from][receiver].net + d.net
         /\ del'[from][receiver].cpu = del[from][receiver].cpu + d.cpu
         /\ \A a, b \in Accounts : a # from \/ b # receiver => del'[a][b] = del[a][b]
         /\ res'[receiver].net = res[receiver].net + d.net
         /\ res'[receiver].cpu = res[receiver].cpu + d.cpu
         /\ \A a \in Accounts \ {receiver} : res'[a] = res[a]
         /\ \A a \in Accounts : res'[a].ram = res[a].ram
         /\ voter'[from].staked = voter[from].staked + Total(d)
         /\ \A a \in Accounts \ {from} : voter'[a] = voter[a]
<1> DEFINE stake == Plus(del[from][receiver], d)
           tot   == [Plus(res[receiver], d) EXCEPT !.row = TRUE]
<1>1. /\ del' = [del EXCEPT ![from][receiver] = stake]
      /\ res' = [res EXCEPT ![receiver] = Left(tot)]
      /\ voter' = [voter EXCEPT ![from].known = TRUE, ![from].staked = @ + Total(d)]
  BY DEF Restake
<1>2. stake \in StakeType /\ stake.net = del[from][receiver].net + d.net
                          /\ stake.cpu = del[from][receiver].cpu + d.cpu
  <2>1. del[from][receiver] \in StakeType
    BY DEF BooksInv
  <2>2. del[from][receiver].net + d.net \in Int /\ del[from][receiver].cpu + d.cpu \in Int
    BY <2>1 DEF StakeType
  <2> QED  BY <2>1, <2>2 DEF StakeType, Plus
<1>3. /\ Left(tot).net = res[receiver].net + d.net
      /\ Left(tot).cpu = res[receiver].cpu + d.cpu
      /\ Left(tot).ram = res[receiver].ram
  <2>1. res[receiver] \in TotalsType
    BY DEF ResourcesInv, RowsOK
  <2>2. PICK net \in Int, cpu \in Int :
          net = res[receiver].net + d.net /\ cpu = res[receiver].cpu + d.cpu
    BY <2>1 DEF TotalsType, StakeType
  <2>3. /\ Plus(res[receiver], d) \in TotalsType
        /\ Plus(res[receiver], d).net = net /\ Plus(res[receiver], d).cpu = cpu
        /\ Plus(res[receiver], d).ram = res[receiver].ram
    BY <2>1, <2>2 DEF Plus, TotalsType
  <2>4. tot.net = net /\ tot.cpu = cpu /\ tot.ram = res[receiver].ram
    BY <2>3 DEF TotalsType
  <2> HIDE DEF tot
  <2> QED  BY <2>2, <2>4 DEF Left, NoRow
<1> HIDE DEF stake, tot
<1>4. /\ del' \in [Accounts -> [Accounts -> StakeType]]
      /\ del'[from][receiver] = stake
      /\ \A a, b \in Accounts : a # from \/ b # receiver => del'[a][b] = del[a][b]
  BY <1>1, <1>2 DEF BooksInv
<1>5. /\ res'[receiver] = Left(tot)
      /\ \A a \in Accounts \ {receiver} : res'[a] = res[a]
  BY <1>1 DEF ResourcesInv, RowsOK
<1>6. /\ voter'[from].staked = voter[from].staked + Total(d)
      /\ \A a \in Accounts \ {from} : voter'[a] = voter[a]
  BY <1>1 DEF ResourcesInv, RowsOK, VoterType
<1> QED  BY <1>2, <1>3, <1>4, <1>5, <1>6

\* The three tables stay in step.
LEMMA RestakeKeepsSums ==
  ASSUME ResourcesInv, BooksInv, ResourcesInv', NEW from \in Accounts,
         NEW receiver \in Accounts, NEW d \in StakeType, Restake(from, receiver, d)
  PROVE  StakesAddUp'
<1>1. /\ del' \in [Accounts -> [Accounts -> StakeType]]
      /\ del'[from][receiver].net = del[from][receiver].net + d.net
      /\ del'[from][receiver].cpu = del[from][receiver].cpu + d.cpu
      /\ \A a, b \in Accounts : a # from \/ b # receiver => del'[a][b] = del[a][b]
  BY RestakeWrites
<1>2. d.net \in Int /\ d.cpu \in Int
  BY DEF StakeType
<1>3. \A a, b \in Accounts : /\ del[a][b].net \in Int /\ del[a][b].cpu \in Int
                             /\ del'[a][b].net \in Int /\ del'[a][b].cpu \in Int
  BY <1>1 DEF BooksInv, StakeType
<1>4. \A a \in Accounts : /\ StakesOf(a)' \in [Accounts -> Int]
                          /\ NetFor(a)' \in [Accounts -> Int]
                          /\ CpuFor(a)' \in [Accounts -> Int]
  <2>1. ASSUME NEW a \in Accounts
        PROVE  /\ [b \in Accounts |-> Total(del'[a][b])] \in [Accounts -> Int]
               /\ [b \in Accounts |-> del'[b][a].net] \in [Accounts -> Int]
               /\ [b \in Accounts |-> del'[b][a].cpu] \in [Accounts -> Int]
    BY <1>3 DEF Total
  <2> QED  BY <2>1 DEF StakesOf, NetFor, CpuFor
<1>5. ASSUME NEW a \in Accounts
      PROVE  /\ voter'[a].staked = SumFunction(StakesOf(a)')
             /\ res'[a].net = SumFunction(NetFor(a)')
             /\ res'[a].cpu = SumFunction(CpuFor(a)')
  <2>1. /\ voter[a].staked = SumFunction(StakesOf(a))
        /\ res[a].net = SumFunction(NetFor(a))
        /\ res[a].cpu = SumFunction(CpuFor(a))
    BY DEF BooksInv, StakesAddUp, StakesOf, NetFor, CpuFor
  <2>2. /\ IsFiniteSet(Accounts) /\ StakesOf(a) \in [Accounts -> Int]
        /\ NetFor(a) \in [Accounts -> Int] /\ CpuFor(a) \in [Accounts -> Int]
    BY ColumnsTyped
  <2>3. voter'[a].staked = SumFunction(StakesOf(a)')
    <3>1. CASE a # from
      <4>1. \A b \in Accounts : StakesOf(a)'[b] = StakesOf(a)[b]
        BY <1>1, <3>1 DEF StakesOf
      <4>2. SumFunction(StakesOf(a)') = SumFunction(StakesOf(a))
        BY <1>4, <2>2, <4>1, SumSame
      <4> QED  BY <2>1, <3>1, <4>2, RestakeWrites
    <3>2. CASE a = from
      <4>1. \A b \in Accounts \ {receiver} : StakesOf(a)'[b] = StakesOf(a)[b]
        BY <1>1 DEF StakesOf
      <4>2. SumFunction(StakesOf(a)') =
              SumFunction(StakesOf(a)) - StakesOf(a)[receiver] + StakesOf(a)'[receiver]
        <5>1. PICK f \in [Accounts -> Int], g \in [Accounts -> Int] :
                f = StakesOf(a) /\ g = StakesOf(a)'
          BY <1>4, <2>2
        <5>2. \A b \in Accounts \ {receiver} : g[b] = f[b]
          BY <4>1, <5>1
        <5>3. SumFunction(g) = SumFunction(f) - f[receiver] + g[receiver]
          BY <2>2, <5>2, SumChange
        <5> QED  BY <5>1, <5>3
      <4>3. StakesOf(a)[receiver] \in Int /\ SumFunction(StakesOf(a)) \in Int
        BY <2>2, SumInt
      <4>4. StakesOf(a)'[receiver] = StakesOf(a)[receiver] + Total(d)
        BY <1>1, <1>2, <1>3, <3>2 DEF StakesOf, Total
      <4>5. Total(d) \in Int
        BY <1>2 DEF Total
      <4> QED  BY <2>1, <3>2, <4>2, <4>3, <4>4, <4>5, RestakeWrites
    <3> QED  BY <3>1, <3>2
  <2>4. res'[a].net = SumFunction(NetFor(a)') /\ res'[a].cpu = SumFunction(CpuFor(a)')
    <3>1. CASE a # receiver
      <4>1. \A b \in Accounts : NetFor(a)'[b] = NetFor(a)[b] /\ CpuFor(a)'[b] = CpuFor(a)[b]
        BY <1>1, <3>1 DEF NetFor, CpuFor
      <4>2. /\ SumFunction(NetFor(a)') = SumFunction(NetFor(a))
            /\ SumFunction(CpuFor(a)') = SumFunction(CpuFor(a))
        BY <1>4, <2>2, <4>1, SumSame
      <4> QED  BY <2>1, <3>1, <4>2, RestakeWrites
    <3>2. CASE a = receiver
      <4>1. \A b \in Accounts \ {from} : NetFor(a)'[b] = NetFor(a)[b] /\ CpuFor(a)'[b] = CpuFor(a)[b]
        BY <1>1 DEF NetFor, CpuFor
      <4>2. SumFunction(NetFor(a)') = SumFunction(NetFor(a)) - NetFor(a)[from] + NetFor(a)'[from]
        <5>1. PICK f \in [Accounts -> Int], g \in [Accounts -> Int] :
                f = NetFor(a) /\ g = NetFor(a)'
          BY <1>4, <2>2
        <5>2. \A b \in Accounts \ {from} : g[b] = f[b]
          BY <4>1, <5>1
        <5>3. SumFunction(g) = SumFunction(f) - f[from] + g[from]
          BY <2>2, <5>2, SumChange
        <5> QED  BY <5>1, <5>3
      <4>3. SumFunction(CpuFor(a)') = SumFunction(CpuFor(a)) - CpuFor(a)[from] + CpuFor(a)'[from]
        <5>1. PICK f \in [Accounts -> Int], g \in [Accounts -> Int] :
                f = CpuFor(a) /\ g = CpuFor(a)'
          BY <1>4, <2>2
        <5>2. \A b \in Accounts \ {from} : g[b] = f[b]
          BY <4>1, <5>1
        <5>3. SumFunction(g) = SumFunction(f) - f[from] + g[from]
          BY <2>2, <5>2, SumChange
        <5> QED  BY <5>1, <5>3
      <4>4. /\ NetFor(a)'[from] = NetFor(a)[from] + d.net
            /\ CpuFor(a)'[from] = CpuFor(a)[from] + d.cpu
        BY <1>1, <3>2 DEF NetFor, CpuFor
      <4>5. /\ NetFor(a)[from] \in Int /\ SumFunction(NetFor(a)) \in Int
            /\ CpuFor(a)[from] \in Int /\ SumFunction(CpuFor(a)) \in Int
        BY <2>2, SumInt
      <4> QED  BY <1>2, <2>1, <3>2, <4>2, <4>3, <4>4, <4>5, RestakeWrites
    <3> QED  BY <3>1, <3>2
  <2> QED  BY <2>3, <2>4
<1> QED  BY <1>5 DEF StakesAddUp, StakesOf, NetFor, CpuFor

\* What is taken from a refund is what need not be paid.
LEMMA RefundedTotal ==
  ASSUME NEW r \in RefundType, NEW d \in StakeType
  PROVE  /\ Refunded(r, d) \in RefundType
         /\ Owed(r, d) \in Int
         /\ Total(Refunded(r, d)) = Total(r) - Total(d) + Owed(r, d)
<1>1. PICK a \in Int, b \in Int, m \in Int, n \in Int, age \in Int :
        r.net = a /\ r.cpu = b /\ d.net = m /\ d.cpu = n /\ r.age = age
  BY DEF RefundType, StakeType
<1>2. PICK net \in Int, cpu \in Int : net = Positive(a - m) /\ cpu = Positive(b - n)
  BY DEF Positive
<1>3. PICK over \in Int, more \in Int : over = Positive(m - a) /\ more = Positive(n - b)
  BY DEF Positive
<1>4. net - over = a - m /\ cpu - more = b - n
  BY <1>2, <1>3 DEF Positive
<1>5. Owed(r, d) = over + more
  BY <1>1, <1>3 DEF Owed
<1>6. PICK new \in Int : new = IF Total(d) < 0 THEN 0 ELSE r.age
  BY <1>1
<1>7. Refunded(r, d) = IF net = 0 /\ cpu = 0 THEN NoRefund
                       ELSE [net |-> net, cpu |-> cpu, age |-> new]
  BY <1>1, <1>2, <1>6 DEF Refunded
<1>8. Refunded(r, d) \in RefundType /\ Total(Refunded(r, d)) = net + cpu
  BY <1>7 DEF RefundType, NoRefund, Total
<1>9. Total(r) = a + b /\ Total(d) = m + n
  BY <1>1 DEF Total
<1> QED  BY <1>4, <1>5, <1>8, <1>9

\* The stake account and what one account is owed change by the same amount.
LEMMA CoveredAfter ==
  ASSUME ResourcesInv, ResourcesInv', BooksInv, refunds' \in [Accounts -> RefundType],
         NEW a \in Accounts, NEW more \in Int,
         bal'[Stake] = bal[Stake] + more,
         voter'[a].staked + Total(refunds'[a]) = voter[a].staked + Total(refunds[a]) + more,
         \A b \in Accounts \ {a} : voter'[b].staked + Total(refunds'[b])
                                     = voter[b].staked + Total(refunds[b])
  PROVE  StakesCovered'
<1>1. IsFiniteSet(Accounts) /\ Owing \in [Accounts -> Int]
  BY ColumnsTyped
<1>2. Owing' \in [Accounts -> Int]
  <2>1. \A b \in Accounts : voter'[b].staked \in Int /\ Total(refunds'[b]) \in Int
    BY DEF ResourcesInv, RowsOK, VoterType, RefundType, Total
  <2> QED  BY <2>1 DEF Owing
<1>3. PICK f \in [Accounts -> Int], g \in [Accounts -> Int] : f = Owing /\ g = Owing'
  BY <1>1, <1>2
<1>4. g[a] = f[a] + more /\ \A b \in Accounts \ {a} : g[b] = f[b]
  BY <1>3 DEF Owing
<1>5. SumFunction(g) = SumFunction(f) - f[a] + g[a]
  BY <1>1, <1>4, SumChange
<1>6. SumFunction(f) \in Int /\ bal[Stake] = SumFunction(f)
  BY <1>1, <1>3, SumInt DEF BooksInv, StakesCovered, Owing
<1>7. bal'[Stake] = SumFunction(g)
  BY <1>4, <1>5, <1>6
<1> QED  BY <1>3, <1>7 DEF StakesCovered, Owing

\* What changes neither the stake account nor what accounts are owed
LEMMA CoveredStays ==
  ASSUME ResourcesInv, ResourcesInv', BooksInv, refunds' \in [Accounts -> RefundType],
         bal'[Stake] = bal[Stake],
         \A b \in Accounts : voter'[b].staked + Total(refunds'[b])
                               = voter[b].staked + Total(refunds[b])
  PROVE  StakesCovered'
<1>1. IsFiniteSet(Accounts) /\ Owing \in [Accounts -> Int]
  BY ColumnsTyped
<1>2. Owing' = Owing
  BY DEF Owing
<1> QED  BY <1>2 DEF BooksInv, StakesCovered, Owing

\* So does the RAM of accounts.
LEMMA ConservedAfter ==
  ASSUME ResourcesInv, ResourcesInv', BooksInv, NEW a \in Accounts, NEW more \in Int,
         ram'.reserved = ram.reserved + more, res'[a].ram = res[a].ram + more,
         \A b \in Accounts \ {a} : res'[b].ram = res[b].ram
  PROVE  RamConserved'
<1>1. IsFiniteSet(Accounts) /\ RamOf \in [Accounts -> Int]
  BY ColumnsTyped
<1>2. RamOf' \in [Accounts -> Int]
  BY DEF ResourcesInv, RowsOK, TotalsType, RamOf
<1>3. PICK f \in [Accounts -> Int], g \in [Accounts -> Int] : f = RamOf /\ g = RamOf'
  BY <1>1, <1>2
<1>4. g[a] = f[a] + more /\ \A b \in Accounts \ {a} : g[b] = f[b]
  BY <1>3 DEF RamOf
<1>5. SumFunction(g) = SumFunction(f) - f[a] + g[a]
  BY <1>1, <1>4, SumChange
<1>6. SumFunction(f) \in Int /\ ram.reserved = SumFunction(f)
  BY <1>1, <1>3, SumInt DEF BooksInv, RamConserved, RamOf
<1>7. ram'.reserved = SumFunction(g)
  BY <1>4, <1>5, <1>6
<1> QED  BY <1>3, <1>7 DEF RamConserved, RamOf, ResourcesInv, MarketOK

LEMMA ConservedStays ==
  ASSUME ResourcesInv', BooksInv, ram'.reserved = ram.reserved,
         \A b \in Accounts : res'[b].ram = res[b].ram
  PROVE  RamConserved'
<1>1. RamOf' = RamOf
  BY DEF RamOf
<1> QED  BY <1>1 DEF BooksInv, RamConserved, RamOf, ResourcesInv, MarketOK

\* A payment between the stake account and an account moves its balance.
LEMMA StakePays ==
  ASSUME RowsOK, NEW a \in Accounts, NEW n \in Int, bal[Stake] \in Int
  PROVE  /\ Paid(a, Stake, n)[Stake] = bal[Stake] + n
         /\ Paid(Stake, a, n)[Stake] = bal[Stake] - n
<1>1. a # Stake /\ a \in Wallets /\ Stake \in Wallets
  BY ResourcesAssumption DEF ResourcesAssumption, Wallets
<1> QED  BY <1>1 DEF RowsOK, Paid

LEMMA StakingKeepsBooks ==
  ASSUME ResourcesInv, ResourcesInv', BooksInv, Staking
  PROVE  BooksInv'
<1>1. PICK source \in Accounts, receiver \in Accounts, d \in StakeType, transfer \in BOOLEAN :
        ChangeBw(source, receiver, d, transfer)
  BY StakingIsChange DEF StakeType
<1>2. PICK from \in Accounts, toSelf \in BOOLEAN :
        /\ Restake(from, receiver, d)
        /\ IF electionsOn THEN MoveAtOnce(source, from, d)
           ELSE MoveByRefund(source, from, d, toSelf)
  <2>1. /\ (IF transfer THEN receiver ELSE source) \in Accounts
        /\ (~transfer /\ (IF transfer THEN receiver ELSE source) = receiver) \in BOOLEAN
    OBVIOUS
  <2> QED  BY <1>1, <2>1 DEF ChangeBw
<1>3. del' \in [Accounts -> [Accounts -> StakeType]] /\ StakesAddUp'
  BY <1>2, RestakeWrites, RestakeKeepsSums
<1>4. RamConserved'
  <2>1. ram' = ram
    BY <1>1 DEF ChangeBw, ramVars
  <2> QED  BY <1>2, <2>1, RestakeWrites, ConservedStays
<1>5. Total(d) \in Int /\ refunds \in [Accounts -> RefundType] /\ RowsOK
  BY DEF StakeType, Total, BooksInv, ResourcesInv
<1>6. bal[Stake] \in Int
  BY ColumnsTyped, SumInt DEF BooksInv, StakesCovered, Owing
<1>7. /\ voter'[from].staked = voter[from].staked + Total(d)
      /\ \A a \in Accounts \ {from} : voter'[a] = voter[a]
      /\ \A a \in Accounts : voter[a].staked \in Int /\ Total(refunds[a]) \in Int
  <2>1. \A a \in Accounts : voter[a].staked \in Int
    BY DEF ResourcesInv, RowsOK, VoterType
  <2>2. \A a \in Accounts : Total(refunds[a]) \in Int
    BY <1>5 DEF RefundType, Total
  <2> QED  BY <1>2, <2>1, <2>2, RestakeWrites
\* Only the stake moves.
<1>8. ASSUME refunds' = refunds, bal'[Stake] = bal[Stake] + Total(d)
      PROVE  refunds' \in [Accounts -> RefundType] /\ StakesCovered'
  <2>1. voter'[from].staked + Total(refunds'[from])
          = voter[from].staked + Total(refunds[from]) + Total(d)
    BY <1>5, <1>7, <1>8
  <2> QED  BY <1>5, <1>7, <1>8, <2>1, CoveredAfter
\* Part of it comes from the refund, or goes there.
<1>9. ASSUME refunds' = [refunds EXCEPT ![from] = Refunded(@, d)],
             bal' = Paid(source, Stake, Owed(refunds[from], d))
      PROVE  refunds' \in [Accounts -> RefundType] /\ StakesCovered'
  <2>1. PICK r \in RefundType : r = refunds[from]
    BY <1>5
  <2>2. /\ Refunded(r, d) \in RefundType /\ Owed(r, d) \in Int
        /\ Total(Refunded(r, d)) = Total(r) - Total(d) + Owed(r, d)
    BY RefundedTotal
  <2>3. /\ refunds' \in [Accounts -> RefundType]
        /\ refunds'[from] = Refunded(r, d)
        /\ \A a \in Accounts \ {from} : refunds'[a] = refunds[a]
    BY <1>5, <1>9, <2>1, <2>2
  <2>4. bal'[Stake] = bal[Stake] + Owed(r, d)
    BY <1>5, <1>6, <1>9, <2>1, <2>2, StakePays
  <2>5. voter'[from].staked + Total(refunds'[from])
          = voter[from].staked + Total(refunds[from]) + Owed(r, d)
    BY <1>5, <1>7, <2>1, <2>2, <2>3
  <2> QED  BY <1>7, <2>2, <2>3, <2>4, <2>5, CoveredAfter
<1>10. refunds' \in [Accounts -> RefundType] /\ StakesCovered'
  <2>1. CASE MoveAtOnce(source, from, d)
    <3>1. refunds' = refunds
      BY <2>1 DEF MoveAtOnce
    <3>2. bal' = Paid(source, Stake, Total(d)) \/ bal' = Paid(Stake, source, -Total(d))
      BY <2>1 DEF MoveAtOnce
    <3>3. bal'[Stake] = bal[Stake] + Total(d)
      <4>1. PICK n \in Int : n = Total(d)
        BY <1>5
      <4>2. -n \in Int
        OBVIOUS
      <4>3. /\ Paid(source, Stake, n)[Stake] = bal[Stake] + n
            /\ Paid(Stake, source, -n)[Stake] = bal[Stake] - (-n)
        BY <1>5, <1>6, <4>2, StakePays
      <4> QED  BY <1>6, <3>2, <4>1, <4>3
    <3> QED  BY <1>8, <3>1, <3>3
  <2>2. CASE MoveByRefund(source, from, d, toSelf)
    <3>1. CASE toSelf \/ Total(d) < 0
      BY <1>9, <2>2, <3>1 DEF MoveByRefund
    <3>2. CASE ~(toSelf \/ Total(d) < 0)
      <4>1. refunds' = refunds /\ bal' = Paid(source, Stake, Total(d))
        BY <2>2, <3>2 DEF MoveByRefund
      <4>2. bal'[Stake] = bal[Stake] + Total(d)
        BY <1>5, <1>6, <4>1, StakePays
      <4> QED  BY <1>8, <4>1, <4>2
    <3> QED  BY <3>1, <3>2
  <2> QED  BY <1>2, <2>1, <2>2
<1> QED  BY <1>3, <1>4, <1>10 DEF BooksInv

LEMMA RefundKeepsBooks ==
  ASSUME ResourcesInv, ResourcesInv', BooksInv, NEW a \in Accounts, Refund(a)
  PROVE  BooksInv'
<1>1. /\ UNCHANGED <<del, res, voter, ram>>
      /\ refunds' = [refunds EXCEPT ![a] = NoRefund]
      /\ bal' = Paid(Stake, a, Total(refunds[a]))
  BY DEF Refund, RefundTaken, ramVars
<1>2. PICK n \in Int : n = Total(refunds[a])
  BY DEF BooksInv, RefundType, Total
<1>3. NoRefund \in RefundType /\ Total(NoRefund) = 0
  BY DEF NoRefund, RefundType, Total
<1>4. bal[Stake] \in Int
  BY ColumnsTyped, SumInt DEF BooksInv, StakesCovered, Owing
<1>5. bal'[Stake] = bal[Stake] - n
  BY <1>1, <1>2, <1>4, StakePays DEF ResourcesInv
<1>6. /\ refunds' \in [Accounts -> RefundType] /\ refunds'[a] = NoRefund
      /\ \A b \in Accounts \ {a} : refunds'[b] = refunds[b]
  BY <1>1, <1>3 DEF BooksInv
<1>7. StakesCovered'
  <2>1. voter[a].staked \in Int
    BY DEF ResourcesInv, RowsOK, VoterType
  <2>2. -n \in Int /\ bal'[Stake] = bal[Stake] + (-n)
    BY <1>4, <1>5
  <2>3. voter'[a].staked + Total(refunds'[a]) = voter[a].staked + Total(refunds[a]) + (-n)
    BY <1>1, <1>2, <1>3, <1>6, <2>1
  <2> QED  BY <1>1, <1>6, <2>2, <2>3, CoveredAfter
<1>8. RamConserved'
  BY <1>1, ConservedStays
<1>9. StakesAddUp'
  <2>1. StakesAddUp /\ del' = del /\ res' = res /\ voter' = voter
    BY <1>1 DEF BooksInv
  <2> QED  BY ONLY <2>1 DEF StakesAddUp
<1> QED  BY <1>1, <1>6, <1>7, <1>8, <1>9 DEF BooksInv

\* A trade moves RAM between the market and one account, and neither stakes nor
\* what the stake account holds.
LEMMA TradeKeepsBooks ==
  ASSUME ResourcesInv, ResourcesInv', BooksInv, UNCHANGED <<stakeVars, voter>>,
         bal'[Stake] = bal[Stake], NEW a \in Accounts, NEW more \in Int,
         NEW tot, tot.net = res[a].net, tot.cpu = res[a].cpu, tot.ram = res[a].ram + more,
         res' = [res EXCEPT ![a] = tot], ram'.reserved = ram.reserved + more
  PROVE  BooksInv'
<1>1. res'[a] = tot /\ \A b \in Accounts \ {a} : res'[b] = res[b]
  BY DEF ResourcesInv, RowsOK
<1>2. RamConserved'
  BY <1>1, ConservedAfter
<1>3. UNCHANGED <<del, refunds, voter>>
  BY DEF stakeVars
<1>4. StakesAddUp'
  BY <1>1, <1>3 DEF BooksInv, StakesAddUp
<1>5. StakesCovered'
  BY <1>3, CoveredStays DEF BooksInv
<1> QED  BY <1>2, <1>3, <1>4, <1>5 DEF BooksInv

LEMMA TradingKeepsBooks ==
  ASSUME ResourcesInv, ResourcesInv', BooksInv, Trading
  PROVE  BooksInv'
<1>1. Stake \in Wallets /\ Stake \notin Accounts /\ Stake # RamAccount /\ Stake # FeeAccount
  BY ResourcesAssumption DEF ResourcesAssumption, Wallets
<1>2. ASSUME NEW a \in Accounts, NEW b \in Accounts, NEW quant \in Nat, BuyRam(a, b, quant)
      PROVE  BooksInv'
  <2>1. PICK bytes \in Nat :
          /\ res' = [res EXCEPT ![b] = [res[b] EXCEPT !.row = TRUE, !.ram = @ + bytes]]
          /\ ram'.reserved = ram.reserved + bytes
    BY <1>2, BuyKeepsMarket DEF ResourcesInv
  <2> DEFINE tot == [res[b] EXCEPT !.row = TRUE, !.ram = @ + bytes]
  <2>2. tot.net = res[b].net /\ tot.cpu = res[b].cpu /\ tot.ram = res[b].ram + bytes
    <3>1. res[b] \in TotalsType
      BY DEF ResourcesInv, RowsOK
    <3> QED  BY <3>1 DEF TotalsType
  <2>3. /\ bal' = [bal EXCEPT ![a] = @ - quant, ![RamAccount] = @ + (quant - FeeOf(quant)),
                              ![FeeAccount] = @ + FeeOf(quant)]
        /\ UNCHANGED <<stakeVars, voter>>
    BY <1>2 DEF BuyRam
  <2>4. bal'[Stake] = bal[Stake]
    BY <1>1, <2>3 DEF ResourcesInv, RowsOK
  <2>5. res' = [res EXCEPT ![b] = tot]
    BY <2>1
  <2> HIDE DEF tot
  <2>6. bytes \in Int /\ ram'.reserved = ram.reserved + bytes
    BY <2>1
  <2> QED  BY <2>2, <2>3, <2>4, <2>5, <2>6, TradeKeepsBooks
<1>3. ASSUME NEW a \in Accounts, NEW bytes \in Nat, SellRam(a, bytes)
      PROVE  BooksInv'
  <2> DEFINE tot == [res[a] EXCEPT !.ram = @ - bytes]
  <2>1. /\ res' = [res EXCEPT ![a] = tot]
        /\ ram' = [ram EXCEPT !.size = GrownSize, !.reserved = @ - bytes,
                              !.stake = @ - SaleOf(bytes)]
        /\ bal' = [bal EXCEPT ![RamAccount] = @ - SaleOf(bytes),
                              ![a] = @ + SaleOf(bytes) - FeeOf(SaleOf(bytes)),
                              ![FeeAccount] = @ + FeeOf(SaleOf(bytes))]
        /\ UNCHANGED <<stakeVars, voter>>
    BY <1>3 DEF SellRam
  <2>2. res[a] \in TotalsType /\ ram.reserved \in Int
    BY DEF ResourcesInv, RowsOK, MarketOK
  <2>3. -bytes \in Int
    OBVIOUS
  <2>4. tot.net = res[a].net /\ tot.cpu = res[a].cpu /\ tot.ram = res[a].ram + (-bytes)
    BY <2>2, <2>3 DEF TotalsType
  <2>5. ram'.reserved = ram.reserved + (-bytes)
    BY <2>1, <2>2, <2>3 DEF ResourcesInv, MarketOK
  <2>6. bal'[Stake] = bal[Stake]
    BY <1>1, <2>1 DEF ResourcesInv, RowsOK
  <2> HIDE DEF tot
  <2> QED  BY <2>1, <2>3, <2>4, <2>5, <2>6, TradeKeepsBooks
<1> QED  BY <1>2, <1>3, TradingIsTrade

\* Everything else leaves the four tables, the stake account and the RAM in use
\* alone, but for the age of refunds.
LEMMA OthersKeepBooks ==
  ASSUME ResourcesInv, ResourcesInv', BooksInv, refunds' \in [Accounts -> RefundType],
         UNCHANGED <<del, res>>, bal'[Stake] = bal[Stake], ram'.reserved = ram.reserved,
         \A a \in Accounts : /\ voter'[a].staked = voter[a].staked
                             /\ Total(refunds'[a]) = Total(refunds[a])
  PROVE  BooksInv'
<1>1. StakesAddUp'
  BY DEF BooksInv, StakesAddUp
<1>2. StakesCovered'
  BY CoveredStays
<1>3. RamConserved'
  BY ConservedStays
<1> QED  BY <1>1, <1>2, <1>3 DEF BooksInv

LEMMA AdministeringKeepsBooks ==
  ASSUME ResourcesInv, ResourcesInv', BooksInv, Administering
  PROVE  BooksInv'
<1>1. /\ UNCHANGED <<del, refunds, res, bal>>
      /\ \A a \in Accounts : voter'[a].staked = voter[a].staked
      /\ ram'.reserved = ram.reserved
  <2>1. ASSUME NEW size, SetRam(size)
        PROVE  UNCHANGED <<del, refunds, res, bal, voter>> /\ ram'.reserved = ram.reserved
    BY <2>1 DEF SetRam, stakeVars, ResourcesInv, MarketOK
  <2>2. ASSUME NEW rate, SetRamRate(rate)
        PROVE  UNCHANGED <<del, refunds, res, bal, voter>> /\ ram'.reserved = ram.reserved
    BY <2>2 DEF SetRamRate, stakeVars, ResourcesInv, MarketOK
  <2>3. ASSUME NEW a \in Accounts, NEW resource, NEW limit, SetAcct(a, resource, limit)
        PROVE  /\ UNCHANGED <<del, refunds, res, bal, ram>>
               /\ \A b \in Accounts : voter'[b].staked = voter[b].staked
    BY <2>3 DEF SetAcct, stakeVars, ramVars, ResourcesInv, RowsOK, VoterType
  <2>4. ASSUME NEW a, NEW n, SetALimits(a, n)
        PROVE  UNCHANGED <<del, refunds, res, bal, voter, ram>>
    BY <2>4 DEF SetALimits, stakeVars, ramVars
  <2> QED  BY <2>1, <2>2, <2>3, <2>4 DEF Administering
<1> QED  BY <1>1, OthersKeepBooks DEF BooksInv

LEMMA TickKeepsBooks ==
  ASSUME ResourcesInv, ResourcesInv', BooksInv, Tick
  PROVE  BooksInv'
<1>1. ASSUME NEW r \in RefundType
      PROVE  [r EXCEPT !.age = @ + 1] \in RefundType /\ Total([r EXCEPT !.age = @ + 1]) = Total(r)
  <2>1. r.age + 1 \in Int
    BY DEF RefundType
  <2> QED  BY <2>1 DEF RefundType, Total
<1>2. /\ refunds' \in [Accounts -> RefundType]
      /\ \A a \in Accounts : Total(refunds'[a]) = Total(refunds[a])
  BY <1>1 DEF Tick, BooksInv
<1>3. UNCHANGED <<del, res, bal, voter, ram>>
  BY DEF Tick
<1> QED  BY <1>2, <1>3, OthersKeepBooks

-----------------------------------------------------------------------------
(* The specification.                                                      *)

LEMMA InitEstablishesInv == Init => ResourcesInv
<1> SUFFICES ASSUME Init PROVE ResourcesInv
  OBVIOUS
<1>1. InitialSize \in Nat
  BY ResourcesAssumption DEF ResourcesAssumption
<1>2. InitialQuote \in Nat
  BY ResourcesAssumption DEF ResourcesAssumption
<1>3. RowsOK
  <2>1. bal = [w \in Wallets |-> bal[w]]
    BY DEF Init, Wallets
  <2>2. \A a \in Accounts : [NoRow EXCEPT !.row = a \notin Unlimited] \in TotalsType
    <3>1. \A row \in BOOLEAN : [NoRow EXCEPT !.row = row] \in TotalsType
      BY DEF NoRow, TotalsType
    <3>2. \A a \in Accounts : (a \notin Unlimited) \in BOOLEAN
      BY Zenon
    <3> QED  BY <3>1, <3>2, Zenon
  <2>3. res \in [Accounts -> TotalsType]
    BY <2>2 DEF Init
  <2>4. voter \in [Accounts -> VoterType] /\ limits \in [Accounts -> LimitsType]
    BY DEF Init, NewVoter, VoterType, LimitsType
  <2> QED  BY <2>1, <2>3, <2>4 DEF RowsOK
<1>4. LimitsFollowTotals
  BY DEF Init, LimitsFollowTotals, NoRow
<1>5. MarketOK
  <2>1. bal[RamAccount] = 0
    BY WalletsApart DEF Init, Wallets
  <2>3. /\ market = [base |-> InitialSize, quote |-> InitialQuote]
        /\ ram = [size |-> InitialSize, reserved |-> 0, stake |-> 0, rate |-> 0] /\ elapsed = 0
    BY DEF Init
  <2> QED  BY <1>1, <1>2, <2>1, <2>3 DEF MarketOK, MarketMatches, ProductHolds
<1> QED  BY <1>3, <1>4, <1>5 DEF ResourcesInv

LEMMA NextKeepsInv == ResourcesInv /\ [Next]_vars => ResourcesInv'
<1> SUFFICES ASSUME ResourcesInv, [Next]_vars PROVE ResourcesInv'
  OBVIOUS
<1>1. ASSUME UNCHANGED <<res, voter, limits, market, ram, bal>>, elapsed' \in Nat PROVE ResourcesInv'
  <2>1. MarketOK'
    BY <1>1, OthersKeepMarket DEF ResourcesInv
  <2> QED  BY <1>1, <2>1 DEF ResourcesInv, RowsOK, LimitsFollowTotals, Managed
<1>2. elapsed \in Nat
  BY DEF ResourcesInv, MarketOK
<1>3. CASE Activate \/ InitElections
  BY <1>1, <1>2, <1>3 DEF Activate, InitElections, ramVars
<1>4. CASE Tick
  BY <1>1, <1>2, <1>4 DEF Tick
<1>5. CASE UNCHANGED vars
  BY <1>1, <1>2, <1>5 DEF vars, ramVars
<1> QED  BY <1>3, <1>4, <1>5, StakingKeepsInv, RefundKeepsInv, TradingKeepsInv,
            AdministeringKeepsInv DEF Next

\* Limits that the system does not manage are those the totals give, whoever
\* staked, traded or managed last, for any accounts and amounts.
THEOREM LimitsAlwaysFollow == Spec => []LimitsFollowTotals
<1>1. ResourcesInv => LimitsFollowTotals
  BY DEF ResourcesInv
<1> QED  BY <1>1, InitEstablishesInv, NextKeepsInv, PTL DEF Spec

\* Free RAM, the tokens of the market and the RAM account agree in every
\* reachable state.
THEOREM MarketAlwaysMatches == Spec => []MarketMatches
<1>1. ResourcesInv => MarketMatches
  BY DEF ResourcesInv, MarketOK
<1> QED  BY <1>1, InitEstablishesInv, NextKeepsInv, PTL DEF Spec

LEMMA InitEstablishesBooks == Init => BooksInv
<1> SUFFICES ASSUME Init PROVE BooksInv
  OBVIOUS
<1>1. IsFiniteSet(Accounts) /\ Stake \in Wallets /\ Stake \notin Accounts
  BY ResourcesAssumption DEF ResourcesAssumption, Wallets
<1>2. ResourcesInv
  BY InitEstablishesInv
<1>3. Zero \in StakeType /\ Total(Zero) = 0 /\ NoRefund \in RefundType /\ Total(NoRefund) = 0
  BY DEF Zero, NoRefund, StakeType, RefundType, Total
<1>4. /\ del \in [Accounts -> [Accounts -> StakeType]]
      /\ refunds \in [Accounts -> RefundType]
  BY <1>3 DEF Init
<1> DEFINE nothing == [b \in Accounts |-> 0]
<1>5. SumFunction(nothing) = 0
  <2>1. nothing \in [Accounts -> Int] /\ \A b \in Accounts : nothing[b] = 0
    OBVIOUS
  <2> HIDE DEF nothing
  <2> QED  BY <1>1, <2>1, SumZero
<1>6. ASSUME NEW a \in Accounts
      PROVE  StakesOf(a) = nothing /\ NetFor(a) = nothing /\ CpuFor(a) = nothing
  BY <1>3 DEF Init, StakesOf, NetFor, CpuFor, Zero
<1>7. /\ \A a \in Accounts : /\ voter[a].staked = 0
                             /\ res[a].net = 0 /\ res[a].cpu = 0 /\ res[a].ram = 0
      /\ ram.reserved = 0 /\ bal[Stake] = 0
  BY <1>1 DEF Init, NewVoter, NoRow, Wallets
<1>8. Owing = nothing /\ RamOf = nothing
  <2>1. \A a \in Accounts : voter[a].staked + Total(refunds[a]) = 0 /\ res[a].ram = 0
    BY <1>3, <1>7 DEF Init
  <2> QED  BY <2>1 DEF Owing, RamOf
<1> HIDE DEF nothing
<1>9. StakesAddUp
  BY <1>5, <1>6, <1>7 DEF StakesAddUp, StakesOf, NetFor, CpuFor
<1>10. StakesCovered /\ RamConserved
  BY <1>2, <1>5, <1>7, <1>8 DEF StakesCovered, RamConserved, Owing, RamOf, ResourcesInv, MarketOK
<1> QED  BY <1>4, <1>9, <1>10 DEF BooksInv

LEMMA NextKeepsBooks ==
  ASSUME ResourcesInv, ResourcesInv', BooksInv, [Next]_vars
  PROVE  BooksInv'
<1>1. ASSUME UNCHANGED <<del, res, refunds, voter, ram, bal>> PROVE BooksInv'
  BY <1>1, OthersKeepBooks DEF BooksInv
<1>2. CASE Activate \/ InitElections
  BY <1>1, <1>2 DEF Activate, InitElections, ramVars, stakeVars
<1>3. CASE UNCHANGED vars
  BY <1>1, <1>3 DEF vars, ramVars, stakeVars
<1> QED  BY <1>2, <1>3, StakingKeepsBooks, RefundKeepsBooks, TradingKeepsBooks,
            AdministeringKeepsBooks, TickKeepsBooks DEF Next

LEMMA BooksAreKept == Spec => [](ResourcesInv /\ BooksInv)
<1>1. ResourcesInv /\ BooksInv /\ [Next]_vars => (ResourcesInv /\ BooksInv)'
  BY NextKeepsInv, NextKeepsBooks
<1> QED  BY <1>1, InitEstablishesInv, InitEstablishesBooks, PTL DEF Spec

\* The delegations, the totals of the receivers and the votes of the stakers
\* agree in every reachable state, for any number of accounts.
THEOREM StakesAlwaysAddUp == Spec => []StakesAddUp
<1>1. BooksInv => StakesAddUp
  BY DEF BooksInv
<1> QED  BY <1>1, BooksAreKept, PTL

\* The stake account always holds exactly what is staked and what is owed as a
\* refund, before the elections, after them and across the change.
THEOREM StakesAlwaysCovered == Spec => []StakesCovered
<1>1. BooksInv => StakesCovered
  BY DEF BooksInv
<1> QED  BY <1>1, BooksAreKept, PTL

\* The RAM that is reserved is always that which accounts have, and the market
\* has the rest.
THEOREM RamAlwaysConserved == Spec => []RamConserved
<1>1. BooksInv => RamConserved
  BY DEF BooksInv
<1> QED  BY <1>1, BooksAreKept, PTL

\* Any part of the RAM in use can be sold without exceeding what was paid in,
\* so that the check of sellram that "shouldn't happen" never fails.
LEMMA MarketCanPay ==
  ASSUME ResourcesInv
  PROVE  RamStakeSuffices
<1> SUFFICES ASSUME NEW bytes \in 1 .. ram.reserved
             PROVE  SaleOf(bytes) <= ram.stake
  BY DEF RamStakeSuffices
<1>1. /\ GrownBase \in Nat /\ GrownSize \in Nat /\ market.quote \in Nat /\ ram.stake \in Nat
      /\ InitialQuote \in Nat /\ InitialQuote > 0 /\ ram.reserved \in Int
      /\ GrownBase = GrownSize - ram.reserved /\ market.quote = InitialQuote + ram.stake
      /\ InitialQuote * GrownSize <= market.quote * GrownBase
  BY MarketFacts DEF ResourcesInv
<1>2. bytes \in Nat /\ bytes > 0 /\ GrownBase + bytes \in Nat /\ GrownBase + bytes <= GrownSize
  BY <1>1
<1>3. /\ SaleOf(bytes) \in Nat
      /\ SaleOf(bytes) * (GrownBase + bytes) <= bytes * market.quote
  <2>1. GrownBase + bytes > 0
    BY <1>1, <1>2
  <2> QED  BY <1>1, <1>2, <2>1, TradeKeepsProduct DEF SaleOf
<1>4. PICK out \in Nat, sum \in Nat, base \in Nat, quote \in Nat, stake \in Nat, size \in Nat :
        /\ out = SaleOf(bytes) /\ base = GrownBase /\ sum = base + bytes /\ quote = market.quote
        /\ stake = ram.stake /\ size = GrownSize
  BY <1>1, <1>2, <1>3
<1>5. /\ out * sum <= bytes * quote /\ quote = InitialQuote + stake /\ sum <= size
      /\ InitialQuote * size <= quote * base
  BY <1>1, <1>2, <1>3, <1>4
<1>6. SUFFICES ASSUME out >= stake + 1 PROVE FALSE
  BY <1>4
<1>7. (stake + 1) * sum <= out * sum
  BY <1>6
<1>8. InitialQuote * sum <= InitialQuote * size
  BY <1>1, <1>5
<1>9. (stake + 1) * sum + InitialQuote * sum = quote * sum + sum
  BY <1>1, <1>5
<1>10. quote * sum = quote * base + bytes * quote
  BY <1>2, <1>4
<1>11. sum > 0
  BY <1>2, <1>4
<1>12. /\ (stake + 1) * sum \in Nat /\ InitialQuote * sum \in Nat /\ quote * sum \in Nat
       /\ out * sum \in Nat /\ bytes * quote \in Nat /\ quote * base \in Nat
       /\ InitialQuote * size \in Nat
  BY <1>1, <1>2, Product
<1>13. PICK paid \in Nat, first \in Nat, all \in Nat, taken \in Nat, share \in Nat,
            rest \in Nat, whole \in Nat :
         /\ paid = (stake + 1) * sum /\ first = InitialQuote * sum /\ all = quote * sum
         /\ taken = out * sum /\ share = bytes * quote /\ rest = quote * base
         /\ whole = InitialQuote * size
  BY <1>12
<1>14. /\ taken <= share /\ whole <= rest /\ paid <= taken /\ first <= whole
       /\ paid + first = all + sum /\ all = rest + share
  BY <1>5, <1>7, <1>8, <1>9, <1>10, <1>13
<1> QED  BY <1>11, <1>14

\* However RAM was bought, sold and enlarged, all that accounts have could be
\* sold back for no more than was paid in, so that the check of sellram
\* (delegate_bandwidth.cpp:142) never fails.
THEOREM RamAlwaysSellable == Spec => []RamStakeSuffices
BY MarketCanPay, InitEstablishesInv, NextKeepsInv, PTL DEF Spec
=============================================================================
