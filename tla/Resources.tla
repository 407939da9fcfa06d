----------------------------- MODULE Resources -----------------------------
(***************************************************************************)
(* The resources of accounts in amax.system: tokens staked for bandwidth   *)
(* (delegate_bandwidth.cpp), RAM bought and sold against the Bancor market *)
(* (exchange_state.cpp), and the limits that the system account manages    *)
(* itself (amax.system.cpp).  The three share the totals of an account,    *)
(* which decide the limits it has on the chain.                            *)
(*                                                                         *)
(* Before the elections unstaked tokens wait as a refund that later stakes *)
(* may use again; since then they are paid at once.  REX gets no share of  *)
(* the fees: its actions are disabled, so it is never available.           *)
(***************************************************************************)
EXTENDS Integers, FiniteSetsExt, Functions

CONSTANTS
  Accounts,      \* the accounts that stake and trade
  Unlimited,     \* the accounts the system calls setalimits for
  Blacklisted,   \* the accounts blacklisted in amax.token
  Stake,         \* stake_account
  RamAccount,    \* ram_account
  FeeAccount,    \* ramfee_account
  Funds,         \* the tokens accounts have
  InitialQuote,  \* a thousandth of the supply, the initial connector of RAM
  InitialSize,   \* max_ram_size at first
  RamSizes,      \* bound: values setram gives it
  RamRates,      \* values of new_ram_per_block
  GiftBytes,     \* ram_gift_bytes
  FeeParts,      \* the fee is one part in this many, 200
  RefundDelay,   \* refund_delay_sec
  Amounts,       \* what is staked and unstaked, for each resource
  Quants,        \* what RAM is bought for
  Bytes,         \* the bytes of RAM that are bought or sold
  Limits,        \* the limits the system sets, Unmanaged to let go of one
  Unmanaged,
  MaxElapsed     \* bound on the blocks between two calls of update_ram_supply

ASSUME ResourcesAssumption ==
  /\ Unlimited \subseteq Accounts /\ Blacklisted \subseteq Accounts
  /\ IsFiniteSet(Accounts) /\ {Stake, RamAccount, FeeAccount} \cap Accounts = {}
  /\ Stake # RamAccount /\ RamAccount # FeeAccount /\ FeeAccount # Stake
  /\ Funds \in [Accounts -> Nat]
  /\ InitialQuote \in Nat \ {0} /\ RamSizes \subseteq Nat \ {0}
  /\ InitialSize \in Nat \ {0} /\ RamRates \subseteq Nat
  /\ GiftBytes \in Nat /\ FeeParts \in Nat \ {0, 1} /\ RefundDelay \in Nat
  /\ Amounts \subseteq Nat /\ Quants \subseteq Nat /\ Bytes \subseteq Nat \ {0}
  /\ Limits \subseteq Nat /\ Unmanaged \notin Nat /\ MaxElapsed \in Nat

VARIABLES
  del,           \* del_bandwidth_table: what an account stakes for another
  res,           \* user_resources_table: the totals of an account
  refunds,       \* refunds_table, and the age of request_time
  deferred,      \* whether the deferred refund of an account is scheduled
  voter,         \* voter_info: is it there, staked, flags1
  limits,        \* the limits an account has on the chain
  market,        \* the two connectors of _rammarket: bytes and tokens
  ram,           \* max_ram_size, total_ram_bytes_reserved, total_ram_stake,
                 \* new_ram_per_block
  elapsed,       \* the blocks since last_ram_increase
  bal,           \* the balances of amax.token
  activated,     \* thresh_activated_stake_time is set
  electionsOn    \* _elect_gstate.is_init()

stakeVars == <<del, refunds, deferred>>
ramVars == <<market, ram, elapsed>>
phase == <<activated, electionsOn>>
vars == <<stakeVars, res, voter, limits, ramVars, bal, phase>>

Zero == [net |-> 0, cpu |-> 0]
NoRefund == [net |-> 0, cpu |-> 0, age |-> 0]
NoRow == [row |-> FALSE, net |-> 0, cpu |-> 0, ram |-> 0]
NewVoter == [known |-> FALSE, staked |-> 0, managed |-> {}]

Replaced(row, d) == [row EXCEPT !.net = d.net, !.cpu = d.cpu]  \* mutant: not added
Plus(row, d) == [row EXCEPT !.net = @ + d.net, !.cpu = @ + d.cpu]
Total(d) == d.net + d.cpu
Positive(n) == IF n > 0 THEN n ELSE 0

\* A transfer of amax.token; a balance that is too low aborts the action.
CanPay(a, n) == bal[a] >= n
Paid(from, to, n) == [bal EXCEPT ![from] = @ - n, ![to] = @ + n]

-----------------------------------------------------------------------------
(* changebw                                                                *)

\* The limits of an account when its totals become tot: what the system
\* manages stays, and so does all if it manages both net and cpu.
Managed(a, resource) == resource \in voter[a].managed
AnyManaged(a) == Managed(a, "net") \/ Managed(a, "cpu")  \* mutant: either
AllManaged(a) == Managed(a, "net") /\ Managed(a, "cpu")
LimitsFor(a, tot) ==
  IF AllManaged(a) THEN limits[a]
  ELSE [ram |-> IF Managed(a, "ram") THEN limits[a].ram
                ELSE Max({tot.ram + GiftBytes, limits[a].ram}),
        net |-> IF Managed(a, "net") THEN limits[a].net ELSE tot.net,
        cpu |-> IF Managed(a, "cpu") THEN limits[a].cpu ELSE tot.cpu]

Kept(tot) == IF tot.net = 0 /\ tot.cpu = 0 THEN NoRow ELSE tot  \* mutant: RAM forgotten
Left(tot) == IF tot.net = 0 /\ tot.cpu = 0 /\ tot.ram = 0 THEN NoRow ELSE tot

\* What `from` stakes for `receiver` changes by d: the delegation, the totals
\* and the limits of the receiver, and the votes of `from`.
Restake(from, receiver, d) ==
  LET stake == Plus(del[from][receiver], d)
      tot   == [Plus(res[receiver], d) EXCEPT !.row = TRUE]
  IN  /\ stake.net >= 0 /\ stake.cpu >= 0
      /\ tot.net >= 0 /\ tot.cpu >= 0
      /\ voter[from].staked + Total(d) >= 0
      /\ del' = [del EXCEPT ![from][receiver] = stake]
      /\ res' = [res EXCEPT ![receiver] = Left(tot)]
      /\ limits' = [limits EXCEPT ![receiver] = LimitsFor(receiver, tot)]
      /\ voter' = [voter EXCEPT ![from].known = TRUE, ![from].staked = @ + Total(d)]

\* Since the elections the tokens move at once, from or to `source`; an old
\* refund must have been paid before.
MoveAtOnce(source, from, d) ==
  /\ refunds[from] = NoRefund
  /\ IF Total(d) > 0
     THEN CanPay(source, Total(d)) /\ bal' = Paid(source, Stake, Total(d))
     ELSE CanPay(Stake, -Total(d)) /\ bal' = Paid(Stake, source, -Total(d))
  /\ UNCHANGED <<refunds, deferred>>

\* Before, what is unstaked is added to the refund, and what an account stakes
\* for itself is taken from it first.
Refunded(r, d) ==
  LET net == Positive(r.net - d.net)
      cpu == Positive(r.cpu - d.cpu)
  IN  IF net = 0 /\ cpu = 0 THEN NoRefund
      ELSE [net |-> net, cpu |-> cpu, age |-> IF Total(d) < 0 THEN 0 ELSE r.age]

OweAll(r, d) == Positive(d.net) + Positive(d.cpu)  \* mutant: the refund is not used
Owed(r, d) == Positive(d.net - r.net) + Positive(d.cpu - r.cpu)

MoveByRefund(source, from, d, toSelf) ==
  IF toSelf \/ Total(d) < 0
  THEN /\ refunds' = [refunds EXCEPT ![from] = Refunded(@, d)]
       /\ deferred' = [deferred EXCEPT ![from] = refunds'[from] # NoRefund]
       /\ CanPay(source, Owed(refunds[from], d))
       /\ bal' = Paid(source, Stake, Owed(refunds[from], d))
  ELSE /\ deferred' = [deferred EXCEPT ![from] = FALSE]
       /\ CanPay(source, Total(d)) /\ bal' = Paid(source, Stake, Total(d))
       /\ UNCHANGED refunds

\* With transfer, the stake belongs to the receiver.
ChangeBw(source, receiver, d, transfer) ==
  LET from == IF transfer THEN receiver ELSE source
  IN  /\ Restake(from, receiver, d)
      /\ IF electionsOn THEN MoveAtOnce(source, from, d)
         ELSE MoveByRefund(source, from, d, ~transfer /\ from = receiver)
      /\ UNCHANGED <<ramVars, phase>>

DelegateBw(from, receiver, d, transfer) ==
  /\ from \notin Blacklisted
  /\ Total(d) > 0
  /\ transfer => from # receiver
  /\ ChangeBw(from, receiver, d, transfer)

\* By the system account or its administrator only
UndelegateBw(from, receiver, d) ==
  /\ Total(d) > 0
  /\ activated \/ electionsOn
  /\ ChangeBw(from, receiver, [net |-> -d.net, cpu |-> -d.cpu], FALSE)

RefundTaken(owner) == [refunds EXCEPT ![owner] = NoRefund]

\* refund, by the owner or by the deferred transaction
Refund(owner) ==
  /\ refunds[owner] # NoRefund /\ refunds[owner].age >= RefundDelay
  /\ CanPay(Stake, Total(refunds[owner]))
  /\ bal' = Paid(Stake, owner, Total(refunds[owner]))
  /\ refunds' = RefundTaken(owner)
  /\ deferred' \in {deferred, [deferred EXCEPT ![owner] = FALSE]}
  /\ UNCHANGED <<del, res, voter, limits, ramVars, phase>>

-----------------------------------------------------------------------------
(* The market of RAM.  Arithmetic is exact; the code uses doubles.         *)

BancorOutputUp(inReserve, outReserve, in) ==  \* mutant: rounded up
  (in * outReserve + inReserve + in - 1) \div (inReserve + in)
BancorOutput(inReserve, outReserve, in) == (in * outReserve) \div (inReserve + in)
BancorInput(outReserve, inReserve, out) == (inReserve * out) \div (outReserve - out)

\* update_ram_supply
GrownBase == market.base + elapsed * ram.rate
GrownSize == ram.size + elapsed * ram.rate

FeeOf(n) == (n + FeeParts - 1) \div FeeParts

\* The limit of RAM follows the totals, unless the system manages it.
RamLimit(a, tot) ==
  IF Managed(a, "ram") THEN limits ELSE [limits EXCEPT ![a].ram = tot.ram + GiftBytes]

BuyRam(payer, receiver, quant) ==
  LET paid  == quant - FeeOf(quant)
      bytes == BancorOutput(market.quote, GrownBase, paid)
      tot   == [res[receiver] EXCEPT !.row = TRUE, !.ram = @ + bytes]
  IN  /\ payer \notin Blacklisted
      /\ paid > 0 /\ CanPay(payer, quant)
      /\ bytes > 0
      /\ bal' = [bal EXCEPT ![payer] = @ - quant, ![RamAccount] = @ + paid,
                            ![FeeAccount] = @ + FeeOf(quant)]
      /\ market' = [base |-> GrownBase - bytes, quote |-> market.quote + paid]
      /\ ram' = [ram EXCEPT !.size = GrownSize, !.reserved = @ + bytes, !.stake = @ + paid]
      /\ elapsed' = 0
      /\ res' = [res EXCEPT ![receiver] = tot]
      /\ limits' = RamLimit(receiver, tot)
      /\ UNCHANGED <<stakeVars, voter, phase>>

\* The price is that of the market before the supply is updated.
BuyRamBytes(payer, receiver, bytes) ==
  /\ bytes < market.base
  /\ BuyRam(payer, receiver,
       (BancorInput(market.base, market.quote, bytes) * FeeParts) \div (FeeParts - 1))

\* What the seller of some bytes gets, before the fee
SaleOf(bytes) == BancorOutput(GrownBase, market.quote, bytes)

\* By the system account or its administrator only
SellRam(account, bytes) ==
  LET out == SaleOf(bytes)
      tot == [res[account] EXCEPT !.ram = @ - bytes]
  IN  /\ res[account].row /\ res[account].ram >= bytes
      /\ out > 1 /\ out <= ram.stake
      /\ CanPay(RamAccount, out)
      /\ bal' = [bal EXCEPT ![RamAccount] = @ - out, ![account] = @ + out - FeeOf(out),
                            ![FeeAccount] = @ + FeeOf(out)]
      /\ market' = [base |-> GrownBase + bytes, quote |-> market.quote - out]
      /\ ram' = [ram EXCEPT !.size = GrownSize, !.reserved = @ - bytes, !.stake = @ - out]
      /\ elapsed' = 0
      /\ res' = [res EXCEPT ![account] = tot]
      /\ limits' = RamLimit(account, tot)
      /\ UNCHANGED <<stakeVars, voter, phase>>

SetRam(size) ==
  /\ ram.size < size /\ size > ram.reserved
  /\ market' = [market EXCEPT !.base = @ + size - ram.size]
  /\ ram' = [ram EXCEPT !.size = size]
  /\ UNCHANGED <<stakeVars, res, voter, limits, elapsed, bal, phase>>

SetRamRate(rate) ==
  /\ market' = [market EXCEPT !.base = GrownBase]
  /\ ram' = [ram EXCEPT !.size = GrownSize, !.rate = rate]
  /\ elapsed' = 0
  /\ UNCHANGED <<stakeVars, res, voter, limits, bal, phase>>

-----------------------------------------------------------------------------
(* The limits the system account sets                                      *)

\* setacctram, setacctnet and setacctcpu: with a value the system manages the
\* resource, without one the limit follows the totals again.
Follows(a, resource) == IF resource = "ram" THEN res[a].ram + GiftBytes ELSE res[a][resource]

SetAcct(a, resource, limit) ==
  /\ limit = Unmanaged => Managed(a, resource)
  /\ voter' = [voter EXCEPT ![a].known = TRUE, ![a].managed =
                 IF limit = Unmanaged THEN @ \ {resource} ELSE @ \cup {resource}]
  /\ limits' = [limits EXCEPT ![a][resource] =
                  IF limit = Unmanaged THEN Follows(a, resource) ELSE limit]
  /\ UNCHANGED <<stakeVars, res, ramVars, bal, phase>>

\* setalimits
SetALimits(a, n) ==
  /\ ~res[a].row /\ voter[a].managed = {}
  /\ limits' = [limits EXCEPT ![a] = [ram |-> n, net |-> n, cpu |-> n]]
  /\ UNCHANGED <<stakeVars, res, voter, ramVars, bal, phase>>

-----------------------------------------------------------------------------
\* The threshold of stakes is reached in the legacy voting.
Activate ==
  /\ ~activated /\ activated' = TRUE
  /\ UNCHANGED <<stakeVars, res, voter, limits, ramVars, bal, electionsOn>>

\* upgradevote
InitElections ==
  /\ ~electionsOn /\ electionsOn' = TRUE
  /\ UNCHANGED <<stakeVars, res, voter, limits, ramVars, bal, activated>>

\* Blocks, and days, go by.
Tick ==
  /\ elapsed' = IF elapsed < MaxElapsed THEN elapsed + 1 ELSE elapsed
  /\ refunds' = [a \in Accounts |->
       IF refunds[a] # NoRefund /\ refunds[a].age < RefundDelay
       THEN [refunds[a] EXCEPT !.age = @ + 1] ELSE refunds[a]]
  /\ UNCHANGED <<del, deferred, res, voter, limits, market, ram, bal, phase>>

\* newaccount has made every account but the unlimited ones.
Init ==
  /\ del = [a \in Accounts |-> [b \in Accounts |-> Zero]]
  /\ res = [a \in Accounts |-> [NoRow EXCEPT !.row = a \notin Unlimited]]
  /\ refunds = [a \in Accounts |-> NoRefund]
  /\ deferred = [a \in Accounts |-> FALSE]
  /\ voter = [a \in Accounts |-> NewVoter]
  /\ limits = [a \in Accounts |-> [ram |-> 0, net |-> 0, cpu |-> 0]]
  /\ market = [base |-> InitialSize, quote |-> InitialQuote]
  /\ ram = [size |-> InitialSize, reserved |-> 0, stake |-> 0, rate |-> 0]
  /\ elapsed = 0
  /\ bal = [a \in Accounts \cup {Stake, RamAccount, FeeAccount} |->
              IF a \in Accounts THEN Funds[a] ELSE 0]
  /\ activated = FALSE /\ electionsOn = FALSE

Staking ==
  \E a, b \in Accounts, d \in [net : Amounts, cpu : Amounts] :
    \/ \E transfer \in BOOLEAN : DelegateBw(a, b, d, transfer)
    \/ UndelegateBw(a, b, d)

Trading ==
  \E a, b \in Accounts :
    \/ \E quant \in Quants : BuyRam(a, b, quant)
    \/ \E bytes \in Bytes : BuyRamBytes(a, b, bytes)
    \/ \E bytes \in Bytes \cup {res[a].ram} : bytes > 0 /\ SellRam(a, bytes)

Administering ==
  \/ \E size \in RamSizes : SetRam(size)
  \/ \E rate \in RamRates : SetRamRate(rate)
  \/ \E a \in Accounts, resource \in {"ram", "net", "cpu"}, limit \in Limits \cup {Unmanaged} :
       SetAcct(a, resource, limit)
  \/ \E a \in Unlimited, n \in Limits : SetALimits(a, n)

Next ==
  \/ Staking
  \/ \E a \in Accounts : Refund(a)
  \/ Trading
  \/ Administering
  \/ Activate \/ InitElections \/ Tick

Spec == Init /\ [][Next]_vars

-----------------------------------------------------------------------------
(* Properties.                                                             *)

\* What accounts stake for each other, the totals of the receivers and the
\* votes of the stakers are three tables that changebw keeps in step, whoever
\* pays, across rows that are erased and made again (also by RAM).
StakesAddUp ==
  \A a \in Accounts :
    /\ voter[a].staked = SumFunction([b \in Accounts |-> Total(del[a][b])])
    /\ res[a].net = SumFunction([b \in Accounts |-> del[b][a].net])
    /\ res[a].cpu = SumFunction([b \in Accounts |-> del[b][a].cpu])

\* The stake account holds exactly what is staked and what is being refunded,
\* through the change from refunds to payment at once: no refund is paid
\* twice, no stake is paid for with a refund that stays.
StakesCovered ==
  bal[Stake] =
    SumFunction([a \in Accounts |-> voter[a].staked + Total(refunds[a])])

\* The limits of an account follow its totals again as soon as the system
\* does not manage them: three handlers write them, and each must pass on the
\* limits it is not about (unlimited accounts excepted).
LimitsFollowTotals ==
  \A a \in Accounts \ Unlimited :
    /\ ~Managed(a, "net") => limits[a].net = res[a].net
    /\ ~Managed(a, "cpu") => limits[a].cpu = res[a].cpu

\* The market and the counters beside it agree: the base connector is the free
\* RAM, and what the market took in is what the RAM account holds.
MarketMatches ==
  /\ market.base = ram.size - ram.reserved
  /\ market.quote = InitialQuote + ram.stake
  /\ bal[RamAccount] = ram.stake

\* No byte and no token of the market is lost: besides, the RAM that is
\* reserved is the RAM accounts have.
RamConserved ==
  /\ MarketMatches
  /\ ram.reserved = SumFunction([a \in Accounts |-> res[a].ram])

\* "this shouldn't happen" (delegate_bandwidth.cpp:142): any part of the RAM
\* accounts have can be sold for no more than was paid for it, in whatever
\* order it was bought, the supply grew and it is sold; the rounding never
\* favours a trader.
RamStakeSuffices == \A bytes \in 1 .. ram.reserved : SaleOf(bytes) <= ram.stake
=============================================================================
