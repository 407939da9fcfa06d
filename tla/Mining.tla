------------------------------- MODULE Mining -------------------------------
(***************************************************************************)
(* The mining contracts that pay AMAX of amax.token: amax.one (swaps of a  *)
(* fixed amount of APL, some of them through an order the administrator    *)
(* confirms or expires), amax.two (swaps by a formula) and amax.ido (sale  *)
(* for USDT).  All of them pay by an inline transfer, so a payment that    *)
(* the ledger refuses undoes the whole transaction.                        *)
(*                                                                         *)
(* APL and USDT belong to contracts outside the repository: a miner may    *)
(* send any amount at any time.  Of the time only its place relative to    *)
(* started_at and ended_at matters; it passes, and init moves it at will.  *)
(***************************************************************************)
EXTENDS TokenLedger

CONSTANTS
    Miners,
    Admin,
    One, Two, Ido,  \* the accounts of the contracts
    SwapAmounts,    \* bound: amounts of APL with a configuration
    AdsAmount,      \* the amount that may be swapped through an order
    Remains,        \* bound: supplies a configuration may be given
    Swap, SwapAds,  \* Swap[n], SwapAds[n]: tokens paid, plainly and after the check
    Rewards,        \* Rewards[n]: the rewards amax.two may compute for n APL
    Prices,         \* bound: prices of amax.ido, in USDT for PriceUnit AMAX
    PriceUnit, MinBuy,
    MaxOrders,      \* bound: orders added
    NoConf

ASSUME MiningAssumption ==
    /\ Miners \cup {Admin, One, Two, Ido} \subseteq Accounts
    /\ Cardinality({One, Two, Ido}) = 3 /\ Admin \notin {One, Two, Ido}
    /\ Miners \cap {One, Two, Ido, Admin} = {}
    /\ SwapAmounts \subseteq Nat /\ {Swap, SwapAds} \subseteq [SwapAmounts -> Nat]
    /\ AdsAmount \in SwapAmounts
    /\ Remains \subseteq Nat /\ Prices \subseteq Nat \ {0}
    /\ Rewards \in [SwapAmounts -> SUBSET Nat]
    /\ NoConf \notin Int
    /\ {One, Two, Ido} \cap ({FirstIssuer} \cup Listable \cup Degov) = {}
    /\ PriceUnit \in Nat \ {0} /\ MinBuy \in Nat \ {0} /\ MaxOrders \in Nat

VARIABLES
    phase,          \* of One and Two: "before", "open" or "ended"
    remained,       \* amax.one: remained[n], or NoConf
    orders,         \* amax.one: [id, miner, amount]
    lastOrder,      \* last_order_id
    left,           \* amax.two: mine_token_remained
    price           \* amax.ido: amax_price

oneVars == <<remained, orders, lastOrder>>
miningVars == <<phase, remained, orders, lastOrder, left, price>>
vars == <<tokenVars, miningVars>>

Phases == {"before", "open", "ended"}

Init == /\ TokenInit
        /\ phase = [c \in {One, Two} |-> "before"]
        /\ remained = [n \in SwapAmounts |-> NoConf]
        /\ orders = {}
        /\ lastOrder = 0
        /\ left = 0
        /\ price \in Prices

(* The inline transfer of a payment.                                       *)
Pay(contract, to, q) == Transfer(contract, to, q)

(* amax.one *)
ClaimOne(miner, n, adsChecked) ==
    LET q == IF adsChecked THEN SwapAds[n] ELSE Swap[n]
    IN  /\ remained[n] # NoConf
        /\ q > 0 /\ q <= remained[n]
        /\ remained' = [remained EXCEPT ![n] = @ - q]
        /\ Pay(One, miner, q)

SwapOpen(n) == phase[One] = "open" /\ remained[n] # NoConf /\ remained[n] >= Swap[n]

(* A miner sends n APL; small says that it holds less than 1000 of them.   *)
SwapOne(miner, n, small) ==
    /\ small
    /\ miner \notin black
    /\ SwapOpen(n)
    /\ ClaimOne(miner, n, FALSE)
    /\ UNCHANGED <<phase, orders, lastOrder, left, price>>

AddOrder(miner, n, small) ==
    /\ small
    /\ miner \notin black
    /\ SwapOpen(n)
    /\ n = AdsAmount
    /\ lastOrder < MaxOrders
    /\ lastOrder' = lastOrder + 1
    /\ orders' = orders \cup {[id |-> lastOrder + 1, miner |-> miner, amount |-> n]}
    /\ UNCHANGED <<tokenVars, phase, remained, left, price>>

OrderKept(o) == orders
OrderErased(o) == orders \ {o}

(* confirmads and onswapexpird: expired_at is not looked at.               *)
SettleOrder(o, adsChecked) ==
    /\ ClaimOne(o.miner, o.amount, adsChecked)
    /\ orders' = OrderErased(o)
    /\ UNCHANGED <<phase, lastOrder, left, price>>

AddSwapConf(n, r) ==
    /\ remained[n] = NoConf
    /\ remained' = [remained EXCEPT ![n] = r]
    /\ UNCHANGED <<tokenVars, phase, orders, lastOrder, left, price>>
SetRemained(n, r) ==
    /\ remained[n] # NoConf
    /\ remained' = [remained EXCEPT ![n] = r]
    /\ UNCHANGED <<tokenVars, phase, orders, lastOrder, left, price>>
DelSwapConf(n) ==
    /\ remained[n] # NoConf
    /\ remained' = [remained EXCEPT ![n] = NoConf]
    /\ UNCHANGED <<tokenVars, phase, orders, lastOrder, left, price>>

(* amax.two *)
SwapTwo(miner, n, small) ==
    /\ ~small
    /\ miner \notin black
    /\ phase[Two] = "open"
    /\ \E q \in Rewards[n] : /\ q <= left
                             /\ left' = left - q
                             /\ Pay(Two, miner, q)
    /\ UNCHANGED <<phase, remained, orders, lastOrder, price>>

SetMineToken(r) ==
    /\ left' = r
    /\ UNCHANGED <<tokenVars, phase, remained, orders, lastOrder, price>>

(* The APL of a blacklisted miner is kept and nothing is paid.             *)
SwallowApl(miner) == miner \in black /\ UNCHANGED vars

(* amax.ido: half a unit is rounded up; all of the balance is never sold.  *)
Bought(usdt) == ((10 * usdt * PriceUnit) \div price + 5) \div 10

Buy(miner, usdt) ==
    LET q == Bought(usdt)
    IN  /\ rows[Ido] # NoRow
        /\ q < rows[Ido]
        /\ q >= MinBuy
        /\ Pay(Ido, miner, q)
    /\ UNCHANGED miningVars

SetPrice(p) == price' = p /\ UNCHANGED <<tokenVars, phase, remained, orders, lastOrder, left>>

(* AMAX sent to amax.two must come from its administrator and is added to  *)
(* what remains; the other contracts take AMAX from anyone.                *)
Refused(from, to) == to = Two /\ from # Admin
AddedTo(to, q) == IF to = Two THEN left + q ELSE left

SendAmax(from, to, q) ==
    /\ from \notin {One, Two, Ido}
    /\ ~Refused(from, to)
    /\ Transfer(from, to, q)
    /\ left' = AddedTo(to, q)
    /\ UNCHANGED <<phase, remained, orders, lastOrder, price>>

(* Time passes, or init gives a contract other times.                      *)
Pass(c, p) == /\ phase' = [phase EXCEPT ![c] = p]
              /\ UNCHANGED <<tokenVars, remained, orders, lastOrder, left, price>>

Swapping ==
    \E miner \in Miners, n \in SwapAmounts, small \in BOOLEAN :
        SwapOne(miner, n, small) \/ AddOrder(miner, n, small) \/ SwapTwo(miner, n, small)

Administering ==
    \/ \E o \in orders, adsChecked \in BOOLEAN : SettleOrder(o, adsChecked)
    \/ \E n \in SwapAmounts, r \in Remains : AddSwapConf(n, r) \/ SetRemained(n, r)
    \/ \E n \in SwapAmounts : DelSwapConf(n)
    \/ \E r \in Remains : SetMineToken(r)
    \/ \E p \in Prices : SetPrice(p)
    \/ \E c \in {One, Two}, p \in Phases : Pass(c, p)

Next ==
    \/ Swapping
    \/ Administering
    \/ \E miner \in Miners, usdt \in SwapAmounts : Buy(miner, usdt)
    \/ \E miner \in Miners : SwallowApl(miner)
    \/ \E from, to \in Accounts, q \in Amounts : SendAmax(from, to, q)
    \/ LedgerAction /\ UNCHANGED miningVars

Spec == Init /\ [][Next]_vars

(***************************************************************************)
(* Properties.                                                             *)
(***************************************************************************)
MiningTypeOK ==
    /\ phase \in [{One, Two} -> Phases]
    /\ remained \in [SwapAmounts -> Nat \cup {NoConf}]
    /\ orders \subseteq [id: 1 .. lastOrder, miner: Miners, amount: SwapAmounts]
    /\ left \in Nat /\ lastOrder \in Nat /\ price \in Prices

Remaining(r, n) == IF r[n] = NoConf THEN 0 ELSE r[n]
Change(c) == Held(rows', c) - Held(rows, c)
Fall(n) == Remaining(remained, n) - Remaining(remained', n)

(* Tokens leave amax.one only against what remains of one configuration,   *)
(* by the same amount, and for at most one order, to its miner and with    *)
(* the order gone; tokens enter and leave amax.two together with what      *)
(* remains.  A payment made twice, made to another, or booked and not made *)
(* would break it.                                                         *)
PaidAgainstRemained ==
    [][ /\ Change(One) < 0 =>
             /\ \E n \in SwapAmounts :
                    /\ Fall(n) = -Change(One)
                    /\ \A k \in SwapAmounts \ {n} : Fall(k) = 0
             /\ \E miner \in Miners :
                    /\ Change(miner) = -Change(One)
                    /\ \/ orders' = orders /\ phase[One] = "open"
                       \/ \E o \in orders : o.miner = miner /\ orders' = orders \ {o}
        /\ orders' # orders /\ Cardinality(orders') < Cardinality(orders) => Change(One) < 0
        /\ Change(Two) # 0 => left' - left = Change(Two)
      ]_vars
=============================================================================
