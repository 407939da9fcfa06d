---------------------------- MODULE MiningProofs ----------------------------
(***************************************************************************)
(* The mining contracts pay only against what remains, for all accounts,   *)
(* amounts, configurations and numbers of orders.  It rests on what a      *)
(* transfer of the ledger does to the balance of each account, and on      *)
(* invariants that keep other actions of the ledger, slashing and issuing, *)
(* away from the contracts.  The supply of the ledger is the sum of its    *)
(* balances, as every action of it adds to both or moves between two rows. *)
(***************************************************************************)
EXTENDS Mining, Sums, FiniteSetTheorems, TLAPS

Contracts == {One, Two, Ido}

\* No contract issues tokens or is on a blacklist, so that nothing but its
\* own transfers moves its tokens.
Apartness == /\ issuer \in Accounts \ Contracts
             /\ black \subseteq Accounts \ Contracts

MiningInv == /\ TokenTypeOK /\ MiningTypeOK
             /\ IsFiniteSet(orders)
             /\ Apartness

-----------------------------------------------------------------------------
(* The ledger.                                                             *)

\* A transfer moves q from one balance to the other.
LEMMA TransferMoves ==
    ASSUME TokenTypeOK, NEW from \in Accounts, NEW to \in Accounts, NEW q \in Nat,
           Transfer(from, to, q)
    PROVE  /\ from # to /\ q > 0
           /\ TokenTypeOK'
           /\ Change(from) = -q /\ Change(to) = q
           /\ \A a \in Accounts \ {from, to} : Change(a) = 0
<1>1. /\ from # to /\ q > 0 /\ rows[from] # NoRow /\ rows[from] >= q
      /\ rows \in [Accounts -> Nat \cup {NoRow}] /\ NoRow \notin Int
    BY TokenAssumption DEF TokenAssumption, Transfer, CanTransfer, CanSub, TokenTypeOK
<1>2. rows' = [[rows EXCEPT ![from] = @ - q] EXCEPT ![to] = Held(rows, to) + q]
    BY <1>1 DEF Transfer, Transferred, Add, Sub, Held
<1>3. Held(rows, to) \in Nat /\ Held(rows, from) \in Nat /\ rows[from] - q \in Nat
    BY <1>1 DEF Held
<1>4. /\ rows' \in [Accounts -> Nat \cup {NoRow}]
      /\ rows'[from] = rows[from] - q /\ rows'[to] = Held(rows, to) + q
      /\ \A a \in Accounts \ {from, to} : rows'[a] = rows[a]
    BY <1>1, <1>2, <1>3
<1>5. TokenTypeOK'
    BY <1>4 DEF TokenTypeOK, Transfer
<1>6. Held(rows', from) = rows[from] - q /\ Held(rows, from) = rows[from]
    BY <1>1, <1>3, <1>4 DEF Held
<1>7. Held(rows', to) = Held(rows, to) + q
    BY <1>1, <1>3, <1>4 DEF Held
<1>8. ASSUME NEW a \in Accounts \ {from, to} PROVE Change(a) = 0
    <2>1. Held(rows', a) = Held(rows, a) /\ Held(rows, a) \in Nat
        BY <1>1, <1>4 DEF Held
    <2> QED  BY <2>1 DEF Change
<1>9. Change(from) = -q /\ Change(to) = q
    <2>1. rows[from] \in Nat
        BY <1>1
    <2> QED  BY <1>3, <1>6, <1>7, <2>1 DEF Change
<1> QED  BY <1>1, <1>5, <1>8, <1>9

\* Every other action of the ledger leaves the contracts their balances.
LEMMA LedgerSparesContracts ==
    ASSUME MiningInv, LedgerAction
    PROVE  /\ TokenTypeOK' /\ Apartness'
           /\ \A c \in Contracts : Change(c) = 0
<1>1. /\ rows \in [Accounts -> Nat \cup {NoRow}] /\ NoRow \notin Int /\ supply \in Int
      /\ issuer \in Accounts \ Contracts /\ black \subseteq Accounts \ Contracts
    BY TokenAssumption DEF TokenAssumption, MiningInv, TokenTypeOK, Apartness
<1>2. /\ Contracts \subseteq Accounts /\ Contracts \cap (Listable \cup Degov) = {}
      /\ Listable \cup Openers \subseteq Accounts /\ Amounts \subseteq Nat
    BY TokenAssumption, MiningAssumption
    DEF TokenAssumption, MiningAssumption, Contracts
<1> DEFINE Spared == /\ TokenTypeOK' /\ Apartness'
                     /\ \A c \in Contracts : Change(c) = 0
<1>3. ASSUME NEW a \in Accounts, NEW row \in Nat \cup {NoRow},
             rows' = [rows EXCEPT ![a] = row],
             a \notin Contracts \/ (Held(rows', a) = Held(rows, a))
      PROVE  /\ rows' \in [Accounts -> Nat \cup {NoRow}]
             /\ \A c \in Contracts : Change(c) = 0
    <2>1. rows' \in [Accounts -> Nat \cup {NoRow}]
        BY <1>1, <1>3
    <2>2. ASSUME NEW c \in Contracts PROVE Change(c) = 0
        <3>1. Held(rows, c) \in Int
            BY <1>1, <1>2 DEF Held
        <3>2. Held(rows', c) = Held(rows, c)
            BY <1>1, <1>2, <1>3 DEF Held
        <3> QED  BY <3>1, <3>2 DEF Change
    <2> QED  BY <2>1, <2>2
<1>4. \A a \in Accounts : Held(rows, a) \in Nat
    BY <1>1 DEF Held
<1>5. ASSUME NEW q \in Amounts, Issue(q) PROVE Spared
    <2>1. rows' = [rows EXCEPT ![issuer] = Held(rows, issuer) + q] /\ q \in Nat
        BY <1>2, <1>5 DEF Issue, Add
    <2>2. Held(rows, issuer) + q \in Nat
        BY <1>1, <1>4, <2>1
    <2>3. /\ rows' \in [Accounts -> Nat \cup {NoRow}]
          /\ \A c \in Contracts : Change(c) = 0
        BY <1>1, <1>3, <2>1, <2>2
    <2> QED  BY <1>1, <1>5, <2>1, <2>3 DEF Issue, TokenTypeOK, Apartness
<1>6. ASSUME NEW q \in Amounts, NEW a \in Accounts \ Contracts,
             CanSub(rows, a, q), rows' = Sub(rows, a, q), supply' \in Int,
             UNCHANGED <<issuer, black>>
      PROVE  Spared
    <2>1. rows[a] - q \in Nat /\ rows' = [rows EXCEPT ![a] = rows[a] - q]
        BY <1>1, <1>2, <1>6 DEF CanSub, Sub
    <2>2. /\ rows' \in [Accounts -> Nat \cup {NoRow}]
          /\ \A c \in Contracts : Change(c) = 0
        BY <1>3, <2>1
    <2> QED  BY <1>1, <1>6, <2>2 DEF TokenTypeOK, Apartness
<1>7. ASSUME NEW q \in Amounts, Retire(q) PROVE Spared
    <2>1. supply' \in Int
        BY <1>1, <1>2, <1>7 DEF Retire
    <2> QED  BY <1>1, <1>6, <1>7, <2>1 DEF Retire
<1>8. ASSUME NEW a \in Accounts, NEW q \in Amounts, SlashBlack(a, q) PROVE Spared
    <2>1. a \notin Contracts
        BY <1>1, <1>2, <1>8 DEF SlashBlack, IsBlacklisted
    <2>2. supply' \in Int
        BY <1>1, <1>2, <1>8 DEF SlashBlack, SlashedSupply
    <2> QED  BY <1>6, <1>8, <2>1, <2>2 DEF SlashBlack
<1>9. ASSUME rows' = rows PROVE \A c \in Contracts : Change(c) = 0
    <2> SUFFICES ASSUME NEW c \in Contracts PROVE Change(c) = 0
        OBVIOUS
    <2>1. Held(rows, c) \in Int
        BY <1>2, <1>4
    <2> QED  BY <1>9, <2>1 DEF Change
<1>10. ASSUME NEW a \in Listable, SetIssue(a) PROVE Spared
    BY <1>1, <1>2, <1>9, <1>10 DEF SetIssue, TokenTypeOK, Apartness
<1>11. ASSUME NEW targets \in SUBSET Listable, NEW toAdd \in BOOLEAN,
              Blacklist(targets, toAdd)
       PROVE  Spared
    <2>1. black' \subseteq Accounts \ Contracts
        BY <1>1, <1>2, <1>11 DEF Blacklist
    <2> QED  BY <1>1, <1>9, <1>11, <2>1 DEF Blacklist, TokenTypeOK, Apartness
<1>12. ASSUME NEW a \in Openers, Open(a) \/ Close(a) PROVE Spared
    <2>1. PICK row \in Nat \cup {NoRow} :
            /\ rows' = [rows EXCEPT ![a] = row]
            /\ row = NoRow => rows[a] = 0
            /\ row # NoRow => row = Held(rows, a)
        <3>1. CASE Open(a)
            <4>1. Held(rows, a) \in Nat /\ Held(rows, a) # NoRow
                BY <1>1, <1>2, <1>4
            <4> QED  BY <3>1, <4>1 DEF Open
        <3>2. CASE Close(a)
            BY <3>2 DEF Close
        <3> QED  BY <1>12, <3>1, <3>2
    <2>2. Held(rows', a) = Held(rows, a)
        BY <1>1, <1>2, <2>1 DEF Held
    <2>3. /\ rows' \in [Accounts -> Nat \cup {NoRow}]
          /\ \A c \in Contracts : Change(c) = 0
        BY <1>2, <1>3, <2>1, <2>2
    <2> QED  BY <1>1, <1>12, <2>3 DEF Open, Close, TokenTypeOK, Apartness
<1> QED  BY <1>5, <1>7, <1>8, <1>10, <1>11, <1>12 DEF LedgerAction

-----------------------------------------------------------------------------
(* The actions.                                                            *)

\* What PaidAgainstRemained says of a step.
Booked ==
    /\ Change(One) < 0 =>
         /\ \E n \in SwapAmounts :
                /\ Fall(n) = -Change(One)
                /\ \A k \in SwapAmounts \ {n} : Fall(k) = 0
         /\ \E miner \in Miners :
                /\ Change(miner) = -Change(One)
                /\ \/ orders' = orders /\ phase[One] = "open"
                   \/ \E o \in orders : o.miner = miner /\ orders' = orders \ {o}
    /\ orders' # orders /\ Cardinality(orders') < Cardinality(orders) => Change(One) < 0
    /\ Change(Two) # 0 => left' - left = Change(Two)

LEMMA ContractsDiffer ==
    /\ One \in Accounts /\ Two \in Accounts /\ Ido \in Accounts /\ Miners \subseteq Accounts
    /\ One # Two /\ Two # Ido /\ One # Ido
    /\ Miners \cap Contracts = {}
<1>1. One # Two /\ Two # Ido /\ One # Ido
    <2>1. ASSUME NEW a, NEW b PROVE Cardinality({a, b}) # 3
        <3>1. /\ IsFiniteSet({a}) /\ Cardinality({a}) = 1
            BY FS_Singleton
        <3>2. Cardinality({a} \cup {b}) \in {1, 2}
            BY <3>1, FS_AddElement
        <3>3. {a} \cup {b} = {a, b}
            OBVIOUS
        <3> QED  BY <3>2, <3>3
    <2>2. ASSUME One = Two \/ Two = Ido \/ One = Ido PROVE FALSE
        <3>1. {One, Two, Ido} = {One, Two} \/ {One, Two, Ido} = {Two, Ido}
            BY <2>2
        <3> QED  BY <2>1, <3>1, MiningAssumption DEF MiningAssumption
    <2> QED  BY <2>2
<1> QED  BY <1>1, MiningAssumption DEF MiningAssumption, Contracts

\* The ledger stays apart from the contracts in a transfer, too.
LEMMA TransferKeepsApart ==
    ASSUME Apartness, NEW from, NEW to, NEW q, Transfer(from, to, q)
    PROVE  Apartness'
BY DEF Apartness, Transfer

\* claim: the payment and the fall of what remains.
LEMMA ClaimBooked ==
    ASSUME MiningInv, NEW miner \in Miners, NEW n \in SwapAmounts, NEW adsChecked \in BOOLEAN,
           ClaimOne(miner, n, adsChecked)
    PROVE  /\ TokenTypeOK' /\ Apartness'
           /\ remained' \in [SwapAmounts -> Nat \cup {NoConf}]
           /\ Change(One) < 0 /\ Change(miner) = -Change(One) /\ Change(Two) = 0
           /\ Fall(n) = -Change(One)
           /\ \A k \in SwapAmounts \ {n} : Fall(k) = 0
<1>1. PICK q \in Nat : /\ q <= remained[n] /\ Transfer(One, miner, q)
                       /\ remained' = [remained EXCEPT ![n] = @ - q]
    <2>1. Swap[n] \in Nat /\ SwapAds[n] \in Nat
        BY MiningAssumption DEF MiningAssumption
    <2> QED  BY <2>1 DEF ClaimOne, Pay
<1>2. /\ remained \in [SwapAmounts -> Nat \cup {NoConf}] /\ remained[n] # NoConf
      /\ NoConf \notin Int
    BY MiningAssumption DEF MiningAssumption, MiningInv, MiningTypeOK, ClaimOne
<1>3. /\ One \in Accounts /\ miner \in Accounts /\ miner # One /\ miner # Two
      /\ Two \in Accounts \ {One, miner}
    BY ContractsDiffer DEF Contracts
<1>4. /\ q > 0 /\ TokenTypeOK' /\ Change(One) = -q /\ Change(miner) = q /\ Change(Two) = 0
    BY <1>1, <1>3, TransferMoves DEF MiningInv
<1>5. Apartness'
    BY <1>1, TransferKeepsApart DEF MiningInv
<1>6. remained[n] \in Nat /\ remained[n] - q \in Nat
    BY <1>1, <1>2
<1>7. remained' \in [SwapAmounts -> Nat \cup {NoConf}]
    BY <1>1, <1>2, <1>6
<1>8. remained'[n] = remained[n] - q /\ \A k \in SwapAmounts \ {n} : remained'[k] = remained[k]
    BY <1>1, <1>2
<1>9. Fall(n) = q
    BY <1>2, <1>6, <1>8 DEF Fall, Remaining
<1>10. ASSUME NEW k \in SwapAmounts \ {n} PROVE Fall(k) = 0
    BY <1>2, <1>8 DEF Fall, Remaining
<1> HIDE DEF Change
<1> QED  BY <1>4, <1>5, <1>7, <1>9, <1>10

\* Balances that stay, and orders that do not become fewer.
LEMMA StillBooked ==
    ASSUME MiningInv, rows' = rows,
           orders' = orders \/ ~(Cardinality(orders') < Cardinality(orders))
    PROVE  Booked
<1>1. Change(One) = 0 /\ Change(Two) = 0
    <2>1. Held(rows, One) \in Int /\ Held(rows, Two) \in Int
        BY ContractsDiffer DEF Held, MiningInv, TokenTypeOK
    <2> QED  BY <2>1 DEF Change
<1> HIDE DEF Change
<1> QED  BY <1>1 DEF Booked

LEMMA SwapOneBooked ==
    ASSUME MiningInv, NEW miner \in Miners, NEW n \in SwapAmounts, NEW small \in BOOLEAN,
           SwapOne(miner, n, small)
    PROVE  MiningInv' /\ Booked
<1>1. /\ ClaimOne(miner, n, FALSE) /\ phase[One] = "open"
      /\ UNCHANGED <<phase, orders, lastOrder, left, price>>
    BY DEF SwapOne, SwapOpen
<1>2. /\ TokenTypeOK' /\ Apartness'
      /\ remained' \in [SwapAmounts -> Nat \cup {NoConf}]
      /\ Change(One) < 0 /\ Change(miner) = -Change(One) /\ Change(Two) = 0
      /\ Fall(n) = -Change(One)
      /\ \A k \in SwapAmounts \ {n} : Fall(k) = 0
    BY <1>1, ClaimBooked
<1>3. MiningInv'
    BY <1>1, <1>2 DEF MiningInv, MiningTypeOK
<1>4. Booked
    BY <1>1, <1>2 DEF Booked
<1> QED  BY <1>3, <1>4

LEMMA SettleBooked ==
    ASSUME MiningInv, NEW o \in orders, NEW adsChecked \in BOOLEAN, SettleOrder(o, adsChecked)
    PROVE  MiningInv' /\ Booked
<1>1. o.miner \in Miners /\ o.amount \in SwapAmounts
    BY DEF MiningInv, MiningTypeOK
<1>2. /\ ClaimOne(o.miner, o.amount, adsChecked) /\ orders' = orders \ {o}
      /\ UNCHANGED <<phase, lastOrder, left, price>>
    BY DEF SettleOrder, OrderErased
<1>3. PICK miner \in Miners, n \in SwapAmounts : miner = o.miner /\ n = o.amount
    BY <1>1
<1>4. /\ TokenTypeOK' /\ Apartness'
      /\ remained' \in [SwapAmounts -> Nat \cup {NoConf}]
      /\ Change(One) < 0 /\ Change(miner) = -Change(One) /\ Change(Two) = 0
      /\ Fall(n) = -Change(One)
      /\ \A k \in SwapAmounts \ {n} : Fall(k) = 0
    BY <1>2, <1>3, ClaimBooked
<1>5. IsFiniteSet(orders')
    BY <1>2, FS_RemoveElement DEF MiningInv
<1>6. MiningInv'
    BY <1>2, <1>4, <1>5 DEF MiningInv, MiningTypeOK
<1>7. Booked
    BY <1>2, <1>3, <1>4 DEF Booked
<1> QED  BY <1>6, <1>7

\* An order is added while nothing is paid.
LEMMA AddOrderBooked ==
    ASSUME MiningInv, NEW miner \in Miners, NEW n \in SwapAmounts, NEW small \in BOOLEAN,
           AddOrder(miner, n, small)
    PROVE  MiningInv' /\ Booked
<1> DEFINE o == [id |-> lastOrder + 1, miner |-> miner, amount |-> n]
<1>1. /\ orders' = orders \cup {o} /\ lastOrder' = lastOrder + 1
      /\ UNCHANGED <<tokenVars, phase, remained, left, price>>
    BY DEF AddOrder
<1>2. orders \subseteq [id: 1 .. lastOrder, miner: Miners, amount: SwapAmounts] /\ lastOrder \in Nat
    BY DEF MiningInv, MiningTypeOK
<1>3. orders' \subseteq [id: 1 .. lastOrder', miner: Miners, amount: SwapAmounts]
    BY <1>1, <1>2
<1>4. /\ IsFiniteSet(orders') /\ Cardinality(orders) \in Nat
      /\ Cardinality(orders') \in {Cardinality(orders), Cardinality(orders) + 1}
    <2> HIDE DEF o
    <2> QED  BY <1>1, FS_AddElement, FS_CardinalityType DEF MiningInv
<1>5. MiningInv'
    <2>1. lastOrder' \in Nat
        BY <1>1, <1>2
    <2> HIDE DEF o
    <2> QED  BY <1>1, <1>3, <1>4, <2>1 DEF MiningInv, MiningTypeOK, TokenTypeOK, Apartness, tokenVars
<1>6. Booked
    <2>1. rows' = rows
        BY <1>1 DEF tokenVars
    <2>2. ~(Cardinality(orders') < Cardinality(orders))
        BY <1>4
    <2> QED  BY <2>1, <2>2, StillBooked
<1> QED  BY <1>5, <1>6

LEMMA SwapTwoBooked ==
    ASSUME MiningInv, NEW miner \in Miners, NEW n \in SwapAmounts, NEW small \in BOOLEAN,
           SwapTwo(miner, n, small)
    PROVE  MiningInv' /\ Booked
<1>1. PICK q \in Nat : q <= left /\ left' = left - q /\ Transfer(Two, miner, q)
    BY MiningAssumption DEF MiningAssumption, SwapTwo, Pay
<1>2. /\ Two \in Accounts /\ miner \in Accounts /\ One \in Accounts \ {Two, miner}
    BY ContractsDiffer DEF Contracts
<1>3. TokenTypeOK' /\ Change(Two) = -q /\ Change(One) = 0
    BY <1>1, <1>2, TransferMoves DEF MiningInv
<1>4. Apartness'
    BY <1>1, TransferKeepsApart DEF MiningInv
<1>5. left \in Nat /\ left' \in Nat /\ left' - left = -q
    BY <1>1 DEF MiningInv, MiningTypeOK
<1>6. UNCHANGED <<phase, remained, orders, lastOrder, price>>
    BY DEF SwapTwo
<1>7. MiningInv'
    BY <1>3, <1>4, <1>5, <1>6 DEF MiningInv, MiningTypeOK
<1>8. left' - left = Change(Two)
    BY <1>3, <1>5
<1> HIDE DEF Change
<1>9. ~(Change(One) < 0)
    BY <1>3
<1>10. Booked
    BY <1>6, <1>8, <1>9 DEF Booked
<1> QED  BY <1>7, <1>10

LEMMA BoughtIsNat ==
    ASSUME MiningInv, NEW usdt \in SwapAmounts
    PROVE  Bought(usdt) \in Nat
<1>1. /\ SwapAmounts \subseteq Nat /\ price \in Nat \ {0} /\ PriceUnit \in Nat
    BY MiningAssumption DEF MiningAssumption, MiningInv, MiningTypeOK
<1>2. 10 * usdt * PriceUnit \in Nat
    BY <1>1
<1>3. (10 * usdt * PriceUnit) \div price \in Nat
    <2> DEFINE product == 10 * usdt * PriceUnit
    <2> HIDE DEF product
    <2>1. product \in Nat => product \div price \in Nat
        BY <1>1
    <2> QED  BY <1>2, <2>1 DEF product
<1> QED  BY <1>3 DEF Bought

LEMMA BuyBooked ==
    ASSUME MiningInv, NEW miner \in Miners, NEW usdt \in SwapAmounts, Buy(miner, usdt)
    PROVE  MiningInv' /\ Booked
<1>1. Transfer(Ido, miner, Bought(usdt)) /\ rows[Ido] # NoRow
      /\ Bought(usdt) < rows[Ido] /\ Bought(usdt) >= MinBuy /\ UNCHANGED miningVars
    BY DEF Buy, Pay
<1>2. PICK q \in Nat : q = Bought(usdt)
    BY BoughtIsNat
<1>3. /\ Ido \in Accounts /\ miner \in Accounts
      /\ One \in Accounts \ {Ido, miner} /\ Two \in Accounts \ {Ido, miner}
    BY ContractsDiffer DEF Contracts
<1>4. TokenTypeOK' /\ Change(One) = 0 /\ Change(Two) = 0
    BY <1>1, <1>2, <1>3, TransferMoves DEF MiningInv
<1>5. Apartness'
    BY <1>1, TransferKeepsApart DEF MiningInv
<1>6. MiningInv'
    BY <1>1, <1>4, <1>5 DEF MiningInv, MiningTypeOK, miningVars
<1> HIDE DEF Change
<1>7. Booked
    BY <1>1, <1>4 DEF Booked, miningVars
<1> QED  BY <1>6, <1>7

LEMMA SendAmaxBooked ==
    ASSUME MiningInv, NEW from \in Accounts, NEW to \in Accounts, NEW q \in Amounts,
           SendAmax(from, to, q)
    PROVE  MiningInv' /\ Booked
<1>1. /\ from \notin Contracts /\ Transfer(from, to, q) /\ left' = AddedTo(to, q) /\ q \in Nat
      /\ UNCHANGED <<phase, remained, orders, lastOrder, price>>
    BY TokenAssumption DEF TokenAssumption, SendAmax, Contracts
<1>2. /\ TokenTypeOK' /\ Change(to) = q /\ q > 0
      /\ \A a \in Accounts \ {from, to} : Change(a) = 0
    BY <1>1, TransferMoves DEF MiningInv
<1>3. Apartness'
    BY <1>1, TransferKeepsApart DEF MiningInv
<1>4. left \in Nat
    BY DEF MiningInv, MiningTypeOK
<1> HIDE DEF Change
<1>5. left' \in Nat
    BY <1>1, <1>4 DEF AddedTo
<1>6. MiningInv'
    BY <1>1, <1>2, <1>3, <1>5 DEF MiningInv, MiningTypeOK
<1>7. Change(One) \in {0, q} /\ (Change(Two) # 0 => left' - left = Change(Two))
    <2>1. One \in Accounts \ {from} /\ Two \in Accounts \ {from}
        BY <1>1, ContractsDiffer DEF Contracts
    <2>2. Change(One) \in {0, q}
        BY <1>2, <2>1
    <2>3. CASE to = Two
        BY <1>1, <1>2, <1>4, <2>2, <2>3 DEF AddedTo
    <2>4. CASE to # Two
        BY <1>2, <2>1, <2>2, <2>4
    <2> QED  BY <2>3, <2>4
<1>8. Booked
    BY <1>1, <1>7 DEF Booked
<1> QED  BY <1>6, <1>8

\* What neither pays nor touches the orders.
LEMMA QuietBooked ==
    ASSUME MiningInv, UNCHANGED <<tokenVars, orders, lastOrder>>,
           phase' \in [{One, Two} -> Phases],
           remained' \in [SwapAmounts -> Nat \cup {NoConf}],
           left' \in Nat, price' \in Prices
    PROVE  MiningInv' /\ Booked
<1>1. MiningInv'
    BY DEF MiningInv, MiningTypeOK, TokenTypeOK, Apartness, tokenVars
<1>2. Booked
    <2>1. rows' = rows /\ orders' = orders
        BY DEF tokenVars
    <2> QED  BY <2>1, StillBooked
<1> QED  BY <1>1, <1>2

LEMMA AdministeringBooked ==
    ASSUME MiningInv, Administering
    PROVE  MiningInv' /\ Booked
<1>1. /\ phase \in [{One, Two} -> Phases] /\ remained \in [SwapAmounts -> Nat \cup {NoConf}]
      /\ left \in Nat /\ price \in Prices
    BY DEF MiningInv, MiningTypeOK
<1>2. ASSUME NEW o \in orders, NEW adsChecked \in BOOLEAN, SettleOrder(o, adsChecked)
      PROVE  MiningInv' /\ Booked
    BY <1>2, SettleBooked
<1>3. ASSUME NEW n \in SwapAmounts, NEW r \in Remains, AddSwapConf(n, r) \/ SetRemained(n, r)
      PROVE  MiningInv' /\ Booked
    <2>1. remained' = [remained EXCEPT ![n] = r] /\ r \in Nat
        BY <1>3, MiningAssumption DEF AddSwapConf, SetRemained, MiningAssumption
    <2>2. remained' \in [SwapAmounts -> Nat \cup {NoConf}]
        BY <1>1, <2>1
    <2> QED  BY <1>1, <1>3, <2>2, QuietBooked DEF AddSwapConf, SetRemained
<1>4. ASSUME NEW n \in SwapAmounts, DelSwapConf(n) PROVE MiningInv' /\ Booked
    <2>1. remained' \in [SwapAmounts -> Nat \cup {NoConf}]
        BY <1>1, <1>4 DEF DelSwapConf
    <2> QED  BY <1>1, <1>4, <2>1, QuietBooked DEF DelSwapConf
<1>5. ASSUME NEW r \in Remains, SetMineToken(r) PROVE MiningInv' /\ Booked
    <2>1. left' \in Nat
        BY <1>5, MiningAssumption DEF SetMineToken, MiningAssumption
    <2> QED  BY <1>1, <1>5, <2>1, QuietBooked DEF SetMineToken
<1>6. ASSUME NEW p \in Prices, SetPrice(p) PROVE MiningInv' /\ Booked
    BY <1>1, <1>6, QuietBooked DEF SetPrice
<1>7. ASSUME NEW c \in {One, Two}, NEW p \in Phases, Pass(c, p) PROVE MiningInv' /\ Booked
    <2>1. phase' \in [{One, Two} -> Phases]
        BY <1>1, <1>7 DEF Pass
    <2> QED  BY <1>1, <1>7, <2>1, QuietBooked DEF Pass
<1> QED  BY <1>2, <1>3, <1>4, <1>5, <1>6, <1>7 DEF Administering

-----------------------------------------------------------------------------
(* The specification.                                                      *)

LEMMA InitEstablishesMining == Init => MiningInv
<1> SUFFICES ASSUME Init PROVE MiningInv
    OBVIOUS
<1>1. TokenTypeOK /\ Apartness
    BY TokenAssumption, MiningAssumption
    DEF TokenAssumption, MiningAssumption, Init, TokenInit, TokenTypeOK, Apartness, Contracts
<1>2. MiningTypeOK
    BY DEF Init, MiningTypeOK, Phases
<1>3. IsFiniteSet(orders)
    BY FS_EmptySet DEF Init
<1> QED  BY <1>1, <1>2, <1>3 DEF MiningInv

LEMMA StepBooked == MiningInv /\ [Next]_vars => MiningInv' /\ (Booked \/ UNCHANGED vars)
<1> SUFFICES ASSUME MiningInv, [Next]_vars PROVE MiningInv' /\ (Booked \/ UNCHANGED vars)
    OBVIOUS
<1>1. CASE UNCHANGED vars
    BY <1>1 DEF vars, tokenVars, miningVars, MiningInv, TokenTypeOK, MiningTypeOK, Apartness
<1>2. CASE Swapping
    BY <1>2, SwapOneBooked, AddOrderBooked, SwapTwoBooked DEF Swapping
<1>3. CASE Administering
    BY <1>3, AdministeringBooked
<1>4. ASSUME NEW miner \in Miners, NEW usdt \in SwapAmounts, Buy(miner, usdt)
      PROVE  MiningInv' /\ Booked
    BY <1>4, BuyBooked
<1>5. ASSUME NEW miner \in Miners, SwallowApl(miner) PROVE UNCHANGED vars
    BY <1>5 DEF SwallowApl
<1>6. ASSUME NEW from \in Accounts, NEW to \in Accounts, NEW q \in Amounts, SendAmax(from, to, q)
      PROVE  MiningInv' /\ Booked
    BY <1>6, SendAmaxBooked
<1>7. CASE LedgerAction /\ UNCHANGED miningVars
    <2>1. TokenTypeOK' /\ Apartness' /\ Change(One) = 0 /\ Change(Two) = 0
        BY <1>7, LedgerSparesContracts DEF Contracts
    <2>2. MiningInv'
        BY <1>7, <2>1 DEF MiningInv, MiningTypeOK, miningVars
    <2> HIDE DEF Change
    <2>3. Booked
        BY <1>7, <2>1 DEF Booked, miningVars
    <2> QED  BY <2>2, <2>3
<1> QED  BY <1>1, <1>2, <1>3, <1>4, <1>5, <1>6, <1>7 DEF Next

\* The tables of the mining contracts and of the ledger are of their types:
\* no swap and no transfer takes more than there is.
THEOREM MiningTyped == Spec => [](TokenTypeOK /\ MiningTypeOK)
<1>1. MiningInv => TokenTypeOK /\ MiningTypeOK
    BY DEF MiningInv
<1>2. MiningInv /\ [Next]_vars => MiningInv'
    BY StepBooked
<1> QED  BY <1>1, <1>2, InitEstablishesMining, PTL DEF Spec

\* amax.one and amax.two pay by as much as what remains falls, amax.one for
\* at most one order, to its miner, whatever the administrator, the miners
\* and the issuer of the tokens do.
THEOREM PaymentsBooked == Spec => PaidAgainstRemained
<1>1. MiningInv /\ [Next]_vars => MiningInv'
    BY StepBooked
<1>2. MiningInv /\ [Next]_vars => [Booked]_vars
    BY StepBooked
<1> QED  BY <1>1, <1>2, InitEstablishesMining, PTL DEF Spec, PaidAgainstRemained, Booked

-----------------------------------------------------------------------------
(* The balances add up to the supply.                                      *)

Holdings(r) == [a \in Accounts |-> Held(r, a)]
RowsType == [Accounts -> Nat \cup {NoRow}]

LEMMA HoldingsTyped ==
    ASSUME NEW r \in RowsType
    PROVE  /\ Holdings(r) \in [Accounts -> Int] /\ SumFunction(Holdings(r)) \in Int
           /\ IsFiniteSet(Accounts) /\ NoRow \notin Int
           /\ \A a \in Accounts : Held(r, a) \in Nat
<1>1. Holdings(r) \in [Accounts -> Int] /\ \A a \in Accounts : Held(r, a) \in Nat
    BY DEF Holdings, Held, RowsType
<1>2. IsFiniteSet(Accounts) /\ NoRow \notin Int
    BY TokenAssumption DEF TokenAssumption
<1> QED  BY <1>1, <1>2, SumInt

\* One row is written.
LEMMA RowWritten ==
    ASSUME NEW r \in RowsType, NEW a \in Accounts, NEW row \in Nat \cup {NoRow}
    PROVE  /\ [r EXCEPT ![a] = row] \in RowsType
           /\ SumFunction(Holdings([r EXCEPT ![a] = row]))
                = SumFunction(Holdings(r)) - Held(r, a) + (IF row = NoRow THEN 0 ELSE row)
<1> DEFINE s == [r EXCEPT ![a] = row]
<1>1. s \in RowsType /\ s[a] = row /\ \A c \in Accounts \ {a} : s[c] = r[c]
    BY DEF RowsType
<1>2. /\ \A c \in Accounts \ {a} : Holdings(s)[c] = Holdings(r)[c]
      /\ Holdings(r)[a] = Held(r, a) /\ Holdings(s)[a] = IF row = NoRow THEN 0 ELSE row
    BY <1>1 DEF Holdings, Held
<1> HIDE DEF s
<1>3. SumFunction(Holdings(s)) = SumFunction(Holdings(r)) - Holdings(r)[a] + Holdings(s)[a]
    BY <1>1, <1>2, HoldingsTyped, SumChange
<1> QED  BY <1>1, <1>2, <1>3 DEF s

LEMMA TransferConserves ==
    ASSUME TokenTypeOK, NEW from \in Accounts, NEW to \in Accounts, NEW q \in Nat,
           Transfer(from, to, q)
    PROVE  SumFunction(Holdings(rows')) = SumFunction(Holdings(rows))
<1> DEFINE sum(r) == SumFunction(Holdings(r))
<1>1. rows \in RowsType /\ rows' \in RowsType /\ sum(rows) \in Int
    BY TransferMoves, HoldingsTyped DEF TokenTypeOK, RowsType
<1>2. /\ Holdings(rows) \in [Accounts -> Int] /\ Holdings(rows') \in [Accounts -> Int]
      /\ IsFiniteSet(Accounts)
      /\ \A a \in Accounts : Held(rows, a) \in Nat /\ Held(rows', a) \in Nat
    BY <1>1, HoldingsTyped
<1>3. /\ from # to
      /\ Held(rows', from) - Held(rows, from) = -q /\ Held(rows', to) - Held(rows, to) = q
      /\ \A a \in Accounts \ {from, to} : Held(rows', a) - Held(rows, a) = 0
    BY TransferMoves DEF Change
<1>4. \A a \in Accounts : Holdings(rows)[a] = Held(rows, a) /\ Holdings(rows')[a] = Held(rows', a)
    BY DEF Holdings
<1>5. \A a \in Accounts \ {from, to} : Holdings(rows')[a] = Holdings(rows)[a]
    BY <1>2, <1>3, <1>4
<1>6. sum(rows') = sum(rows) - Holdings(rows)[from] + Holdings(rows')[from]
                     - Holdings(rows)[to] + Holdings(rows')[to]
    BY <1>2, <1>3, <1>5, SumChangeTwo
<1> QED  BY <1>1, <1>2, <1>3, <1>4, <1>6

\* Every other action of the ledger changes the supply with the balances.
LEMMA LedgerConserves ==
    ASSUME TokenTypeOK, SupplyHeld, LedgerAction
    PROVE  SupplyHeld'
<1> DEFINE sum(r) == SumFunction(Holdings(r))
<1>1. /\ rows \in RowsType /\ supply \in Int /\ sum(rows) = supply /\ supply <= MaxSupply
      /\ issuer \in Accounts
    BY DEF TokenTypeOK, RowsType, SupplyHeld, Holdings
<1>2. /\ \A a \in Accounts : Held(rows, a) \in Nat
      /\ Amounts \subseteq Nat \ {0} /\ MaxSupply \in Nat /\ NoRow \notin Int
      /\ Openers \subseteq Accounts
    BY <1>1, HoldingsTyped, TokenAssumption DEF TokenAssumption
<1> SUFFICES sum(rows') = supply' /\ supply' <= MaxSupply
    BY DEF SupplyHeld, Holdings
<1>3. ASSUME NEW q \in Amounts, Issue(q) PROVE sum(rows') = supply' /\ supply' <= MaxSupply
    <2>1. PICK row \in Nat : row = Held(rows, issuer) + q /\ row # NoRow
        BY <1>1, <1>2
    <2>2. rows' = [rows EXCEPT ![issuer] = row]
        BY <1>3, <2>1 DEF Issue, Add
    <2>3. sum(rows') = sum(rows) - Held(rows, issuer) + row
        BY <1>1, <2>1, <2>2, RowWritten
    <2> QED  BY <1>1, <1>2, <1>3, <2>1, <2>3 DEF Issue
<1>4. ASSUME NEW a \in Accounts, NEW q \in Amounts, CanSub(rows, a, q), rows' = Sub(rows, a, q),
             supply' = supply - q
      PROVE  sum(rows') = supply' /\ supply' <= MaxSupply
    <2>1. rows[a] \in Nat /\ rows[a] >= q /\ Held(rows, a) = rows[a]
        BY <1>1, <1>4 DEF CanSub, RowsType, Held
    <2>2. PICK row \in Nat : row = rows[a] - q /\ row # NoRow
        BY <1>2, <2>1
    <2>3. rows' = [rows EXCEPT ![a] = row]
        BY <1>1, <1>4, <2>2 DEF Sub, RowsType
    <2>4. sum(rows') = sum(rows) - Held(rows, a) + row
        BY <1>1, <2>2, <2>3, RowWritten
    <2> QED  BY <1>1, <1>2, <1>4, <2>1, <2>2, <2>4
<1>5. ASSUME NEW q \in Amounts, Retire(q) PROVE sum(rows') = supply' /\ supply' <= MaxSupply
    BY <1>1, <1>4, <1>5 DEF Retire
<1>6. ASSUME NEW a \in Accounts, NEW q \in Amounts, SlashBlack(a, q)
      PROVE  sum(rows') = supply' /\ supply' <= MaxSupply
    BY <1>4, <1>6 DEF SlashBlack, SlashedSupply
<1>7. ASSUME UNCHANGED <<supply, rows>> PROVE sum(rows') = supply' /\ supply' <= MaxSupply
    BY <1>1, <1>7
<1>8. ASSUME NEW a \in Openers, Open(a) \/ Close(a)
      PROVE  sum(rows') = supply' /\ supply' <= MaxSupply
    <2>1. CASE Open(a)
        <3>1. PICK row \in Nat : row = Held(rows, a) /\ row # NoRow
            BY <1>2
        <3>2. sum(rows') = sum(rows) - Held(rows, a) + row
            BY <1>1, <1>2, <2>1, <3>1, RowWritten DEF Open
        <3> QED  BY <1>1, <1>2, <2>1, <3>1, <3>2 DEF Open
    <2>2. CASE Close(a)
        <3>1. Held(rows, a) = 0 /\ rows' = [rows EXCEPT ![a] = NoRow]
            BY <1>2, <2>2 DEF Close, Held
        <3>2. sum(rows') = sum(rows) - Held(rows, a) + 0
            BY <1>1, <1>2, <3>1, RowWritten
        <3> QED  BY <1>1, <2>2, <3>1, <3>2 DEF Close
    <2> QED  BY <1>8, <2>1, <2>2
<1> QED  BY <1>3, <1>5, <1>6, <1>7, <1>8 DEF LedgerAction, SetIssue, Blacklist

\* What a step of the mining contracts does to the ledger.
LEMMA StepIsTransfer ==
    ASSUME MiningInv, [Next]_vars
    PROVE  \/ \E from, to \in Accounts, q \in Nat : Transfer(from, to, q)
           \/ LedgerAction
           \/ UNCHANGED <<supply, rows>>
<1>1. Miners \subseteq Accounts /\ One \in Accounts /\ Two \in Accounts /\ Ido \in Accounts
    BY ContractsDiffer
<1>2. ASSUME NEW m \in Miners, NEW n \in SwapAmounts, NEW adsChecked \in BOOLEAN,
             ClaimOne(m, n, adsChecked)
      PROVE  \E from, to \in Accounts, q \in Nat : Transfer(from, to, q)
    <2>1. Swap[n] \in Nat /\ SwapAds[n] \in Nat
        BY MiningAssumption DEF MiningAssumption
    <2> QED  BY <1>1, <1>2, <2>1 DEF ClaimOne, Pay
<1>3. CASE Swapping
    <2> PICK m \in Miners, n \in SwapAmounts, small \in BOOLEAN :
               SwapOne(m, n, small) \/ AddOrder(m, n, small) \/ SwapTwo(m, n, small)
        BY <1>3 DEF Swapping
    <2>1. CASE SwapOne(m, n, small)
        BY <1>2, <2>1 DEF SwapOne
    <2>2. CASE AddOrder(m, n, small)
        BY <2>2 DEF AddOrder, tokenVars
    <2>3. CASE SwapTwo(m, n, small)
        <3>1. PICK q \in Rewards[n] : Transfer(Two, m, q)
            BY <2>3 DEF SwapTwo, Pay
        <3>2. q \in Nat
            BY MiningAssumption DEF MiningAssumption
        <3> QED  BY <1>1, <3>1, <3>2
    <2> QED  BY <2>1, <2>2, <2>3
<1>4. CASE Administering
    <2>1. ASSUME NEW o \in orders, NEW adsChecked \in BOOLEAN, SettleOrder(o, adsChecked)
          PROVE  \E from, to \in Accounts, q \in Nat : Transfer(from, to, q)
        <3>1. o.miner \in Miners /\ o.amount \in SwapAmounts /\ ClaimOne(o.miner, o.amount, adsChecked)
            BY <2>1 DEF MiningInv, MiningTypeOK, SettleOrder
        <3> QED  BY <1>2, <3>1
    <2> QED  BY <1>4, <2>1
             DEF Administering, AddSwapConf, SetRemained, DelSwapConf, SetMineToken, SetPrice, Pass, tokenVars
<1>5. ASSUME NEW m \in Miners, NEW usdt \in SwapAmounts, Buy(m, usdt)
      PROVE  \E from, to \in Accounts, q \in Nat : Transfer(from, to, q)
    <2>1. Transfer(Ido, m, Bought(usdt)) /\ Bought(usdt) \in Nat
        BY <1>5, BoughtIsNat DEF Buy, Pay
    <2> QED  BY <1>1, <2>1
<1>6. ASSUME NEW from \in Accounts, NEW to \in Accounts, NEW q \in Amounts, SendAmax(from, to, q)
      PROVE  \E f, t \in Accounts, n \in Nat : Transfer(f, t, n)
    BY <1>6, TokenAssumption DEF TokenAssumption, SendAmax
<1> QED  BY <1>3, <1>4, <1>5, <1>6 DEF Next, SwallowApl, vars, tokenVars

\* The balances of amax.token always add up to the supply, which never
\* exceeds its maximum, whatever the contracts pay, for any accounts.
THEOREM TokenSupplyHeld == Spec => []SupplyHeld
<1>1. Init => MiningInv /\ SupplyHeld
    <2> SUFFICES ASSUME Init PROVE SupplyHeld
        BY InitEstablishesMining
    <2>1. rows \in RowsType
        BY DEF Init, TokenInit, RowsType
    <2>2. \A a \in Accounts : Holdings(rows)[a] = 0
        BY DEF Init, TokenInit, Holdings, Held
    <2>3. SumFunction(Holdings(rows)) = 0
        BY <2>1, <2>2, HoldingsTyped, SumZero
    <2>4. supply = 0 /\ 0 <= MaxSupply
        BY TokenAssumption DEF TokenAssumption, Init, TokenInit
    <2> QED  BY <2>3, <2>4 DEF SupplyHeld, Holdings
<1>2. (MiningInv /\ SupplyHeld) /\ [Next]_vars => (MiningInv /\ SupplyHeld)'
    <2> SUFFICES ASSUME MiningInv, SupplyHeld, [Next]_vars PROVE MiningInv' /\ SupplyHeld'
        OBVIOUS
    <2>1. MiningInv' /\ TokenTypeOK
        BY StepBooked DEF MiningInv
    <2>2. ASSUME NEW from \in Accounts, NEW to \in Accounts, NEW q \in Nat, Transfer(from, to, q)
          PROVE  SupplyHeld'
        BY <2>1, <2>2, TransferConserves DEF SupplyHeld, Holdings, Transfer
    <2>3. CASE LedgerAction
        BY <2>1, <2>3, LedgerConserves
    <2>4. CASE UNCHANGED <<supply, rows>>
        BY <2>1, <2>4 DEF SupplyHeld, Held
    <2>5. \/ \E from, to \in Accounts, q \in Nat : Transfer(from, to, q)
          \/ LedgerAction
          \/ UNCHANGED <<supply, rows>>
        BY StepIsTransfer
    <2> QED  BY <2>1, <2>2, <2>3, <2>4, <2>5
<1> QED  BY <1>1, <1>2, PTL DEF Spec
=============================================================================
