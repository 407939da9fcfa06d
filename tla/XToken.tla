------------------------------- MODULE XToken -------------------------------
(***************************************************************************)
(* amax.xtoken for one symbol: a token whose transfers may pay a fee, and  *)
(* whose issuer may freeze accounts, exempt them from the fee and pause    *)
(* the token.  The flags of an account are kept in its balance row.        *)
(***************************************************************************)
EXTENDS Integers, FiniteSets, Functions

CONSTANTS
    Accounts, Issuer,
    MaxSupply,
    RatioBoost,
    Ratios,         \* bound: fee ratios the issuer sets
    MinFees,        \* bound: smallest fees the issuer sets
    Amounts,        \* bound: quantities of an action
    NoAccount, NoRow

ASSUME XTokenAssumption ==
    /\ IsFiniteSet(Accounts) /\ Issuer \in Accounts
    /\ MaxSupply \in Nat \ {0} /\ RatioBoost \in Nat \ {0}
    /\ Ratios \subseteq 0 .. RatioBoost - 1
    /\ MinFees \subseteq Nat \ {0} /\ Amounts \subseteq Nat \ {0}
    /\ NoAccount \notin Accounts
    /\ NoRow \notin [balance: Int, frozen: BOOLEAN, exempt: BOOLEAN]

VARIABLES
    supply, paused, feeReceiver, feeRatio, minFee,  \* currency_stats
    rows                                            \* rows[a], or NoRow

statVars == <<supply, paused, feeReceiver, feeRatio, minFee>>
tokenVars == <<statVars, rows>>

(* After create.                                                           *)
XTokenInit == /\ supply = 0
        /\ paused = FALSE
        /\ feeReceiver = NoAccount
        /\ feeRatio = 0
        /\ minFee = 0
        /\ rows = [a \in Accounts |-> NoRow]

NewRow(q) == [balance |-> q, frozen |-> FALSE, exempt |-> FALSE]
IsFrozen(r, a) == r[a].frozen /\ a # Issuer

CanSub(r, a, q) == r[a] # NoRow /\ r[a].balance >= q
Sub(r, a, q) == [r EXCEPT ![a].balance = @ - q]
Add(r, a, q) == IF r[a] = NoRow THEN [r EXCEPT ![a] = NewRow(q)]
                                ELSE [r EXCEPT ![a].balance = @ + q]

PaysFee(to) == /\ feeReceiver # NoAccount
               /\ feeRatio > 0
               /\ to \notin {Issuer, feeReceiver}
               /\ rows[to] # NoRow => ~rows[to].exempt
Larger(x, y) == IF x >= y THEN x ELSE y
Fee(to, q) == IF PaysFee(to) THEN Larger(minFee, (q * feeRatio) \div RatioBoost) ELSE 0

ReceiverUnchecked(to) == TRUE
MayReceive(to) == rows[to] # NoRow => ~IsFrozen(rows, to)

(* The payment of a transfer: the quantity leaves one account, the rest    *)
(* after the fee reaches the other, and the fee its receiver, which may be *)
(* the sender.                                                             *)
FeeOnOldRow(from, to, q, fee) ==
    LET paid == Add(Sub(rows, from, q), to, q - fee)
    IN  IF fee = 0 THEN paid ELSE [paid EXCEPT ![feeReceiver] = Add(rows, feeReceiver, fee)[feeReceiver]]
Paid(from, to, q, fee) ==
    LET paid == Add(Sub(rows, from, q), to, q - fee)
    IN  IF fee = 0 THEN paid ELSE Add(paid, feeReceiver, fee)

Transfer(from, to, q) ==
    /\ from # to
    /\ ~paused
    /\ q > minFee
    /\ PaysFee(to) => Fee(to, q) < q
    /\ CanSub(rows, from, q) /\ ~IsFrozen(rows, from)
    /\ MayReceive(to)
    /\ rows' = Paid(from, to, q, Fee(to, q))
    /\ UNCHANGED statVars

Issue(q) ==
    /\ q <= MaxSupply - supply
    /\ supply' = supply + q
    /\ rows' = Add(rows, Issuer, q)
    /\ UNCHANGED <<paused, feeReceiver, feeRatio, minFee>>

Retire(q) ==
    /\ CanSub(rows, Issuer, q)
    /\ supply' = supply - q
    /\ rows' = Sub(rows, Issuer, q)
    /\ UNCHANGED <<paused, feeReceiver, feeRatio, minFee>>

OpenAccount(a) == IF rows[a] = NoRow THEN [rows EXCEPT ![a] = NewRow(0)] ELSE rows

Open(a) ==
    /\ ~paused
    /\ rows' = OpenAccount(a)
    /\ UNCHANGED statVars

Close(a) ==
    /\ ~paused
    /\ rows[a] # NoRow
    /\ ~IsFrozen(rows, a)
    /\ rows[a].balance = 0
    /\ rows' = [rows EXCEPT ![a] = NoRow]
    /\ UNCHANGED statVars

(* Settings of the issuer, through update_currency_field, and the flags of *)
(* the row of an account.                                                  *)
FeeRatio(ratio) ==
    feeRatio' = ratio /\ UNCHANGED <<supply, paused, feeReceiver, minFee, rows>>
FeeReceiver(a) ==
    /\ feeReceiver' = a
    /\ rows' = OpenAccount(a)
    /\ UNCHANGED <<supply, paused, feeRatio, minFee>>
MinFee(q) ==
    minFee' = q /\ UNCHANGED <<supply, paused, feeReceiver, feeRatio, rows>>
Pause(isPaused) ==
    paused' = isPaused /\ UNCHANGED <<supply, feeReceiver, feeRatio, minFee, rows>>
FeeExempt(a, exempt) ==
    /\ rows[a] # NoRow
    /\ rows' = [rows EXCEPT ![a].exempt = exempt]
    /\ UNCHANGED statVars
FreezeAcct(a, frozen) ==
    /\ rows[a] # NoRow
    /\ rows' = [rows EXCEPT ![a].frozen = frozen]
    /\ UNCHANGED statVars

Setting ==
    \/ \E ratio \in Ratios : FeeRatio(ratio)
    \/ \E q \in MinFees : MinFee(q)
    \/ \E isPaused \in BOOLEAN : Pause(isPaused)
    \/ \E a \in Accounts : FeeReceiver(a)
    \/ \E a \in Accounts, flag \in BOOLEAN : FeeExempt(a, flag) \/ FreezeAcct(a, flag)

XTokenNext ==
    \/ \E from, to \in Accounts, q \in Amounts : Transfer(from, to, q)
    \/ \E q \in Amounts : Issue(q) \/ Retire(q)
    \/ \E a \in Accounts : Open(a) \/ Close(a)
    \/ Setting

XTokenSpec == XTokenInit /\ [][XTokenNext]_tokenVars

(***************************************************************************)
(* Properties.                                                             *)
(***************************************************************************)
RowType == [balance: Nat, frozen: BOOLEAN, exempt: BOOLEAN]
(* No balance is ever negative; that the supply is not, is FeesConserve.   *)
XTokenTypeOK == /\ supply \in Int /\ supply <= MaxSupply
                /\ minFee \in Nat
                /\ paused \in BOOLEAN
                /\ feeReceiver \in Accounts \cup {NoAccount}
                /\ feeRatio \in 0 .. RatioBoost - 1
                /\ rows \in [Accounts -> RowType \cup {NoRow}]

Held(r, a) == IF r[a] = NoRow THEN 0 ELSE r[a].balance

(* The balances add up to the supply, fees included, whoever receives the  *)
(* fee: the sender, an account without a row, or one that is frozen.       *)
FeesConserve == /\ SumFunction([a \in Accounts |-> Held(rows, a)]) = supply
                /\ supply <= MaxSupply

(* What freezing and pausing promise, whatever is opened, closed or set    *)
(* meanwhile: a frozen account that is not the issuer keeps its row, its   *)
(* flag until the issuer takes it away and at least its balance, and only  *)
(* fees are added to it; while the token is paused only the balance of the *)
(* issuer changes.                                                         *)
StoppedAccountsKeep ==
    [][ \A a \in Accounts \ {Issuer} :
        /\ rows[a] # NoRow /\ rows[a].frozen =>
             /\ rows'[a] # NoRow
             /\ \/ rows'[a].frozen
                \/ rows' = [rows EXCEPT ![a].frozen = FALSE]
             /\ Held(rows', a) >= Held(rows, a)
             /\ Held(rows', a) # Held(rows, a) => a = feeReceiver
        /\ paused => Held(rows', a) = Held(rows, a) ]_tokenVars
=============================================================================
