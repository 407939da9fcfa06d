---------------------------- MODULE TokenLedger ----------------------------
(***************************************************************************)
(* amax.token for one symbol: supply, issuer, balance rows and the list of *)
(* blacklisted accounts.  An account is blacklisted by this contract or by *)
(* the degov contract, whose list is external and fixed here.              *)
(***************************************************************************)
EXTENDS Integers, FiniteSets, Functions

CONSTANTS
    Accounts,
    FirstIssuer,
    MaxSupply,
    Hole,           \* "oooo": where blacklisted accounts may send to
    Reserved,       \* "aaaaaaaaaaaa"
    System,         \* "amax": where the reserved account may send to
    Degov,          \* accounts blacklisted by degov
    Listable,       \* bound: accounts the administrator lists
    Openers,        \* bound: accounts that open and close their row
    Amounts,        \* bound: quantities of an action
    NoRow

ASSUME TokenAssumption ==
    /\ IsFiniteSet(Accounts) /\ FirstIssuer \in Accounts
    /\ Degov \cup Listable \cup Openers \subseteq Accounts
    /\ MaxSupply \in Nat \ {0} /\ Amounts \subseteq Nat \ {0}
    /\ NoRow \notin Int

VARIABLES
    supply, issuer,
    rows,           \* rows[a]: balance, or NoRow
    black           \* blacklist of this contract

tokenVars == <<supply, issuer, rows, black>>

TokenInit == /\ supply = 0
             /\ issuer = FirstIssuer
             /\ rows = [a \in Accounts |-> NoRow]
             /\ black = {}

IsBlacklisted(a) == a \in black \cup Degov

Held(r, a) == IF r[a] = NoRow THEN 0 ELSE r[a]

\* sub_balance and add_balance
CanSub(r, owner, q) == r[owner] # NoRow /\ r[owner] >= q
Sub(r, owner, q) == [r EXCEPT ![owner] = @ - q]
Add(r, owner, q) == [r EXCEPT ![owner] = Held(r, owner) + q]

CanTransfer(r, from, to, q) ==
    /\ from # to
    /\ from = Reserved => to = System
    /\ IsBlacklisted(from) => to = Hole
    /\ q > 0
    /\ CanSub(r, from, q)
Transferred(r, from, to, q) == Add(Sub(r, from, q), to, q)

Transfer(from, to, q) ==
    /\ CanTransfer(rows, from, to, q)
    /\ rows' = Transferred(rows, from, to, q)
    /\ UNCHANGED <<supply, issuer, black>>

Issue(q) ==
    /\ q <= MaxSupply - supply
    /\ supply' = supply + q
    /\ rows' = Add(rows, issuer, q)
    /\ UNCHANGED <<issuer, black>>

SetIssue(newissuer) ==
    /\ issuer # newissuer
    /\ issuer' = newissuer
    /\ UNCHANGED <<supply, rows, black>>

Retire(q) ==
    /\ CanSub(rows, issuer, q)
    /\ supply' = supply - q
    /\ rows' = Sub(rows, issuer, q)
    /\ UNCHANGED <<issuer, black>>

KeptInSupply(q) == supply
SlashedSupply(q) == supply - q

(* Tokens of a blacklisted account are taken and leave the supply.         *)
SlashBlack(target, q) ==
    /\ IsBlacklisted(target)
    /\ CanSub(rows, target, q)
    /\ rows' = Sub(rows, target, q)
    /\ supply' = SlashedSupply(q)
    /\ UNCHANGED <<issuer, black>>

Blacklist(targets, toAdd) ==
    /\ black' = IF toAdd THEN black \cup targets ELSE black \ targets
    /\ UNCHANGED <<supply, issuer, rows>>

Open(owner) ==
    /\ rows' = [rows EXCEPT ![owner] = Held(rows, owner)]
    /\ UNCHANGED <<supply, issuer, black>>

Close(owner) ==
    /\ rows[owner] = 0
    /\ rows' = [rows EXCEPT ![owner] = NoRow]
    /\ UNCHANGED <<supply, issuer, black>>

(* Every action but transfer, which other contracts are told of.           *)
LedgerAction ==
    \/ \E q \in Amounts : Issue(q) \/ Retire(q)
    \/ \E a \in Listable : SetIssue(a)
    \/ \E a \in Accounts, q \in Amounts : SlashBlack(a, q)
    \/ \E targets \in SUBSET Listable \ {{}}, toAdd \in BOOLEAN : Blacklist(targets, toAdd)
    \/ \E a \in Openers : Open(a) \/ Close(a)

TokenNext == LedgerAction \/ \E from, to \in Accounts, q \in Amounts : Transfer(from, to, q)

(***************************************************************************)
(* Properties.                                                             *)
(***************************************************************************)
TokenTypeOK == /\ supply \in Int
               /\ issuer \in Accounts
               /\ rows \in [Accounts -> Nat \cup {NoRow}]
               /\ black \subseteq Accounts

(* The balances add up to the supply, which never exceeds the maximum: an  *)
(* issue or a slash that reaches one table and not the other, in any order *)
(* with transfers, payments by contracts and closed rows, would show here. *)
SupplyHeld == /\ SumFunction([a \in Accounts |-> Held(rows, a)]) = supply
              /\ supply <= MaxSupply
=============================================================================
