-------------------------- MODULE StandaloneProofs --------------------------
(***************************************************************************)
(* Theorems about the two contracts that work without the others.          *)
(*                                                                         *)
(* XToken, for any accounts, fees, amounts and settings: no balance is     *)
(* ever negative, whatever fee a transfer pays, the balances add up to the *)
(* supply, and freezing and pausing hold.                                  *)
(*                                                                         *)
(* Msig, for every set of names, levels and transactions, every rule of    *)
(* authorization that more approvals cannot break, every delay and any     *)
(* number of approvals on their way.  The rows of one name are independent *)
(* of the others, so the inductive invariant is stated of one name,        *)
(* RowsAgree, and each lemma shows what one handler does to the rows of    *)
(* the name it handles.                                                    *)
(***************************************************************************)
EXTENDS XToken, Msig, Sums, TLAPS

(* amax.xtoken.                                                            *)

RowsType == [Accounts -> RowType \cup {NoRow}]

\* A row is none of the values that stand for no row.
LEMMA RowIsNotNoRow == NoRow \notin RowType
BY XTokenAssumption DEF XTokenAssumption, RowType

-----------------------------------------------------------------------------
(* What taking from and adding to a balance does to the rows.              *)

\* add_balance: the flags of a row stay, a new row has none.
LEMMA AddIs ==
  ASSUME NEW r \in RowsType, NEW a \in Accounts, NEW q \in Nat
  PROVE  /\ Add(r, a, q) \in RowsType
         /\ \A c \in Accounts : c # a => Add(r, a, q)[c] = r[c]
         /\ Add(r, a, q)[a] # NoRow
         /\ Held(Add(r, a, q), a) = Held(r, a) + q
         /\ r[a] # NoRow => Add(r, a, q)[a].frozen = r[a].frozen
<1>1. CASE r[a] = NoRow
  <2>1. NewRow(q) \in RowType /\ NewRow(q).balance = q
    BY DEF NewRow, RowType
  <2>2. Add(r, a, q) = [r EXCEPT ![a] = NewRow(q)]
    BY <1>1 DEF Add
  <2> QED  BY <1>1, <2>1, <2>2, RowIsNotNoRow DEF RowsType, Held
<1>2. CASE r[a] # NoRow
  <2>1. r[a] \in RowType
    BY <1>2 DEF RowsType
  <2>2. Add(r, a, q) = [r EXCEPT ![a].balance = @ + q]
    BY <1>2 DEF Add
  <2>3. /\ [r[a] EXCEPT !.balance = @ + q] \in RowType
        /\ [r[a] EXCEPT !.balance = @ + q].balance = r[a].balance + q
        /\ [r[a] EXCEPT !.balance = @ + q].frozen = r[a].frozen
    BY <2>1 DEF RowType
  <2> QED  BY <1>2, <2>2, <2>3, RowIsNotNoRow DEF RowsType, Held
<1> QED  BY <1>1, <1>2

\* sub_balance: what is left is not negative, and the flags stay.
LEMMA SubIs ==
  ASSUME NEW r \in RowsType, NEW a \in Accounts, NEW q \in Nat, CanSub(r, a, q)
  PROVE  /\ Sub(r, a, q) \in RowsType
         /\ \A c \in Accounts : c # a => Sub(r, a, q)[c] = r[c]
         /\ Sub(r, a, q)[a] # NoRow
         /\ Held(Sub(r, a, q), a) = Held(r, a) - q
<1>1. r[a] \in RowType /\ r[a].balance >= q
  BY DEF RowsType, CanSub
<1>2. Sub(r, a, q) = [r EXCEPT ![a].balance = @ - q]
  BY DEF Sub
<1>3. /\ [r[a] EXCEPT !.balance = @ - q] \in RowType
      /\ [r[a] EXCEPT !.balance = @ - q].balance = r[a].balance - q
  BY <1>1 DEF RowType
<1> QED  BY <1>1, <1>2, <1>3, RowIsNotNoRow DEF RowsType, Held

\* The fee of a transfer that passes the checks is at most the quantity.
LEMMA FeeIsPart ==
  ASSUME XTokenTypeOK, NEW to \in Accounts, NEW q \in Amounts, q > minFee,
         PaysFee(to) => Fee(to, q) < q
  PROVE  /\ q \in Nat /\ Fee(to, q) \in Nat /\ q - Fee(to, q) \in Nat
         /\ Fee(to, q) # 0 => feeReceiver \in Accounts
<1>1. q \in Nat /\ RatioBoost \in Nat \ {0}
  BY XTokenAssumption DEF XTokenAssumption
<1>2. feeRatio \in Nat /\ minFee \in Nat
  BY XTokenAssumption DEF XTokenTypeOK, XTokenAssumption
<1>3. q * feeRatio \in Nat
  BY <1>1, <1>2
<1>4. (q * feeRatio) \div RatioBoost \in Nat
  BY <1>1, <1>3
<1>5. Fee(to, q) \in Nat
  BY <1>2, <1>4 DEF Fee, Larger
<1>6. CASE PaysFee(to)
  BY <1>1, <1>5, <1>6 DEF PaysFee, XTokenTypeOK
<1>7. CASE ~PaysFee(to)
  BY <1>1, <1>7 DEF Fee
<1> QED  BY <1>1, <1>5, <1>6, <1>7

\* transfer: of a third account only a fee changes the row.
LEMMA TransferIs ==
  ASSUME XTokenTypeOK, NEW from \in Accounts, NEW to \in Accounts, NEW q \in Amounts,
         Transfer(from, to, q)
  PROVE  /\ rows' \in RowsType
         /\ \A c \in Accounts \ {from, to} :
              /\ c # feeReceiver => rows'[c] = rows[c]
              /\ rows[c] # NoRow => rows'[c] # NoRow /\ rows'[c].frozen = rows[c].frozen
              /\ Held(rows', c) >= Held(rows, c)
<1> DEFINE fee == Fee(to, q)
           taken == Sub(rows, from, q)
           paid == Add(taken, to, q - fee)
<1>1. rows \in RowsType
  BY DEF XTokenTypeOK, RowsType
<1>2. q \in Nat /\ fee \in Nat /\ q - fee \in Nat /\ (fee # 0 => feeReceiver \in Accounts)
  BY FeeIsPart DEF Transfer
<1>3. taken \in RowsType /\ \A c \in Accounts \ {from} : taken[c] = rows[c]
  BY <1>1, <1>2, SubIs DEF Transfer
<1>4. paid \in RowsType /\ \A c \in Accounts \ {from, to} : paid[c] = rows[c]
  <2>1. PICK d \in Nat : d = q - fee
    BY <1>2
  <2>2. Add(taken, to, d) \in RowsType /\ \A c \in Accounts : c # to => Add(taken, to, d)[c] = taken[c]
    BY <1>3, AddIs
  <2> QED  BY <1>3, <2>1, <2>2
<1>5. CASE fee = 0
  <2>1. rows' = paid
    BY <1>5 DEF Transfer, Paid
  <2>2. \A c \in Accounts : Held(rows, c) >= Held(rows, c)
    BY <1>1 DEF Held, RowsType, RowType
  <2> QED  BY <1>4, <2>1, <2>2 DEF Held
<1>6. CASE fee # 0
  <2>1. rows' = Add(paid, feeReceiver, fee) /\ feeReceiver \in Accounts
    BY <1>2, <1>6 DEF Transfer, Paid
  <2>2. /\ rows' \in RowsType
        /\ \A c \in Accounts : c # feeReceiver => rows'[c] = paid[c]
        /\ rows'[feeReceiver] # NoRow
        /\ Held(rows', feeReceiver) = Held(paid, feeReceiver) + fee
        /\ paid[feeReceiver] # NoRow => rows'[feeReceiver].frozen = paid[feeReceiver].frozen
    <3>1. PICK r \in RowsType, f \in Nat : r = paid /\ f = fee
      BY <1>2, <1>4
    <3>2. /\ Add(r, feeReceiver, f) \in RowsType
          /\ \A c \in Accounts : c # feeReceiver => Add(r, feeReceiver, f)[c] = r[c]
          /\ Add(r, feeReceiver, f)[feeReceiver] # NoRow
          /\ Held(Add(r, feeReceiver, f), feeReceiver) = Held(r, feeReceiver) + f
          /\ r[feeReceiver] # NoRow => Add(r, feeReceiver, f)[feeReceiver].frozen = r[feeReceiver].frozen
      BY <2>1, AddIs
    <3> QED  BY <2>1, <3>1, <3>2
  <2>3. \A c \in Accounts : Held(paid, c) \in Nat
    BY <1>4 DEF Held, RowsType, RowType
  <2>4. \A c \in Accounts \ {from, to} : Held(paid, c) = Held(rows, c)
    BY <1>4 DEF Held
  <2>5. \A c \in Accounts : c # feeReceiver => Held(rows', c) = Held(paid, c)
    BY <2>2 DEF Held
  <2> QED  BY <1>2, <1>4, <2>2, <2>3, <2>4, <2>5
<1> QED  BY <1>5, <1>6

\* open, and the settings that open an account, change no balance.
LEMMA OpenAccountIs ==
  ASSUME XTokenTypeOK, NEW a \in Accounts
  PROVE  /\ OpenAccount(a) \in RowsType
         /\ \A c \in Accounts : /\ rows[c] # NoRow => OpenAccount(a)[c] = rows[c]
                                /\ Held(OpenAccount(a), c) = Held(rows, c)
<1>1. NewRow(0) \in RowType /\ NewRow(0).balance = 0
  BY DEF NewRow, RowType
<1> QED  BY <1>1, RowIsNotNoRow DEF OpenAccount, XTokenTypeOK, RowsType, Held

\* The flags of an account that has a row are set without its balance.
LEMMA FlagIs ==
  ASSUME XTokenTypeOK, NEW a \in Accounts, NEW flag \in BOOLEAN,
         FeeExempt(a, flag) \/ FreezeAcct(a, flag)
  PROVE  /\ rows' \in RowsType
         /\ \A c \in Accounts : /\ Held(rows', c) = Held(rows, c)
                                /\ rows[c] # NoRow => rows'[c] # NoRow
                                /\ c # a => rows'[c] = rows[c]
         /\ FeeExempt(a, flag) => rows'[a].frozen = rows[a].frozen
         /\ FreezeAcct(a, flag) => rows' = [rows EXCEPT ![a].frozen = flag] /\ rows'[a].frozen = flag
<1>1. rows \in RowsType /\ rows[a] \in RowType
  BY DEF XTokenTypeOK, RowsType, FeeExempt, FreezeAcct
<1>2. /\ [rows[a] EXCEPT !.exempt = flag] \in RowType
      /\ [rows[a] EXCEPT !.exempt = flag].balance = rows[a].balance
      /\ [rows[a] EXCEPT !.exempt = flag].frozen = rows[a].frozen
      /\ [rows[a] EXCEPT !.frozen = flag] \in RowType
      /\ [rows[a] EXCEPT !.frozen = flag].balance = rows[a].balance
      /\ [rows[a] EXCEPT !.frozen = flag].frozen = flag
  BY <1>1 DEF RowType
<1>3. CASE FeeExempt(a, flag)
  BY <1>1, <1>2, <1>3, RowIsNotNoRow DEF FeeExempt, FreezeAcct, RowsType, Held
<1>4. CASE FreezeAcct(a, flag)
  BY <1>1, <1>2, <1>4, RowIsNotNoRow DEF FeeExempt, FreezeAcct, RowsType, Held
<1> QED  BY <1>3, <1>4

-----------------------------------------------------------------------------
(* The theorems.                                                           *)

LEMMA TypeInit == XTokenInit => XTokenTypeOK
<1> SUFFICES ASSUME XTokenInit PROVE XTokenTypeOK
  OBVIOUS
<1>1. feeRatio \in 0 .. RatioBoost - 1
  BY XTokenAssumption DEF XTokenAssumption, XTokenInit
<1>2. paused \in BOOLEAN
  BY DEF XTokenInit
<1>3. rows \in [Accounts -> RowType \cup {NoRow}]
  BY DEF XTokenInit
<1>4. supply \in Int /\ supply <= MaxSupply /\ minFee \in Nat
  BY XTokenAssumption DEF XTokenAssumption, XTokenInit
<1> QED  BY <1>1, <1>2, <1>3, <1>4 DEF XTokenInit, XTokenTypeOK

LEMMA TypeStep == XTokenTypeOK /\ [XTokenNext]_tokenVars => XTokenTypeOK'
<1> SUFFICES ASSUME XTokenTypeOK, [XTokenNext]_tokenVars PROVE XTokenTypeOK'
  OBVIOUS
<1>0. rows \in RowsType
  BY DEF XTokenTypeOK, RowsType
<1>1. CASE \E from, to \in Accounts, q \in Amounts : Transfer(from, to, q)
  <2> PICK from \in Accounts, to \in Accounts, q \in Amounts : Transfer(from, to, q)
    BY <1>1
  <2>1. rows' \in RowsType
    BY TransferIs
  <2> QED  BY <2>1 DEF Transfer, statVars, XTokenTypeOK, RowsType
<1>2. CASE \E q \in Amounts : Issue(q) \/ Retire(q)
  <2> PICK q \in Amounts : Issue(q) \/ Retire(q)
    BY <1>2
  <2>1. q \in Nat /\ Issuer \in Accounts /\ MaxSupply \in Nat
    BY XTokenAssumption DEF XTokenAssumption
  <2>2. CASE Issue(q)
    <3>1. rows' \in RowsType
      BY <1>0, <2>1, <2>2, AddIs DEF Issue
    <3> QED  BY <2>1, <2>2, <3>1 DEF Issue, XTokenTypeOK, RowsType
  <2>3. CASE Retire(q)
    <3>1. rows' \in RowsType
      BY <1>0, <2>1, <2>3, SubIs DEF Retire
    <3> QED  BY <2>1, <2>3, <3>1 DEF Retire, XTokenTypeOK, RowsType
  <2> QED  BY <2>2, <2>3
<1>3. CASE \E a \in Accounts : Open(a) \/ Close(a)
  <2> PICK a \in Accounts : Open(a) \/ Close(a)
    BY <1>3
  <2>1. rows' \in RowsType
    BY <1>0, OpenAccountIs DEF Open, Close, RowsType
  <2> QED  BY <2>1 DEF Open, Close, statVars, XTokenTypeOK, RowsType
<1>4. CASE Setting
  <2>1. CASE \E ratio \in Ratios : FeeRatio(ratio)
    BY <2>1, XTokenAssumption DEF FeeRatio, XTokenTypeOK, XTokenAssumption
  <2>2. CASE \E q \in MinFees : MinFee(q)
    BY <2>2, XTokenAssumption DEF MinFee, XTokenTypeOK, XTokenAssumption
  <2>3. CASE \E isPaused \in BOOLEAN : Pause(isPaused)
    BY <2>3 DEF Pause, XTokenTypeOK
  <2>4. CASE \E a \in Accounts : FeeReceiver(a)
    BY <2>4, OpenAccountIs DEF FeeReceiver, XTokenTypeOK, RowsType
  <2>5. CASE \E a \in Accounts, flag \in BOOLEAN : FeeExempt(a, flag) \/ FreezeAcct(a, flag)
    <3>1. rows' \in RowsType
      BY <2>5, FlagIs
    <3> QED  BY <2>5, <3>1 DEF FeeExempt, FreezeAcct, statVars, XTokenTypeOK, RowsType
  <2> QED  BY <1>4, <2>1, <2>2, <2>3, <2>4, <2>5 DEF Setting
<1>5. CASE UNCHANGED tokenVars
  BY <1>5 DEF tokenVars, statVars, XTokenTypeOK
<1> QED  BY <1>1, <1>2, <1>3, <1>4, <1>5 DEF XTokenNext

\* No transfer, with whatever fee, and no retirement leaves a negative
\* balance, and the supply never exceeds its maximum.
THEOREM XTokenTyped == XTokenSpec => []XTokenTypeOK
<1> QED  BY TypeInit, TypeStep, PTL DEF XTokenSpec

\* What a step does to an account that is frozen, or while paused.
LEMMA StepKeepsStopped ==
  ASSUME XTokenTypeOK, [XTokenNext]_tokenVars, NEW a \in Accounts \ {Issuer}
  PROVE  /\ rows[a] # NoRow /\ rows[a].frozen =>
              /\ rows'[a] # NoRow
              /\ \/ rows'[a].frozen
                 \/ rows' = [rows EXCEPT ![a].frozen = FALSE]
              /\ Held(rows', a) >= Held(rows, a)
              /\ Held(rows', a) # Held(rows, a) => a = feeReceiver
         /\ paused => Held(rows', a) = Held(rows, a)
<1>0. rows \in RowsType /\ Held(rows, a) \in Nat
  BY DEF XTokenTypeOK, RowsType, RowType, Held
<1>1. CASE \E from, to \in Accounts, q \in Amounts : Transfer(from, to, q)
  <2> PICK from \in Accounts, to \in Accounts, q \in Amounts : Transfer(from, to, q)
    BY <1>1
  <2>1. ~paused
    BY DEF Transfer
  <2>2. rows[a] # NoRow /\ rows[a].frozen => a \notin {from, to}
    BY DEF Transfer, MayReceive, IsFrozen
  <2>3. a \notin {from, to} => 
          /\ a # feeReceiver => rows'[a] = rows[a]
          /\ rows[a] # NoRow => rows'[a] # NoRow /\ rows'[a].frozen = rows[a].frozen
          /\ Held(rows', a) >= Held(rows, a)
    BY TransferIs
  <2> QED  BY <2>1, <2>2, <2>3 DEF Held
<1>2. CASE \E q \in Amounts : Issue(q) \/ Retire(q)
  <2> PICK q \in Amounts : Issue(q) \/ Retire(q)
    BY <1>2
  <2>1. q \in Nat /\ Issuer \in Accounts
    BY XTokenAssumption DEF XTokenAssumption
  <2>2. CASE Issue(q)
    BY <1>0, <2>1, <2>2, AddIs DEF Issue, Held
  <2>3. CASE Retire(q)
    BY <1>0, <2>1, <2>3, SubIs DEF Retire, Held
  <2> QED  BY <2>2, <2>3
<1>3. CASE \E c \in Accounts : Open(c) \/ Close(c)
  <2> PICK c \in Accounts : Open(c) \/ Close(c)
    BY <1>3
  <2>1. CASE Open(c)
    BY <1>0, <2>1, OpenAccountIs DEF Open
  <2>2. CASE Close(c)
    <3>1. ~paused /\ ~(c = a /\ rows[a] # NoRow /\ rows[a].frozen)
      BY <2>2 DEF Close, IsFrozen
    <3>2. c # a => rows'[a] = rows[a]
      BY <1>0, <2>2 DEF Close, RowsType
    <3> QED  BY <1>0, <3>1, <3>2 DEF Held
  <2> QED  BY <2>1, <2>2
<1>4. CASE Setting
  <2>1. CASE UNCHANGED rows
    BY <1>0, <2>1 DEF Held
  <2>2. CASE \E c \in Accounts : FeeReceiver(c)
    BY <1>0, <2>2, OpenAccountIs DEF FeeReceiver
  <2>3. CASE \E c \in Accounts, flag \in BOOLEAN : FeeExempt(c, flag) \/ FreezeAcct(c, flag)
    <3> PICK c \in Accounts, flag \in BOOLEAN : FeeExempt(c, flag) \/ FreezeAcct(c, flag)
      BY <2>3
    <3>1. /\ Held(rows', a) = Held(rows, a)
          /\ rows[a] # NoRow => rows'[a] # NoRow
          /\ c # a => rows'[a] = rows[a]
          /\ FeeExempt(c, flag) => rows'[c].frozen = rows[c].frozen
          /\ FreezeAcct(c, flag) => rows' = [rows EXCEPT ![c].frozen = flag] /\ rows'[c].frozen = flag
      BY FlagIs
    <3> QED  BY <1>0, <3>1
  <2> QED  BY <1>4, <2>1, <2>2, <2>3 DEF Setting, FeeRatio, MinFee, Pause
<1>5. CASE UNCHANGED tokenVars
  BY <1>0, <1>5 DEF tokenVars, Held
<1> QED  BY <1>1, <1>2, <1>3, <1>4, <1>5 DEF XTokenNext

\* A frozen account loses nothing and receives nothing but fees until the
\* issuer takes the flag away, and while the token is paused nobody but the
\* issuer is paid or pays, whatever else happens to their rows.
THEOREM StoppedAccountsAreKept == XTokenSpec => StoppedAccountsKeep
<1>1. XTokenTypeOK /\ [XTokenNext]_tokenVars =>
        [ \A a \in Accounts \ {Issuer} :
            /\ rows[a] # NoRow /\ rows[a].frozen =>
                 /\ rows'[a] # NoRow
                 /\ \/ rows'[a].frozen
                    \/ rows' = [rows EXCEPT ![a].frozen = FALSE]
                 /\ Held(rows', a) >= Held(rows, a)
                 /\ Held(rows', a) # Held(rows, a) => a = feeReceiver
            /\ paused => Held(rows', a) = Held(rows, a) ]_tokenVars
  BY StepKeepsStopped
<1> QED  BY <1>1, XTokenTyped, PTL DEF XTokenSpec, StoppedAccountsKeep

-----------------------------------------------------------------------------
(* The balances add up to the supply.                                      *)

Holdings(r) == [a \in Accounts |-> Held(r, a)]

LEMMA HoldingsTyped ==
  ASSUME NEW r \in RowsType
  PROVE  Holdings(r) \in [Accounts -> Int] /\ SumFunction(Holdings(r)) \in Int
<1>1. Holdings(r) \in [Accounts -> Int]
  BY DEF Holdings, Held, RowsType, RowType
<1> QED  BY <1>1, SumInt, XTokenAssumption DEF XTokenAssumption

\* One balance differs.
LEMMA OneBalanceChanges ==
  ASSUME NEW r \in RowsType, NEW s \in RowsType, NEW a \in Accounts,
         \A c \in Accounts : c # a => Held(s, c) = Held(r, c)
  PROVE  SumFunction(Holdings(s)) = SumFunction(Holdings(r)) - Held(r, a) + Held(s, a)
<1>1. Holdings(r) \in [Accounts -> Int] /\ Holdings(s) \in [Accounts -> Int]
  BY HoldingsTyped
<1>2. IsFiniteSet(Accounts)
  BY XTokenAssumption DEF XTokenAssumption
<1>3. /\ \A c \in Accounts \ {a} : Holdings(s)[c] = Holdings(r)[c]
      /\ Holdings(r)[a] = Held(r, a) /\ Holdings(s)[a] = Held(s, a)
  BY DEF Holdings
<1> QED  BY <1>1, <1>2, <1>3, SumChange

LEMMA AddToSum ==
  ASSUME NEW r \in RowsType, NEW a \in Accounts, NEW q \in Nat
  PROVE  SumFunction(Holdings(Add(r, a, q))) = SumFunction(Holdings(r)) + q
<1>1. /\ Add(r, a, q) \in RowsType
      /\ \A c \in Accounts : c # a => Held(Add(r, a, q), c) = Held(r, c)
      /\ Held(Add(r, a, q), a) = Held(r, a) + q
  BY AddIs DEF Held
<1>2. Held(r, a) \in Int /\ SumFunction(Holdings(r)) \in Int
  BY HoldingsTyped DEF Held, RowsType, RowType
<1> QED  BY <1>1, <1>2, OneBalanceChanges

LEMMA SubFromSum ==
  ASSUME NEW r \in RowsType, NEW a \in Accounts, NEW q \in Nat, CanSub(r, a, q)
  PROVE  SumFunction(Holdings(Sub(r, a, q))) = SumFunction(Holdings(r)) - q
<1>1. /\ Sub(r, a, q) \in RowsType
      /\ \A c \in Accounts : c # a => Held(Sub(r, a, q), c) = Held(r, c)
      /\ Held(Sub(r, a, q), a) = Held(r, a) - q
  BY SubIs DEF Held
<1>2. Held(r, a) \in Int /\ SumFunction(Holdings(r)) \in Int
  BY HoldingsTyped DEF Held, RowsType, RowType
<1> QED  BY <1>1, <1>2, OneBalanceChanges

\* No balance differs.
LEMMA NoBalanceChanges ==
  ASSUME NEW r \in RowsType, NEW s \in RowsType,
         \A c \in Accounts : Held(s, c) = Held(r, c)
  PROVE  SumFunction(Holdings(s)) = SumFunction(Holdings(r))
<1>1. Holdings(s) = Holdings(r)
  BY DEF Holdings
<1> QED  BY <1>1

\* transfer: whether there is a fee, and whoever receives it, even the sender.
LEMMA TransferConserves ==
  ASSUME XTokenTypeOK, NEW from \in Accounts, NEW to \in Accounts, NEW q \in Amounts,
         Transfer(from, to, q)
  PROVE  SumFunction(Holdings(rows')) = SumFunction(Holdings(rows))
<1> DEFINE fee == Fee(to, q)
           taken == Sub(rows, from, q)
           paid == Add(taken, to, q - fee)
           total == SumFunction(Holdings(rows))
<1>1. rows \in RowsType /\ total \in Int
  BY HoldingsTyped DEF XTokenTypeOK, RowsType
<1>2. q \in Nat /\ fee \in Nat /\ q - fee \in Nat /\ (fee # 0 => feeReceiver \in Accounts)
  BY FeeIsPart DEF Transfer
<1>3. taken \in RowsType /\ SumFunction(Holdings(taken)) = total - q
  BY <1>1, <1>2, SubIs, SubFromSum DEF Transfer
<1>4. paid \in RowsType /\ SumFunction(Holdings(paid)) = total - fee
  <2>1. PICK d \in Nat, r \in RowsType : d = q - fee /\ r = taken
    BY <1>2, <1>3
  <2>2. Add(r, to, d) \in RowsType /\ SumFunction(Holdings(Add(r, to, d))) = SumFunction(Holdings(r)) + d
    BY AddIs, AddToSum
  <2> QED  BY <1>1, <1>2, <1>3, <2>1, <2>2
<1>5. CASE fee = 0
  <2>1. rows' = paid
    BY <1>5 DEF Transfer, Paid
  <2> QED  BY <1>1, <1>4, <1>5, <2>1
<1>6. CASE fee # 0
  <2>1. rows' = Add(paid, feeReceiver, fee) /\ feeReceiver \in Accounts
    BY <1>2, <1>6 DEF Transfer, Paid
  <2>2. PICK r \in RowsType, f \in Nat : r = paid /\ f = fee
    BY <1>2, <1>4
  <2>3. SumFunction(Holdings(Add(r, feeReceiver, f))) = SumFunction(Holdings(r)) + f
    BY <2>1, AddToSum
  <2> QED  BY <1>1, <1>2, <1>4, <2>1, <2>2, <2>3
<1> QED  BY <1>5, <1>6

ConserveInv == XTokenTypeOK /\ FeesConserve

LEMMA ConserveInit == XTokenInit => ConserveInv
<1> SUFFICES ASSUME XTokenInit PROVE ConserveInv
  OBVIOUS
<1>1. XTokenTypeOK
  BY TypeInit
<1>2. rows \in RowsType /\ supply <= MaxSupply
  BY <1>1 DEF XTokenTypeOK, RowsType
<1>3. Holdings(rows) \in [Accounts -> Int] /\ IsFiniteSet(Accounts)
  BY <1>2, HoldingsTyped, XTokenAssumption DEF XTokenAssumption
<1>4. \A a \in Accounts : Holdings(rows)[a] = 0
  BY DEF XTokenInit, Holdings, Held
<1>5. SumFunction(Holdings(rows)) = 0
  BY <1>3, <1>4, SumZero
<1> QED  BY <1>1, <1>2, <1>5 DEF XTokenInit, ConserveInv, FeesConserve, Holdings

LEMMA ConserveStep == ConserveInv /\ [XTokenNext]_tokenVars => ConserveInv'
<1> SUFFICES ASSUME ConserveInv, [XTokenNext]_tokenVars PROVE ConserveInv'
  OBVIOUS
<1> DEFINE total(r) == SumFunction(Holdings(r))
<1>0. XTokenTypeOK /\ rows \in RowsType /\ total(rows) = supply /\ supply \in Int
  BY DEF ConserveInv, XTokenTypeOK, RowsType, FeesConserve, Holdings
<1>1. XTokenTypeOK' /\ rows' \in RowsType /\ supply' <= MaxSupply
  BY <1>0, TypeStep DEF XTokenTypeOK, RowsType
<1>2. total(rows') = supply'
  <2>1. CASE \E from, to \in Accounts, q \in Amounts : Transfer(from, to, q)
    BY <1>0, <2>1, TransferConserves DEF Transfer, statVars
  <2>2. CASE \E q \in Amounts : Issue(q) \/ Retire(q)
    <3> PICK q \in Amounts : Issue(q) \/ Retire(q)
      BY <2>2
    <3>1. q \in Nat /\ Issuer \in Accounts
      BY XTokenAssumption DEF XTokenAssumption
    <3>2. CASE Issue(q)
      BY <1>0, <3>1, <3>2, AddToSum DEF Issue
    <3>3. CASE Retire(q)
      BY <1>0, <3>1, <3>3, SubFromSum DEF Retire
    <3> QED  BY <3>2, <3>3
  <2>3. CASE UNCHANGED supply /\ \A c \in Accounts : Held(rows', c) = Held(rows, c)
    BY <1>0, <1>1, <2>3, NoBalanceChanges
  <2>4. CASE \E a \in Accounts : Open(a) \/ Close(a)
    <3> PICK a \in Accounts : Open(a) \/ Close(a)
      BY <2>4
    <3>1. CASE Open(a)
      BY <1>0, <2>3, <3>1, OpenAccountIs DEF Open, statVars
    <3>2. CASE Close(a)
      BY <1>0, <2>3, <3>2 DEF Close, statVars, Held, RowsType
    <3> QED  BY <3>1, <3>2
  <2>5. CASE Setting
    <3>1. CASE UNCHANGED rows
      BY <2>3, <2>5, <3>1 DEF Setting, Held, FeeRatio, MinFee, Pause, FeeReceiver, FeeExempt, FreezeAcct, statVars
    <3>2. CASE \E c \in Accounts : FeeReceiver(c)
      BY <1>0, <2>3, <3>2, OpenAccountIs DEF FeeReceiver
    <3>3. CASE \E c \in Accounts, flag \in BOOLEAN : FeeExempt(c, flag) \/ FreezeAcct(c, flag)
      BY <1>0, <2>3, <3>3, FlagIs DEF FeeExempt, FreezeAcct, statVars
    <3> QED  BY <2>5, <3>1, <3>2, <3>3 DEF Setting, FeeRatio, MinFee, Pause
  <2>6. CASE UNCHANGED tokenVars
    BY <2>3, <2>6 DEF tokenVars, statVars, Held
  <2> QED  BY <2>1, <2>2, <2>4, <2>5, <2>6 DEF XTokenNext
<1> QED  BY <1>1, <1>2 DEF ConserveInv, FeesConserve, Holdings

\* The balances of all accounts, and the fees among them, add up to the
\* supply, which never exceeds its maximum, for any accounts, whoever receives
\* the fees.
THEOREM XTokenFeesConserve == XTokenSpec => []FeesConserve
<1>1. ConserveInv => FeesConserve
  BY DEF ConserveInv
<1> QED  BY <1>1, ConserveInit, ConserveStep, PTL DEF XTokenSpec
-----------------------------------------------------------------------------
(* amax.msig.                                                              *)

\* p, r and s are a proposal, its approvals and since when they sufficed,
\* at time t.  That s is 0 unless the approvals of the table suffice is what
\* makes the delay inductive: approving keeps s only if they sufficed before.
ApprovalsAgree(p, r) ==
  /\ Given(r.provided) \cap r.requested = {}
  /\ \A a, b \in r.provided : a.level = b.level => a = b
  /\ \A a \in r.provided : a.hash # NoHash => a.meant = p.trx

DelayAgrees(p, r, s) ==
  /\ s # 0 => Authorized(p.trx, Given(r.provided))
  /\ p.earliest # 0 => s # 0 /\ p.earliest >= s + Delay[p.trx]

RowsAgree(p, r, s, t) ==
  /\ p = NoProposal <=> r = NoProposal
  /\ s <= t
  /\ p = NoProposal => s = 0
  /\ p # NoProposal => ApprovalsAgree(p, r) /\ DelayAgrees(p, r, s)

RowsInv == \A n \in Names : RowsAgree(proposals[n], approvals[n], enoughSince[n], now)

HashesNameTheMeant == \A m \in sent : m.hash # NoHash => m.meant = m.hash

IndInv == TypeOK /\ now >= 1 /\ HashesNameTheMeant /\ RowsInv

-----------------------------------------------------------------------------
(* Approvals and levels.                                                   *)

\* The levels that approved validly are among those that approved at all.
LEMMA ValidAreGiven ==
  ASSUME NEW provided \in SUBSET Approval
  PROVE  /\ ValidLevels(provided) \subseteq Given(provided)
         /\ Given(provided) \in SUBSET Levels
BY DEF ValidLevels, Given, Approval

\* More levels authorize whatever fewer do.
LEMMA MoreLevelsAuthorize ==
  ASSUME NEW t \in Transactions, NEW l1 \in SUBSET Levels, NEW l2 \in SUBSET Levels,
         l1 \subseteq l2, Authorized(t, l1)
  PROVE  Authorized(t, l2)
BY MsigAssumption DEF MsigAssumption, Authorized

\* Approvals that authorize validly suffice in the table.
LEMMA ValidSuffice ==
  ASSUME NEW t \in Transactions, NEW provided \in SUBSET Approval,
         Authorized(t, ValidLevels(provided))
  PROVE  Authorized(t, Given(provided))
<1>1. ValidLevels(provided) \subseteq Given(provided) /\ Given(provided) \in SUBSET Levels
  BY ValidAreGiven
<1> QED  BY <1>1, MoreLevelsAuthorize

-----------------------------------------------------------------------------
(* What the handlers do to the rows of their name.                         *)

\* approve: the approval added is one of a level that was asked for.
LEMMA ApproveKeepsRows ==
  ASSUME IndInv, NEW m, Approve(m)
  PROVE  RowsAgree(proposals[m.name], approvals[m.name], enoughSince[m.name], now)'
         /\ proposals'[m.name] \in Proposal /\ approvals'[m.name] \in Approvals
         /\ enoughSince'[m.name] \in Nat
<1> DEFINE n == m.name
           p == proposals[n]
           r == approvals[n]
           s == enoughSince[n]
           new == [level |-> m.level, time |-> now, hash |-> m.hash, meant |-> m.meant]
           added == r.provided \cup {new}
           p2 == [p EXCEPT !.earliest = EarliestOnApprove(p, added)]
           r2 == [requested |-> r.requested \ {m.level}, provided |-> added]
<1>1. /\ m \in Message /\ n \in Names /\ m.hash \in {p.trx, NoHash}
      /\ m.level \in r.requested
      /\ p \in Proposal /\ r \in Approvals /\ s \in Nat /\ now \in Nat \ {0}
      /\ ApprovalsAgree(p, r) /\ DelayAgrees(p, r, s) /\ s <= now
  BY DEF IndInv, TypeOK, Approve, Message, HashAgrees, RowsInv, RowsAgree
<1>2. new \in Approval /\ added \in SUBSET Approval
  BY <1>1 DEF Message, Approval, Approvals
<1>3. proposals'[n] = p2 /\ approvals'[n] = r2 /\ enoughSince'[n] = Since(n, added) /\ now' = now
  BY <1>1 DEF Approve, IndInv, TypeOK
<1>4. r2 \in Approvals
  BY <1>1, <1>2 DEF Approvals
<1>5. EarliestOnApprove(p, added) \in Nat /\ Delay[p.trx] \in Nat /\ p.trx \in Transactions
      /\ p.earliest \in Nat
  BY <1>1, MsigAssumption DEF MsigAssumption, EarliestOnApprove, Proposal
<1>6. p2 \in Proposal /\ p2.trx = p.trx /\ p2.earliest = EarliestOnApprove(p, added)
  BY <1>1, <1>5 DEF Proposal
<1>7. ApprovalsAgree(p2, r2)
  <2>1. new.level \notin Given(r.provided)
    BY <1>1 DEF ApprovalsAgree
  <2>2. Given(added) \cap r2.requested = {}
    BY <1>1 DEF ApprovalsAgree, Given
  <2>3. \A a, b \in added : a.level = b.level => a = b
    BY <1>1, <2>1 DEF ApprovalsAgree, Given
  <2>4. \A a \in added : a.hash # NoHash => a.meant = p.trx
    <3>1. m.hash # NoHash => m.meant = m.hash
      BY DEF IndInv, HashesNameTheMeant, Approve
    <3> QED  BY <1>1, <3>1 DEF ApprovalsAgree
  <2> QED  BY <1>6, <2>2, <2>3, <2>4 DEF ApprovalsAgree
<1>8. s # 0 => Authorized(p.trx, Given(added))
  <2>1. Given(r.provided) \subseteq Given(added)
    BY DEF Given
  <2>2. Given(r.provided) \in SUBSET Levels /\ Given(added) \in SUBSET Levels
    BY <1>1, <1>2, ValidAreGiven DEF Approvals
  <2> QED  BY <1>1, <1>5, <2>1, <2>2, MoreLevelsAuthorize DEF DelayAgrees
<1>9. /\ Since(n, added) \in Nat /\ Since(n, added) <= now
      /\ Since(n, added) # 0 => Authorized(p.trx, Given(added))
      /\ Authorized(p.trx, Given(added)) => Since(n, added) = IF s # 0 THEN s ELSE now
  BY <1>1 DEF Since
<1>10. DelayAgrees(p2, r2, Since(n, added))
  <2>1. CASE EarliestOnApprove(p, added) = p.earliest
    BY <2>1, <1>1, <1>6, <1>8, <1>9 DEF DelayAgrees
  <2>2. CASE EarliestOnApprove(p, added) # p.earliest
    <3>1. Authorized(p.trx, ValidLevels(added)) /\ EarliestOnApprove(p, added) = now + Delay[p.trx]
      BY <2>2 DEF EarliestOnApprove
    <3>2. Authorized(p.trx, Given(added))
      BY <3>1, <1>2, <1>5, ValidSuffice
    <3> QED  BY <3>1, <3>2, <1>1, <1>5, <1>6, <1>9 DEF DelayAgrees
  <2> QED  BY <2>1, <2>2
<1>11. p2 # NoProposal /\ r2 # NoProposal
  BY <1>4, <1>6, NoProposalAssumption
<1> QED  BY <1>3, <1>4, <1>6, <1>7, <1>9, <1>10, <1>11 DEF RowsAgree

\* unapprove: a withdrawal that leaves too few unsets the time of execution.
LEMMA UnapproveKeepsRows ==
  ASSUME IndInv, NEW n \in Names, NEW l \in Levels, Unapprove(n, l)
  PROVE  RowsAgree(proposals[n], approvals[n], enoughSince[n], now)'
         /\ proposals'[n] \in Proposal /\ approvals'[n] \in Approvals
         /\ enoughSince'[n] \in Nat
<1> DEFINE p == proposals[n]
           r == approvals[n]
           s == enoughSince[n]
           left == {a \in r.provided : a.level # l}
           p2 == [p EXCEPT !.earliest = EarliestOnUnapprove(p, left)]
           r2 == [requested |-> r.requested \cup {l}, provided |-> left]
<1>1. /\ p \in Proposal /\ r \in Approvals /\ s \in Nat /\ now \in Nat \ {0}
      /\ ApprovalsAgree(p, r) /\ DelayAgrees(p, r, s) /\ s <= now
  BY DEF IndInv, TypeOK, Unapprove, RowsInv, RowsAgree
<1>2. left \in SUBSET Approval
  BY <1>1 DEF Approvals
<1>3. proposals'[n] = p2 /\ approvals'[n] = r2 /\ enoughSince'[n] = Since(n, left) /\ now' = now
  BY <1>1 DEF Unapprove, IndInv, TypeOK
<1>4. r2 \in Approvals
  BY <1>1, <1>2 DEF Approvals
<1>5. EarliestOnUnapprove(p, left) \in Nat /\ Delay[p.trx] \in Nat /\ p.trx \in Transactions
  BY <1>1, MsigAssumption DEF MsigAssumption, EarliestOnUnapprove, Proposal
<1>6. p2 \in Proposal /\ p2.trx = p.trx /\ p2.earliest = EarliestOnUnapprove(p, left)
  BY <1>1, <1>5 DEF Proposal
<1>7. ApprovalsAgree(p2, r2)
  BY <1>1, <1>6 DEF ApprovalsAgree, Given
<1>8. /\ Since(n, left) \in Nat /\ Since(n, left) <= now
      /\ Since(n, left) # 0 => Authorized(p.trx, Given(left))
      /\ Authorized(p.trx, Given(left)) /\ s # 0 => Since(n, left) = s
  BY <1>1 DEF Since
<1>9. DelayAgrees(p2, r2, Since(n, left))
  <2>1. EarliestOnUnapprove(p, left) # 0 =>
          Authorized(p.trx, Given(left)) /\ EarliestOnUnapprove(p, left) = p.earliest
    BY <1>2, <1>5, ValidSuffice DEF EarliestOnUnapprove
  <2> QED  BY <2>1, <1>1, <1>6, <1>8 DEF DelayAgrees
<1>10. p2 # NoProposal /\ r2 # NoProposal
  BY <1>4, <1>6, NoProposalAssumption
<1> QED  BY <1>3, <1>4, <1>6, <1>7, <1>8, <1>9, <1>10 DEF RowsAgree

\* propose finds no row under its name, so that no approval counts yet.
LEMMA ProposeKeepsRows ==
  ASSUME IndInv, NEW n \in Names, NEW t \in Transactions, NEW requested \in SUBSET Levels,
         Propose(n, t, requested)
  PROVE  RowsAgree(proposals[n], approvals[n], enoughSince[n], now)'
         /\ proposals'[n] \in Proposal /\ approvals'[n] \in Approvals
<1>1. /\ proposals'[n] = [trx |-> t, earliest |-> 0]
      /\ approvals'[n] = [requested |-> requested, provided |-> {}]
      /\ enoughSince'[n] = 0 /\ now' = now /\ now \in Nat
  BY DEF Propose, IndInv, TypeOK, RowsInv, RowsAgree
<1>2. proposals'[n] \in Proposal /\ approvals'[n] \in Approvals
  BY <1>1 DEF Proposal, Approvals
<1>3. ApprovalsAgree(proposals'[n], approvals'[n])
  BY <1>1 DEF ApprovalsAgree, Given
<1>4. DelayAgrees(proposals'[n], approvals'[n], enoughSince'[n])
  BY <1>1 DEF DelayAgrees
<1> QED  BY <1>1, <1>2, <1>3, <1>4, NoProposalAssumption DEF RowsAgree

\* cancel and exec leave nothing under the name.
LEMMA ErasedKeepsRows ==
  ASSUME IndInv, NEW n \in Names, Erased(n)
  PROVE  RowsAgree(proposals[n], approvals[n], enoughSince[n], now)'
         /\ proposals'[n] = NoProposal /\ approvals'[n] = NoProposal /\ enoughSince'[n] = 0
BY DEF Erased, IndInv, TypeOK, RowsAgree

-----------------------------------------------------------------------------
(* The invariant.                                                          *)

\* A step that changes the rows of one name only, and keeps these, keeps all.
LEMMA OneNameChanges ==
  ASSUME IndInv, NEW n \in Names, now' = now,
         proposals' = [proposals EXCEPT ![n] = proposals'[n]],
         approvals' = [approvals EXCEPT ![n] = approvals'[n]],
         enoughSince' = [enoughSince EXCEPT ![n] = enoughSince'[n]],
         RowsAgree(proposals[n], approvals[n], enoughSince[n], now)'
  PROVE  RowsInv'
<1> SUFFICES ASSUME NEW k \in Names
             PROVE  RowsAgree(proposals[k], approvals[k], enoughSince[k], now)'
  BY DEF RowsInv
<1>1. CASE k = n
  BY <1>1
<1>2. CASE k # n
  <2>1. /\ proposals'[k] = proposals[k] /\ approvals'[k] = approvals[k]
        /\ enoughSince'[k] = enoughSince[k]
    BY <1>2 DEF IndInv, TypeOK
  <2> QED  BY <2>1 DEF IndInv, RowsInv
<1> QED  BY <1>1, <1>2

LEMMA InitEstablishes == Init => IndInv
BY NoProposalAssumption, MsigAssumption
   DEF MsigAssumption, Init, IndInv, TypeOK, HashesNameTheMeant, RowsInv, RowsAgree

LEMMA StepKeeps == IndInv /\ [Next]_vars => IndInv'
<1> SUFFICES ASSUME IndInv, [Next]_vars PROVE IndInv'
  OBVIOUS
<1> USE DEF IndInv
<1>1. CASE \E n \in Names, t \in Transactions, requested \in SUBSET Levels : Propose(n, t, requested)
  <2> PICK n \in Names, t \in Transactions, requested \in SUBSET Levels : Propose(n, t, requested)
    BY <1>1
  <2>1. /\ RowsAgree(proposals[n], approvals[n], enoughSince[n], now)'
        /\ proposals'[n] \in Proposal /\ approvals'[n] \in Approvals
    BY ProposeKeepsRows
  <2>2. TypeOK' /\ now' >= 1 /\ HashesNameTheMeant'
    BY <2>1 DEF Propose, TypeOK, HashesNameTheMeant
  <2>3. RowsInv'
    BY <2>1, OneNameChanges DEF Propose, TypeOK
  <2> QED  BY <2>2, <2>3
<1>2. CASE \E n \in Names, l \in Levels, hashed \in BOOLEAN : Sign(n, l, hashed)
  <2> PICK n \in Names, l \in Levels, hashed \in BOOLEAN : Sign(n, l, hashed)
    BY <1>2
  <2>1. proposals[n].trx \in Transactions
    BY DEF Sign, TypeOK, Proposal
  <2>2. TypeOK' /\ HashesNameTheMeant'
    BY <2>1 DEF Sign, TypeOK, Message, HashesNameTheMeant
  <2> QED  BY <2>2 DEF Sign, RowsInv
<1>3. CASE \E m \in sent : Approve(m) \/ Drop(m)
  <2> PICK m \in sent : Approve(m) \/ Drop(m)
    BY <1>3
  <2>1. CASE Approve(m)
    <3>1. m.name \in Names
      BY DEF TypeOK, Message
    <3>2. /\ RowsAgree(proposals[m.name], approvals[m.name], enoughSince[m.name], now)'
          /\ proposals'[m.name] \in Proposal /\ approvals'[m.name] \in Approvals
          /\ enoughSince'[m.name] \in Nat
      BY <2>1, ApproveKeepsRows
    <3>3. TypeOK' /\ now' >= 1 /\ HashesNameTheMeant'
      BY <2>1, <3>1, <3>2 DEF Approve, TypeOK, HashesNameTheMeant
    <3>4. RowsInv'
      BY <2>1, <3>1, <3>2, OneNameChanges DEF Approve, TypeOK
    <3> QED  BY <3>3, <3>4
  <2>2. CASE Drop(m)
    BY <2>2 DEF Drop, TypeOK, HashesNameTheMeant, RowsInv
  <2> QED  BY <2>1, <2>2
<1>4. CASE \E n \in Names, l \in Levels : Unapprove(n, l)
  <2> PICK n \in Names, l \in Levels : Unapprove(n, l)
    BY <1>4
  <2>1. /\ RowsAgree(proposals[n], approvals[n], enoughSince[n], now)'
        /\ proposals'[n] \in Proposal /\ approvals'[n] \in Approvals
        /\ enoughSince'[n] \in Nat
    BY UnapproveKeepsRows
  <2>2. TypeOK' /\ now' >= 1 /\ HashesNameTheMeant'
    BY <2>1 DEF Unapprove, TypeOK, HashesNameTheMeant
  <2>3. RowsInv'
    BY <2>1, OneNameChanges DEF Unapprove, TypeOK
  <2> QED  BY <2>2, <2>3
<1>5. CASE \E n \in Names : Erased(n)
  <2> PICK n \in Names : Erased(n)
    BY <1>5
  <2>1. /\ RowsAgree(proposals[n], approvals[n], enoughSince[n], now)'
        /\ proposals'[n] = NoProposal /\ approvals'[n] = NoProposal /\ enoughSince'[n] = 0
    BY ErasedKeepsRows
  <2>2. TypeOK' /\ now' >= 1 /\ HashesNameTheMeant'
    BY <2>1 DEF Erased, TypeOK, HashesNameTheMeant
  <2>3. RowsInv'
    BY <2>1, OneNameChanges DEF Erased, TypeOK
  <2> QED  BY <2>2, <2>3
<1>6. CASE \E l \in Levels : Invalidate(l)
  BY <1>6 DEF Invalidate, TypeOK, HashesNameTheMeant, RowsInv
<1>7. CASE Tick
  <2>1. TypeOK' /\ now' >= 1 /\ HashesNameTheMeant'
    BY <1>7 DEF Tick, TypeOK, HashesNameTheMeant
  <2>2. RowsInv'
    BY <1>7 DEF Tick, TypeOK, RowsInv, RowsAgree
  <2> QED  BY <2>1, <2>2
<1>8. CASE UNCHANGED vars
  BY <1>8 DEF vars, TypeOK, HashesNameTheMeant, RowsInv, RowsAgree
<1> QED
  BY <1>1, <1>2, <1>3, <1>4, <1>5, <1>6, <1>7, <1>8 DEF Next, Cancel, Exec

LEMMA Invariant == Spec => []IndInv
<1> QED  BY InitEstablishes, StepKeeps, PTL DEF Spec

\* The tables of the multisig contract always hold what they are declared to.
THEOREM MsigTyped == Spec => []TypeOK
<1>1. IndInv => TypeOK
  BY DEF IndInv
<1> QED  BY <1>1, Invariant, PTL

\* An approval that names a transaction never counts for another one, and
\* no level is counted twice, however late approvals arrive and however
\* often names are used again.
THEOREM ApprovalsCountAsMeant == Spec => []ApprovedAsMeant
<1>1. IndInv => ApprovedAsMeant
  BY DEF IndInv, RowsInv, RowsAgree, ApprovalsAgree, ApprovedAsMeant
<1> QED  BY <1>1, Invariant, PTL

\* A time of execution is never earlier than the delay after the approvals
\* in the table began to suffice.
THEOREM DelaysAreServed == Spec => []DelayServed
<1>1. IndInv => DelayServed
  BY DEF IndInv, RowsInv, RowsAgree, DelayAgrees, DelayServed
<1> QED  BY <1>1, Invariant, PTL
=============================================================================
