------------------------------ MODULE MCMining ------------------------------
(* One miner; every contract with the ledger and every part of the ledger, *)
(* but no two of them at a time (Apart is a bound).                        *)
EXTENDS Mining, TLC

CONSTANTS admin, miner, fund, oooo, one, two, ido

MCSwap == 1 :> 1 @@ 2 :> 1
MCSwapAds == 1 :> 1 @@ 2 :> 2
MCRewards == 1 :> {0, 1} @@ 2 :> {1, 2}

OneBusy == phase[one] # "before" \/ orders # {} \/ Held(rows, one) > 0 \/ \E n \in SwapAmounts : remained[n] # NoConf
TwoBusy == phase[two] # "before" \/ left > 0 \/ Held(rows, two) > 0
IdoBusy == Held(rows, ido) > 0
LedgerBusy == Held(rows, fund) + Held(rows, oooo) > 0 \/ issuer # admin
Apart == Cardinality({p \in {<<1, OneBusy>>, <<2, TwoBusy>>, <<3, IdoBusy>>, <<4, LedgerBusy>>} : p[2]}) <= 1
=============================================================================
