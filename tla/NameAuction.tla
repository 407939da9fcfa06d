---------------------------- MODULE NameAuction ----------------------------
(***************************************************************************)
(* The auction of account names of amax.system (name_bidding.cpp, onblock  *)
(* in producer_pay.cpp, newaccount in amax.system.cpp).  bidname refuses   *)
(* every bid now: what is left are the bids and refunds of before, which   *)
(* onblock closes, the winners redeem by newaccount and anyone may have    *)
(* paid back by bidrefund.                                                 *)
(*                                                                         *)
(* A name is a number, in the order of eosio::name.                        *)
(***************************************************************************)
EXTENDS Integers, FiniteSets

CONSTANTS
  Names,         \* the names bid for
  Bidders,       \* the accounts that bid
  OldBids,       \* the bids there are: sets of records [name, bidder, bid, time]
  OldRefunds,    \* the refunds there are: sets of records [name, bidder, amount]
  Day,           \* blocks_per_day, useconds_per_day
  LaunchDelay    \* the 14 days after thresh_activated_stake_time

\* A row of name_bid_table, whose primary key is the name.
BidRows == [name : Names, bidder : Bidders, bid : Int, time : Int]

ASSUME AuctionAssumption ==
  /\ Names \subseteq Nat /\ Day \in Nat \ {0} /\ LaunchDelay \in Nat
  /\ \A rows \in OldBids :
       rows \subseteq BidRows /\ \A a, b \in rows : a.name = b.name => a = b

VARIABLES
  bids,        \* name_bid_table: the rows; a negative bid is closed
  refunds,     \* bid_refund_table, of all names
  lastClose,   \* last_name_close
  thresh,      \* thresh_activated_stake_time, 0 if not set
  created      \* the accounts made from names bid for

auctionVars == <<bids, refunds, lastClose, thresh, created>>

Abs(n) == IF n < 0 THEN -n ELSE n

\* The order of index "highbid", by the unsigned value of -high_bid: closed
\* bids by their amount, then the open ones, highest first; ties by name.
Before(a, b) ==
  \/ a.bid < 0 /\ b.bid > 0
  \/ a.bid < 0 /\ b.bid < 0 /\ Abs(a.bid) < Abs(b.bid)
  \/ a.bid > 0 /\ b.bid > 0 /\ a.bid > b.bid
  \/ a.bid = b.bid /\ a.name < b.name

\* The first of some rows, {} if there is none.
First(rows) == {b \in rows : \A c \in rows \ {b} : Before(b, c)}
FirstOpen(rows) == First({b \in rows : b.bid > 0})
NextRow(rows, b) == First({c \in rows : Before(b, c)})

\* bid_mature_handler::handle: whether it closes the bid
Mature(b, t) ==
  /\ b.bid > 0 /\ t - b.time > Day
  /\ thresh > 0 /\ t - thresh > LaunchDelay

Closed(b) == [b EXCEPT !.bid = -@]
WithClosed(rows, b) == (rows \ {b}) \cup {Closed(b)}

SkipYoung(st, t) ==  \* mutant: a bid still too young is passed over
  IF \E b \in st.rows : Mature(b, t)
  THEN LET b == CHOOSE b \in st.rows : Mature(b, t)
       IN  [st EXCEPT !.rows = WithClosed(st.rows, b)]
  ELSE st

\* The handler at the row `at` points to (a set of at most one row), and then
\* at the row after it: closing a bid moves its row in the index, and the
\* iterator goes on from its new place.
HandleThenNext(st, t) ==
  IF \E b \in st.at : Mature(b, t)
  THEN LET b    == CHOOSE b \in st.at : TRUE
           rows == WithClosed(st.rows, b)
       IN  [rows |-> rows, at |-> NextRow(rows, Closed(b))]
  ELSE [st EXCEPT !.at = {}]

\* The bids after the close of a day, for the bids there are.
AfterClose(t) ==
  LET start == [rows |-> bids, at |-> FirstOpen(bids)]
  IN  HandleThenNext(HandleThenNext(HandleThenNext(start, t), t), t).rows

\* The part of onblock that closes auctions, at time t
CloseAuctions(t) ==
  /\ IF t > lastClose + Day THEN bids' = AfterClose(t) ELSE UNCHANGED bids
  /\ lastClose' = IF bids' # bids THEN t ELSE lastClose
  /\ UNCHANGED <<refunds, thresh, created>>

\* newaccount of a name bid for: the system and the name service may create
\* any, others must hold the closed bid.
CreateByWinner(creator, name) ==
  /\ name \notin created
  /\ \E b \in bids : /\ b.name = name /\ b.bidder = creator /\ b.bid < 0
                     /\ bids' = bids \ {b}
  /\ created' = created \cup {name}
  /\ UNCHANGED <<refunds, lastClose, thresh>>

CreateBySystem(name) ==
  /\ name \notin created
  /\ created' = created \cup {name}
  /\ UNCHANGED <<bids, refunds, lastClose, thresh>>

\* bidrefund
BidRefund(r) ==
  /\ r \in refunds /\ refunds' = refunds \ {r}
  /\ UNCHANGED <<bids, lastClose, thresh, created>>

AuctionInit ==
  /\ bids \in OldBids
  /\ refunds \in OldRefunds
  /\ lastClose = 0 /\ thresh \in {0, 1}
  /\ created = {}

AuctionAction ==
  \/ \E name \in Names :
       CreateBySystem(name) \/ \E creator \in Bidders : CreateByWinner(creator, name)
  \/ \E r \in refunds : BidRefund(r)

-----------------------------------------------------------------------------
(* Properties.                                                             *)

\* The auctions are closed from the highest bid down, however many a block
\* closes and whatever became of the bids closed before, whose rows lie in
\* the way of the iterator (producer_pay.cpp:115-126): no block closes a bid
\* below one that it leaves open.
HighestClosedFirst ==
  [][\A b \in bids, c \in bids' :
       b.bid > 0 /\ Closed(b) \in bids' /\ c.bid > 0 => c.bid <= b.bid]_auctionVars
=============================================================================
