-------------------------------- MODULE Msig --------------------------------
(***************************************************************************)
(* amax.msig: proposals of one proposer, the approvals given to them, the  *)
(* invalidations of accounts and the delay between enough approvals and    *)
(* the execution.  An approval is signed over what its owner sees and      *)
(* reaches the chain later, when another transaction may stand under the   *)
(* same name; only an approval sent with a hash names the transaction.     *)
(*                                                                         *)
(* Whether a set of levels authorizes a transaction is decided by the      *)
(* chain (check_transaction_authorization): Enough.  What a transaction    *)
(* does when it is sent belongs to other contracts.                        *)
(***************************************************************************)
EXTENDS Integers, FiniteSets

CONSTANTS
    Names,          \* names of proposals
    Levels,         \* permission levels, each of an account of its own
    Transactions,   \* what may be proposed
    Enough,         \* Enough[t]: the sets of levels that authorize t
    Delay,          \* Delay[t]: delay_sec
    Expiration,     \* Expiration[t]
    NoProposal, NoHash,
    MaxTime         \* bound: the clock stops here

ASSUME MsigAssumption ==
    /\ Enough \in [Transactions -> SUBSET SUBSET Levels]
    /\ Delay \in [Transactions -> Nat]
    /\ Expiration \in [Transactions -> Nat]
    /\ MaxTime \in Nat
    /\ NoHash \notin Transactions
    /\ \A t \in Transactions, l1, l2 \in SUBSET Levels :
           l1 \in Enough[t] /\ l1 \subseteq l2 => l2 \in Enough[t]

VARIABLES
    proposals,      \* proposals[n]: [trx, earliest], earliest = 0 when unset
    approvals,      \* approvals[n]: [requested, provided]
    invalidated,    \* last_invalidation_time of a level, 0 without a row
    now,            \* time of the block
    sent,           \* signed approvals on their way
    enoughSince     \* history: since when the approvals of n have sufficed

vars == <<proposals, approvals, invalidated, now, sent, enoughSince>>

Proposal == [trx: Transactions, earliest: Nat]
\* meant is the transaction the owner of the level saw when it signed.
Approval == [level: Levels, time: Nat, hash: Transactions \cup {NoHash}, meant: Transactions]
Approvals == [requested: SUBSET Levels, provided: SUBSET Approval]
Message == [name: Names, level: Levels, hash: Transactions \cup {NoHash}, meant: Transactions]

\* A name without a proposal has no row.
ASSUME NoProposalAssumption == NoProposal \notin Proposal /\ NoProposal \notin Approvals

Init == /\ proposals = [n \in Names |-> NoProposal]
        /\ approvals = [n \in Names |-> NoProposal]
        /\ invalidated = [l \in Levels |-> 0]
        /\ now = 1
        /\ sent = {}
        /\ enoughSince = [n \in Names |-> 0]

Given(provided) == {a.level : a \in provided}
ValidLevels(provided) == {a.level : a \in {b \in provided : invalidated[b.level] < b.time}}
Authorized(t, levels) == levels \in Enough[t]

Propose(n, t, requested) ==
    /\ Expiration[t] >= now
    /\ proposals[n] = NoProposal /\ approvals[n] = NoProposal
    /\ Authorized(t, requested)
    /\ proposals' = [proposals EXCEPT ![n] = [trx |-> t, earliest |-> 0]]
    /\ approvals' = [approvals EXCEPT ![n] = [requested |-> requested, provided |-> {}]]
    /\ UNCHANGED <<invalidated, now, sent, enoughSince>>

(* An account signs an approval of the transaction it sees under a name.   *)
Sign(n, l, hashed) ==
    /\ proposals[n] # NoProposal
    /\ LET t == proposals[n].trx IN
       sent' = sent \cup {[name |-> n, level |-> l, hash |-> IF hashed THEN t ELSE NoHash, meant |-> t]}
    /\ UNCHANGED <<proposals, approvals, invalidated, now, enoughSince>>

HashIgnored(m, t) == m.hash \in Transactions \cup {NoHash}
HashAgrees(m, t) == m.hash \in {t, NoHash}

(* The time of execution after an approval, respectively a withdrawal, of  *)
(* which the table now holds the given approvals.                          *)
EarliestOnApprove(p, provided) ==
    IF Delay[p.trx] # 0 /\ p.earliest = 0 /\ Authorized(p.trx, ValidLevels(provided))
    THEN now + Delay[p.trx] ELSE p.earliest
EarliestKept(p, provided) == p.earliest
EarliestOnUnapprove(p, provided) ==
    IF Authorized(p.trx, ValidLevels(provided)) THEN p.earliest ELSE 0
Since(n, provided) ==
    IF Authorized(proposals[n].trx, Given(provided))
    THEN IF enoughSince[n] # 0 THEN enoughSince[n] ELSE now
    ELSE 0

Approve(m) ==
    LET n == m.name
        added == approvals[n].provided \cup
                   {[level |-> m.level, time |-> now, hash |-> m.hash, meant |-> m.meant]}
    IN  /\ m \in sent
        /\ proposals[n] # NoProposal
        /\ HashAgrees(m, proposals[n].trx)
        /\ approvals[n] # NoProposal
        /\ m.level \in approvals[n].requested
        /\ approvals' = [approvals EXCEPT ![n] = [requested |-> @.requested \ {m.level},
                                                  provided |-> added]]
        /\ proposals' = [proposals EXCEPT ![n].earliest = EarliestOnApprove(proposals[n], added)]
        /\ enoughSince' = [enoughSince EXCEPT ![n] = Since(n, added)]
        /\ sent' = sent \ {m}
        /\ UNCHANGED <<invalidated, now>>

(* An approval that fails, expires or is dropped on its way.               *)
Drop(m) ==
    /\ m \in sent
    /\ sent' = sent \ {m}
    /\ UNCHANGED <<proposals, approvals, invalidated, now, enoughSince>>

Unapprove(n, l) ==
    /\ approvals[n] # NoProposal
    /\ l \in Given(approvals[n].provided)
    /\ proposals[n] # NoProposal
    /\ LET left == {a \in approvals[n].provided : a.level # l} IN
       /\ approvals' = [approvals EXCEPT ![n] = [requested |-> @.requested \cup {l}, provided |-> left]]
       /\ proposals' = [proposals EXCEPT ![n].earliest = EarliestOnUnapprove(proposals[n], left)]
       /\ enoughSince' = [enoughSince EXCEPT ![n] = Since(n, left)]
    /\ UNCHANGED <<invalidated, now, sent>>

Erased(n) ==
    /\ proposals' = [proposals EXCEPT ![n] = NoProposal]
    /\ approvals' = [approvals EXCEPT ![n] = NoProposal]
    /\ enoughSince' = [enoughSince EXCEPT ![n] = 0]
    /\ UNCHANGED <<invalidated, now, sent>>

(* By the proposer at any time, by anyone else after the expiration.       *)
Cancel(n, byProposer) ==
    /\ proposals[n] # NoProposal
    /\ byProposer \/ Expiration[proposals[n].trx] < now
    /\ approvals[n] # NoProposal
    /\ Erased(n)

MayExecute(p, provided) ==
    /\ Expiration[p.trx] >= now
    /\ Authorized(p.trx, ValidLevels(provided))
    /\ IF p.earliest # 0 THEN p.earliest <= now ELSE Delay[p.trx] = 0

Exec(n) ==
    /\ proposals[n] # NoProposal
    /\ approvals[n] # NoProposal
    /\ MayExecute(proposals[n], approvals[n].provided)
    /\ Erased(n)

Invalidate(l) ==
    /\ invalidated' = [invalidated EXCEPT ![l] = now]
    /\ UNCHANGED <<proposals, approvals, now, sent, enoughSince>>

Tick == /\ now < MaxTime
        /\ now' = now + 1
        /\ UNCHANGED <<proposals, approvals, invalidated, sent, enoughSince>>

Next ==
    \/ \E n \in Names, t \in Transactions, requested \in SUBSET Levels : Propose(n, t, requested)
    \/ \E n \in Names, l \in Levels, hashed \in BOOLEAN : Sign(n, l, hashed)
    \/ \E m \in sent : Approve(m) \/ Drop(m)
    \/ \E n \in Names, l \in Levels : Unapprove(n, l)
    \/ \E n \in Names, byProposer \in BOOLEAN : Cancel(n, byProposer)
    \/ \E n \in Names : Exec(n)
    \/ \E l \in Levels : Invalidate(l)
    \/ Tick

Spec == Init /\ [][Next]_vars

(***************************************************************************)
(* Properties.                                                             *)
(***************************************************************************)
TypeOK == /\ proposals \in [Names -> Proposal \cup {NoProposal}]
          /\ approvals \in [Names -> Approvals \cup {NoProposal}]
          /\ invalidated \in [Levels -> Nat]
          /\ now \in Nat
          /\ sent \subseteq Message
          /\ enoughSince \in [Names -> Nat]

(* Approvals belong to the proposal they stand under: both rows come and   *)
(* go together, a level is asked for or given, never both nor twice, and   *)
(* an approval that carried a hash was meant for the transaction stored,   *)
(* also after a proposal was cancelled and its name used again while the   *)
(* approval was on its way.                                                *)
ApprovedAsMeant ==
    \A n \in Names :
        /\ proposals[n] = NoProposal <=> approvals[n] = NoProposal
        /\ approvals[n] # NoProposal =>
             /\ Given(approvals[n].provided) \cap approvals[n].requested = {}
             /\ \A a, b \in approvals[n].provided : a.level = b.level => a = b
             /\ \A a \in approvals[n].provided : a.hash # NoHash => a.meant = proposals[n].trx

(* The delay of a transaction runs from when enough approvals stood in the *)
(* table, invalidated ones included, without a break: a withdrawal that    *)
(* leaves too few starts it anew, whatever was approved, invalidated and   *)
(* withdrawn before.                                                       *)
DelayServed ==
    \A n \in Names :
        proposals[n] # NoProposal /\ proposals[n].earliest # 0 =>
            /\ enoughSince[n] # 0
            /\ proposals[n].earliest >= enoughSince[n] + Delay[proposals[n].trx]
=============================================================================
