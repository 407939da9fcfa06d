--------------------------- MODULE MCElectedQueue ---------------------------
(***************************************************************************)
(* Instances of ElectedQueue for TLC: two main and three to four backup    *)
(* producers.  The runs leave actions out, to reach all the states of the  *)
(* ones that are left; queue_lost_position takes them all.                 *)
(***************************************************************************)
EXTENDS ElectedQueue

CONSTANTS k1, k2

\* Values of InitialVotes: seven producers, one of them without votes;
\* seven but for the second; six but for the third; eight but for the second,
\* the last of them without votes.
SevenVoted    == <<2, 2, 1, 1, 1, 1, 0>>
SecondMissing == [p \in (1 .. 7) \ {2} |-> IF p <= 3 THEN 2 ELSE 1]
ThirdMissing  == [p \in (1 .. 6) \ {3} |-> 1]
OfEightSecondMissing ==
  [p \in (1 .. 8) \ {2} |-> IF p <= 3 THEN 2 ELSE IF p <= 7 THEN 1 ELSE 0]

\* Votes changed by addvote and subvote; vote is in VotingNext and Next.
ChangingVotes ==
  \E list \in Lists, n \in 1 .. MaxVotes : AddVote(list, n) \/ SubVote(list, n)

\* vote, from a list of at most one producer to another.
SingleVotes(lists) ==
  \E old, new \in {list \in lists : Cardinality(list) <= 1}, n \in 1 .. MaxVotes :
    Vote(old, new, n)

\* All voting and every size of the backup queue.
VotingNext ==
  \/ \E max \in MaxBackups : InitBbpElect(max)
  \/ ChangingVotes
  \/ SingleVotes(Lists)

VotingSpec == Init /\ [][VotingNext]_vars

\* The second producer registers late, behind the queues, and the fourth
\* changes its key while all but the last gain and lose votes.  Before the
\* queues are kept, and after another upgradevote, votes of the third only.
LateLists == Lists \ {{7}}
LateNext ==
  \/ \E list \in LateLists, n \in 1 .. MaxVotes :
       (BbpEnabled \/ list = {3}) /\ (AddVote(list, n) \/ SubVote(list, n))
  \/ BbpEnabled /\ SingleVotes(LateLists)
  \/ BbpEnabled /\ Behind(2) /\ RegisterNew(2, k1)
  \/ BbpEnabled /\ Reregister(4, k2)
  \/ Configuring

\* All begin with the first key.
LateInit == Init /\ \A p \in DOMAIN InitialVotes : table[p].key = k1

LateSpec == LateInit /\ [][LateNext]_vars

\* It registers wherever its name puts it.
UnseenNext ==
  \/ ChangingVotes
  \/ SingleVotes(Lists)
  \/ RegisterNew(2, k1)
  \/ \E max \in MaxBackups : InitBbpElect(max)

UnseenSpec == Init /\ [][UnseenNext]_vars

\* Bound of queue_lost_position: only the third producer comes and goes.
OnlyThirdLeaves == \A p \in Producers \ {3} : table[p].active
=============================================================================
