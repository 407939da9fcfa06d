---------------------------- MODULE ScheduleFeed ----------------------------
(***************************************************************************)
(* What the native system is promised about the schedules of amax.system:  *)
(* it is told complete schedules, each of them decided by the election, in *)
(* the order they were decided in.  Some may be passed over, and a new     *)
(* start drops those not told yet; none is told after a later one or after *)
(* a new start.                                                            *)
(***************************************************************************)
EXTENDS Naturals, Sequences

CONSTANTS Schedules   \* the schedules an election may end with

VARIABLES
  native,   \* the schedule the native system was told last
  pending   \* the schedules decided since, in order

feedVars == <<native, pending>>

FeedInit == native \in Schedules /\ pending = <<>>

Decide(s) == UNCHANGED native /\ pending' = Append(pending, s)

\* Schedules decided before are not told any more.
StartAgain(s) == UNCHANGED native /\ pending' = <<s>>

\* The first n pending schedules are told by telling the last of them.
Announce(n) ==
  /\ native' = pending[n]
  /\ pending' = SubSeq(pending, n + 1, Len(pending))

\* A schedule is told at once, in place of all that are pending.
Replace(s) == native' = s /\ pending' = <<>>

FeedNext ==
  \/ \E s \in Schedules : Decide(s) \/ StartAgain(s) \/ Replace(s)
  \/ \E n \in 1 .. Len(pending) : Announce(n)

Feed == FeedInit /\ [][FeedNext]_feedVars
=============================================================================
