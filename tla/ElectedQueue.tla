---------------------------- MODULE ElectedQueue ----------------------------
(***************************************************************************)
(* The election queue of amax.system (voting.cpp): the producers table in  *)
(* the order of its index "electedprod", and the two queues                *)
(* elect_global_state keeps over it.  The main queue covers the first      *)
(* MainCount rows, the backup queue the last_producer_count rows after     *)
(* them.  A queue does not list its members: it stores a copy of its last  *)
(* row (tail), of the row before (prev) and of the row after (next), and   *)
(* process_elected_producer moves those copies each time one producer's    *)
(* votes or signing key change, emitting the changes of the block-producer *)
(* schedule as it goes.                                                    *)
(*                                                                         *)
(* The names are numbers, which gives them the order of eosio::name.  A    *)
(* handler whose check fails aborts its transaction: the action is         *)
(* disabled.  An asset of votes is a number of vote units.                 *)
(***************************************************************************)
EXTENDS ScheduleChanges

CONSTANTS
  MainCount,    \* elect_global_state::max_main_producer_count
  MinBackup,    \* min_backup_producer_count
  MaxBackups,   \* the values initbbpelect is called with
  MinVotes,     \* the values setmprodvote is called with
  InitialVotes, \* the producers registered before the new voting is enabled,
                \* with the votes they have by then
  MaxList,      \* max_vote_producer_count, the length of a voter's list
  MaxVotes      \* bound on one producer's elected votes

ASSUME QueueAssumption ==
  /\ Producers \subseteq Nat \ {0} /\ IsFiniteSet(Producers)
  /\ DOMAIN InitialVotes \subseteq Producers
  /\ \A p \in DOMAIN InitialVotes : InitialVotes[p] \in 0 .. MaxVotes
  /\ MainCount \in Nat /\ MainCount >= 2
  /\ MinBackup \in Nat /\ MinBackup >= 3
  /\ MaxBackups \subseteq Nat /\ \A n \in MaxBackups : n >= MinBackup
  /\ MinVotes \subseteq Nat \ {0}
  /\ MaxList \in Nat /\ MaxVotes \in Nat

VARIABLES
  table,       \* _producers: row per registered producer, or NoRow
  version,     \* elected_version
  maxBackup,   \* max_backup_producer_count
  minVotes,    \* min_producer_votes
  meq,         \* main_elected_queue
  beq,         \* backup_elected_queue
  interrupted, \* producer_change_interrupted
  sched        \* the schedule the emitted changes add up to, NoSchedule when
               \* they were interrupted and add up to none

vars == <<table, version, maxBackup, minVotes, meq, beq, interrupted, sched>>
config == <<version, maxBackup, minVotes>>

Uninit   == 0  \* elected_version before upgradevote and initbbpelect
Disabled == 1  \* ELECTED_VERSION_BBP_DISABLED
Enabled  == 2  \* ELECTED_VERSION_BBP_ENABLED

-----------------------------------------------------------------------------
(* Rows of the producers table and the copies of them the queues hold.     *)

NoRow  == [votes |-> 0, active |-> FALSE, key |-> NoKey, registered |-> FALSE]
Row(votes, key) ==
  [votes |-> votes, active |-> TRUE, key |-> key, registered |-> TRUE]

\* producer_elected_info after clear()
NoInfo == [name |-> 0, votes |-> 0, key |-> NoKey]

\* get_elected_info: a copy of a row; it does not copy the row's is_active,
\* and its own is_active stays TRUE.
Info(tbl, p) == [name |-> p, votes |-> tbl[p].votes, key |-> tbl[p].key]

\* operator> of producer_elected_info; operator== ignores the authority.
Above(a, b)   == \/ a.votes > b.votes
                 \/ a.votes = b.votes /\ a.name < b.name
SameRank(a, b) == a.votes = b.votes /\ a.name = b.name
AtLeast(a, b) == Above(a, b) \/ SameRank(a, b)

\* The order of index "electedprod": active rows first, each group by votes
\* descending, then by name.
Precedes(tbl, p, q) ==
  \/ tbl[p].active /\ ~tbl[q].active
  \/ /\ tbl[p].active = tbl[q].active
     /\ Above(Info(tbl, p), Info(tbl, q))

Rows(tbl) == {p \in Producers : tbl[p].registered}
Before(tbl, p) == {q \in Rows(tbl) : Precedes(tbl, q, p)}
After(tbl, p)  == {q \in Rows(tbl) : Precedes(tbl, p, q)}
LastRow(tbl, S)  == CHOOSE p \in S : \A q \in S \ {p} : Precedes(tbl, q, p)
FirstRow(tbl, S) == CHOOSE p \in S : \A q \in S \ {p} : Precedes(tbl, p, q)

\* The row at a position of the index, counted from 1.
RankOf(tbl, p) == Cardinality(Before(tbl, p)) + 1

\* is_prod_votes_valid
Valid(info, min) == info.votes > 0 /\ info.votes >= min

\* get_pos_itr: lower_bound at the (active) position of the info; the check
\* and the ASSERT pass when the row found there is the producer's own: every
\* other row lies before that position or after that row.
PositionFound(tbl, i) ==
  /\ i.name \in Rows(tbl) /\ tbl[i.name].votes = i.votes
  /\ tbl[i.name].active \/
       \A q \in Rows(tbl) \ {i.name} : \/ tbl[q].active /\ Above(Info(tbl, q), i)
                                     \/ Precedes(tbl, i.name, q)

\* The row fetch_prev and fetch_next read, NoInfo when there is none.
PrevInfo(tbl, i) == IF Before(tbl, i.name) = {} THEN NoInfo
                    ELSE Info(tbl, LastRow(tbl, Before(tbl, i.name)))
NextInfo(tbl, i) == IF After(tbl, i.name) = {} THEN NoInfo
                    ELSE Info(tbl, FirstRow(tbl, After(tbl, i.name)))

\* fetch_prev and fetch_next with check_found: they abort unless the tail is
\* found and its neighbour i exists and lies on the right side of it.
PrevFound(tbl, tail, i) == PositionFound(tbl, tail) /\ i # NoInfo /\ Above(i, tail)
NextFound(tbl, tail, i) == PositionFound(tbl, tail) /\ i # NoInfo /\ Above(tail, i)

-----------------------------------------------------------------------------
(* process_elected_producer, for one producer whose row went from old to   *)
(* new.  A work record w carries the two queues, the changes of both and   *)
(* ok, FALSE once a check has failed.  Refetch stands for a copy that is   *)
(* read from the index again at the end (the refresh_* flags).             *)

Refetch == [NoInfo EXCEPT !.votes = -1]

\* The ASSERTs at the head of the handler.
Sound(w) ==
  /\ w.m.count + w.b.count >= MainCount + MinBackup
  /\ w.m.tail # NoInfo /\ w.m.prev # NoInfo
  /\ w.b.tail # NoInfo /\ w.b.prev # NoInfo /\ w.b.next # NoInfo
  /\ Above(w.m.next, w.b.prev)
  /\ w.m.count > 0

\* Backup producers are let go only above the minimum, and then only for the
\* lack of votes.
Keeps(w, info) == Valid(info, minVotes) \/ w.b.count = MinBackup
HasRoom(w) == w.b.count < maxBackup

\* The producer was in the main queue and stays there.
StayInMain(w, old, new) ==
  LET m == w.m
      moved ==
        IF AtLeast(new, m.prev) THEN
          IF new.name = m.prev.name THEN [m EXCEPT !.prev = Refetch]
          ELSE IF new.name = m.tail.name
            THEN [m EXCEPT !.tail = m.prev, !.prev = Refetch]
          ELSE m
        ELSE IF new.name = m.tail.name THEN [m EXCEPT !.tail = new]
        ELSE IF ~AtLeast(new, m.tail)
          THEN [m EXCEPT !.prev = m.tail, !.tail = new]
        ELSE IF new.name = m.prev.name THEN [m EXCEPT !.prev = new]
        ELSE [m EXCEPT !.prev = Refetch]
  IN  [w EXCEPT !.m = moved,
                !.mc = IF new.key # old.key THEN ModifyChange(@, new) ELSE @]

\* It was in the main queue and falls below the first backup, who replaces it.
FallFromMain(w, new) ==
  LET m == w.m
      b == w.b
      u == [w EXCEPT
             !.m = [m EXCEPT !.prev = IF new.name # m.tail.name THEN m.tail ELSE @,
                             !.tail = m.next, !.next = Refetch],
             !.mc = AddChange(DelChange(@, new), m.next),
             !.bc = DelChange(@, m.next)]
  IN  IF Above(new, b.tail) THEN
        [u EXCEPT !.b.prev = IF Above(b.prev, new) THEN new ELSE @,
                  !.bc = AddChange(@, new)]
      ELSE IF Above(new, b.next) THEN
        IF Keeps(w, new)
        THEN [u EXCEPT !.bc = AddChange(@, new),
                       !.b.prev = b.tail, !.b.tail = new]
        ELSE [u EXCEPT !.b.next = new, !.b.count = b.count - 1]
      ELSE
        IF Keeps(w, b.next)
        THEN [u EXCEPT !.bc = AddChange(@, b.next), !.b.prev = b.tail,
                       !.b.tail = b.next, !.b.next = Refetch]
        ELSE [u EXCEPT !.b.count = b.count - 1]

\* It enters the main queue from below; the main tail becomes first backup.
IntoMain(w, tbl, old, new) ==
  LET m == w.m
      b == w.b
      u == [w EXCEPT
             !.mc = AddChange(DelChange(@, m.tail), new),
             !.bc = AddChange(@, m.tail),
             !.m = [m EXCEPT
                     !.next = m.tail,
                     !.tail = IF Above(new, m.prev) THEN m.prev ELSE new,
                     !.prev = IF Above(new, m.prev) THEN Refetch ELSE @]]
      \* the successor of the tail is read at once when the producer was it
      wasNext == SameRank(old, b.next)
      next == IF HasRoom(w) /\ wasNext THEN NextInfo(tbl, b.tail) ELSE b.next
      nextOk == HasRoom(w) /\ wasNext =>
                  /\ PositionFound(tbl, b.tail)
                  /\ next # NoInfo => Above(b.tail, next)
      popTail == ~HasRoom(w) \/ next = NoInfo
  IN  IF AtLeast(old, b.tail) THEN
        [u EXCEPT !.bc = DelChange(@, new),
                  !.b.tail = IF SameRank(old, b.tail) THEN b.prev ELSE @,
                  !.b.prev = IF SameRank(old, b.prev) \/ SameRank(old, b.tail)
                             THEN Refetch ELSE @]
      ELSE IF popTail THEN
        [u EXCEPT !.bc = DelChange(@, b.tail), !.ok = @ /\ nextOk,
                  !.b = [b EXCEPT !.next = b.tail, !.tail = b.prev,
                                  !.prev = Refetch]]
      ELSE [u EXCEPT !.b.next = next, !.b.count = b.count + 1,
                     !.ok = @ /\ nextOk]

StayInPlace(w, old) == w  \* mutant: the copies are left as they are

\* w with the copies of queue rows that the producer's row backed before
\* dropped: what each branch below does when the producer left its place.
LeavePlace(w, old) ==
  IF SameRank(old, w.b.tail)
  THEN [w EXCEPT !.b.tail = w.b.prev, !.b.prev = Refetch]
  ELSE IF SameRank(old, w.b.prev) THEN [w EXCEPT !.b.prev = Refetch]
  ELSE IF SameRank(old, w.m.next) THEN [w EXCEPT !.m.next = Refetch]
  ELSE w

\* It was in the backup queue and stays below the main queue.
MoveInBackup(w, old, new) ==
  LET m == w.m
      b == w.b
      wasTail == SameRank(old, b.tail)
      wasPrev == SameRank(old, b.prev)
      wasMainNext == SameRank(old, m.next)
      keyed(u) == [u EXCEPT !.bc = IF new.key # old.key
                                   THEN ModifyChange(@, new) ELSE @]
  IN  IF AtLeast(new, m.next) THEN
        keyed([w EXCEPT !.m.next = new,
                        !.b.tail = IF wasTail THEN b.prev ELSE @,
                        !.b.prev = IF wasTail \/ wasPrev THEN Refetch ELSE @])
      ELSE IF AtLeast(new, b.prev) THEN
        keyed(IF ~wasMainNext /\ wasPrev /\ SameRank(new, b.prev) THEN w
              ELSE [w EXCEPT
                     !.m.next = IF wasMainNext THEN Refetch ELSE @,
                     !.b.tail = IF ~wasMainNext /\ wasTail THEN b.prev ELSE @,
                     !.b.prev = IF ~wasMainNext /\ (wasTail \/ wasPrev)
                                THEN Refetch ELSE @])
      ELSE IF AtLeast(new, b.tail) THEN
        keyed(IF wasTail THEN [w EXCEPT !.b.tail = new]
              ELSE [w EXCEPT !.b.prev = new,
                             !.m.next = IF wasMainNext THEN Refetch ELSE @])
      ELSE IF Above(new, b.next) THEN
        IF Keeps(w, new)
        THEN keyed([w EXCEPT
                     !.b.prev = IF wasTail THEN @ ELSE b.tail, !.b.tail = new,
                     !.m.next = IF ~wasTail /\ wasMainNext THEN Refetch ELSE @])
        ELSE [LeavePlace(w, old) EXCEPT !.b.next = new, !.b.count = @ - 1,
                                        !.bc = DelChange(@, new)]
      ELSE IF Keeps(w, b.next)
        THEN [w EXCEPT
               !.b.prev = IF wasTail THEN @ ELSE b.tail,
               !.b.tail = b.next, !.b.next = Refetch,
               !.m.next = IF wasMainNext THEN Refetch ELSE @,
               !.bc = AddChange(DelChange(@, new), b.next)]
        ELSE [LeavePlace(w, old) EXCEPT !.b.count = @ - 1,
                                        !.bc = DelChange(@, new)]

\* It was below the backup queue and stays below the main queue.
MoveOutside(w, old, new) ==
  LET m == w.m
      b == w.b
      wasNext == SameRank(old, b.next)
      grows(i) == HasRoom(w) /\ ~wasNext /\ Valid(i, minVotes)
  IN  IF AtLeast(new, b.tail) THEN
        LET added == [w EXCEPT !.bc = AddChange(@, new),
                               !.ok = @ /\ ~SameRank(new, b.tail)]
            first == IF Above(new, m.next) THEN new ELSE m.next
        IN  IF grows(b.tail) THEN
              [added EXCEPT !.b.count = @ + 1,
                            !.b.prev = IF Above(b.prev, new) THEN new ELSE @,
                            !.m.next = IF Above(b.prev, new) THEN @ ELSE first]
            ELSE IF Above(b.prev, new) THEN
              [added EXCEPT !.bc = DelChange(@, b.tail),
                            !.b = [b EXCEPT !.next = b.tail, !.tail = new]]
            ELSE
              [added EXCEPT !.bc = DelChange(@, b.tail), !.m.next = first,
                            !.b = [b EXCEPT !.next = b.tail, !.tail = b.prev,
                                            !.prev = Refetch]]
      ELSE IF AtLeast(new, b.next) THEN
        IF grows(new)
        THEN [w EXCEPT !.bc = AddChange(@, new),
                       !.b = [b EXCEPT !.count = b.count + 1,
                                       !.prev = b.tail, !.tail = new]]
        ELSE [w EXCEPT !.b.next = new]
      ELSE IF grows(b.next)
        THEN [w EXCEPT !.bc = AddChange(@, b.next),
                       !.b = [b EXCEPT !.count = b.count + 1, !.prev = b.tail,
                                       !.tail = b.next, !.next = Refetch]]
      ELSE IF wasNext THEN [w EXCEPT !.b.next = Refetch]
      ELSE w

Moved(w, tbl, old, new) ==
  IF AtLeast(old, w.m.tail) THEN
    IF AtLeast(new, w.m.tail) \/ Above(new, w.m.next)
    THEN StayInMain(w, old, new) ELSE FallFromMain(w, new)
  ELSE IF Above(new, w.m.tail) THEN IntoMain(w, tbl, old, new)
  ELSE IF AtLeast(old, w.b.tail) THEN MoveInBackup(w, old, new)
  ELSE MoveOutside(w, old, new)

\* The refresh_* steps: every copy still marked is read from the index, and
\* must be found there.
Reread(q, tbl) ==
  [q EXCEPT !.prev = IF @ = Refetch THEN PrevInfo(tbl, q.tail) ELSE @,
            !.next = IF @ = Refetch THEN NextInfo(tbl, q.tail) ELSE @]
RereadFound(q, tbl) ==
  /\ q.prev = Refetch => PrevFound(tbl, q.tail, PrevInfo(tbl, q.tail))
  /\ q.next = Refetch => NextFound(tbl, q.tail, NextInfo(tbl, q.tail))

Refetched(w, tbl) ==
  [w EXCEPT !.m = Reread(w.m, tbl), !.b = Reread(w.b, tbl),
            !.ok = /\ @ /\ RereadFound(w.m, tbl) /\ RereadFound(w.b, tbl)
                   /\ ~IsBad(w.mc) /\ ~IsBad(w.bc)]

\* process_elected_producer, tbl being the table with the new row in it
Process(w, tbl, old, new) ==
  IF w.ok /\ Sound(w) THEN Refetched(Moved(w, tbl, old, new), tbl)
  ELSE [w EXCEPT !.ok = FALSE]

Work == [m |-> meq, b |-> beq, mc |-> NoChanges, bc |-> NoChanges, ok |-> TRUE]

-----------------------------------------------------------------------------
(* reinit_elected_producers: both queues rebuilt from the top of the index *)

\* The rows that are active and have enough votes: they lead the index, and
\* the loop of the handler breaks at the first row that is not one of them.
Leading(tbl) ==
  {p \in Rows(tbl) : tbl[p].active /\ Valid(Info(tbl, p), minVotes)}
AtRank(tbl, n) == CHOOSE p \in Rows(tbl) : RankOf(tbl, p) = n
InfoAt(tbl, n) == Info(tbl, AtRank(tbl, n))
RankedKeys(tbl, first, last) ==
  [p \in {q \in Rows(tbl) : RankOf(tbl, q) \in first .. last} |-> tbl[p].key]

CanReinit(tbl) == Cardinality(Leading(tbl)) > MainCount + MinBackup
QueueAt(tbl, first, last) ==
  [count |-> last - first + 1, tail |-> InfoAt(tbl, last),
   prev |-> InfoAt(tbl, last - 1), next |-> InfoAt(tbl, last + 1)]
InitialMain(tbl)   == QueueAt(tbl, 1, MainCount)
InitialBackup(tbl) == QueueAt(tbl, MainCount + 1, MainCount + MinBackup)

-----------------------------------------------------------------------------
(* The schedule the changes add up to; changes that do not fit it make it  *)
(* unfit.                                                                  *)

NoSchedule == [main |-> <<>>, backup |-> <<>>, fit |-> TRUE]

AppliedTo(s, w) ==
  [main   |-> Apply(s.main, w.mc),
   backup |-> Apply(s.backup, w.bc),
   fit    |-> /\ s.fit
              /\ FitsIn(s.main, w.mc, w.m.count)
              /\ FitsIn(s.backup, w.bc, w.b.count)]

InitialSchedule(tbl) ==
  [main   |-> RankedKeys(tbl, 1, MainCount),
   backup |-> RankedKeys(tbl, MainCount + 1, MainCount + MinBackup),
   fit    |-> TRUE]

\* save_producer_changes: what the handler keeps of the work w.
EnoughAbove(w) ==   \* mutant: resumed one producer too late
  w.b.count > MinBackup /\ Valid(w.b.tail, minVotes)

Lacking(w) == w.b.count <= MinBackup /\ ~Valid(w.b.tail, minVotes)
Enough(w)  == w.b.count >= MinBackup /\ Valid(w.b.tail, minVotes)

\* the changes were interrupted and the queues can be rebuilt
Restart(w, tbl) ==
  /\ interrupted /\ Enough(w) /\ CanReinit(tbl)
  /\ meq' = InitialMain(tbl) /\ beq' = InitialBackup(tbl)
  /\ sched' = InitialSchedule(tbl)
  /\ interrupted' = FALSE

\* they are dropped, and will be until then
Drop(w, tbl) ==
  /\ IF interrupted THEN ~(Enough(w) /\ CanReinit(tbl)) ELSE Lacking(w)
  /\ meq' = w.m /\ beq' = w.b
  /\ sched' = NoSchedule
  /\ interrupted' = TRUE

\* they are appended to _elected_changes, unless there are none
Emit(w) ==
  /\ ~interrupted /\ ~Lacking(w)
  /\ meq' = w.m /\ beq' = w.b
  /\ sched' = IF IsEmpty(w.mc) /\ IsEmpty(w.bc) THEN sched ELSE AppliedTo(sched, w)
  /\ UNCHANGED interrupted

Save(w, tbl) ==
  /\ table' = tbl /\ UNCHANGED config
  /\ IF version = Uninit THEN UNCHANGED <<meq, beq, interrupted, sched>>
     ELSE Restart(w, tbl) \/ Drop(w, tbl) \/ Emit(w)

-----------------------------------------------------------------------------
(* The actions of the contract.                                            *)

NoQueue == [count |-> 0, tail |-> NoInfo, prev |-> NoInfo, next |-> NoInfo]

\* the checks of update_producer_elected_votes on the row of a voted producer
VotesAllowed(row) == row.registered /\ row.votes >= 0

\* update_producer_elected_votes, one producer of the list: st pairs the
\* table with the work done so far.
UpdateOne(st, p, delta) ==
  LET old == Info(st.tbl, p)
      tbl == [st.tbl EXCEPT ![p].votes = @ + delta]
  IN  [tbl |-> tbl,
       w   |-> IF ~VotesAllowed(tbl[p]) THEN [st.w EXCEPT !.ok = FALSE]
               ELSE IF version = Enabled THEN Process(st.w, tbl, old, Info(tbl, p))
               ELSE st.w]

\* the whole list, in the order of the names
LastName(S) == CHOOSE p \in S : \A q \in S : q <= p
UpdateVotes(st, list, delta) ==
  LET Updated[S \in SUBSET list] ==
        IF S = {} THEN st
        ELSE UpdateOne(Updated[S \ {LastName(S)}], LastName(S), delta)
  IN  Updated[list]

Start == [tbl |-> table, w |-> Work]

\* The voter lists; the contract wants them sorted and without duplicates.
Lists == {S \in SUBSET Producers : Cardinality(S) <= MaxList}

\* addvote of a voter whose list is not empty
AddVote(list, n) ==
  /\ list # {}
  /\ \A p \in list : table[p].votes + n <= MaxVotes
  /\ \E st \in {UpdateVotes(Start, list, n)} : st.w.ok /\ Save(st.w, st.tbl)

\* subvote
SubVote(list, n) ==
  \E st \in {UpdateVotes(Start, list, -n)} : st.w.ok /\ Save(st.w, st.tbl)

\* vote: the handler compares iterators of two different vectors, so no
\* producer is ever found in both lists: all the old ones lose the votes and
\* then all the new ones, active or not, gain them.
Vote(old, new, n) ==
  /\ old # new
  /\ \A p \in new \ old : table[p].votes + n <= MaxVotes
  /\ \E st \in {UpdateVotes(UpdateVotes(Start, old, -n), new, n)} :
       st.w.ok /\ Save(st.w, st.tbl)

\* register_producer of an account without a row: the queues are not told.
RegisterNew(p, key) ==
  /\ ~table[p].registered
  /\ table' = [table EXCEPT ![p] = Row(0, key)]
  /\ UNCHANGED <<config, meq, beq, interrupted, sched>>

\* register_producer of an account with a row: activates it, sets its key.
Reregister(p, key) ==
  /\ table[p].registered
  /\ LET tbl == [table EXCEPT ![p] = Row(@.votes, key)]
         w   == Process(Work, tbl, Info(table, p), Info(tbl, p))
     IN  IF version = Enabled THEN w.ok /\ Save(w, tbl)
         ELSE /\ table' = tbl
              /\ UNCHANGED <<config, meq, beq, interrupted, sched>>

\* unregprod and rmvproducer: the queues are not told.
Deactivate(p) ==
  /\ table[p].registered
  /\ table' = [table EXCEPT ![p].active = FALSE, ![p].key = NoKey]
  /\ UNCHANGED <<config, meq, beq, interrupted, sched>>

\* upgradevote, which may be called again after initbbpelect
UpgradeVote ==
  /\ version' = Disabled
  /\ UNCHANGED <<table, maxBackup, minVotes, meq, beq, interrupted, sched>>

\* setmprodvote: the queues are not told.
SetMinProducerVotes(n) ==
  /\ n # minVotes
  /\ minVotes' = n
  /\ UNCHANGED <<table, version, maxBackup, meq, beq, interrupted, sched>>

\* initbbpelect rebuilds the queues when they were not kept so far, or when
\* the backup queue may be too long now.
ReinitOnEnabling(max) == version < Enabled  \* mutant: one of the two reasons
NeedReinit(max) == version < Enabled \/ max < maxBackup

\* initbbpelect: producer_change_interrupted keeps its value.
InitBbpElect(max) ==
  LET reinit == NeedReinit(max)
  IN  /\ reinit => CanReinit(table)
      /\ version' = Enabled
      /\ maxBackup' = max
      /\ meq' = IF reinit THEN InitialMain(table) ELSE meq
      /\ beq' = IF reinit THEN InitialBackup(table) ELSE beq
      /\ sched' = IF reinit THEN InitialSchedule(table) ELSE sched
      /\ UNCHANGED <<table, minVotes, interrupted>>

Init ==
  /\ \E k \in Keys : table = [p \in Producers |->
                                IF p \in DOMAIN InitialVotes
                                THEN Row(InitialVotes[p], k) ELSE NoRow]
  /\ version = Uninit
  /\ maxBackup \in MaxBackups
  /\ minVotes \in MinVotes
  /\ meq = NoQueue /\ beq = NoQueue
  /\ interrupted = FALSE
  /\ sched = NoSchedule

Voting ==
  \E list \in Lists, n \in 1 .. MaxVotes :
    \/ AddVote(list, n)
    \/ SubVote(list, n)
    \/ \E new \in Lists : Vote(list, new, n)

Registering ==
  \E p \in Producers, k \in Keys : RegisterNew(p, k) \/ Reregister(p, k)

Configuring ==
  \/ UpgradeVote
  \/ \E n \in MinVotes : SetMinProducerVotes(n)
  \/ \E max \in MaxBackups : InitBbpElect(max)

Next ==
  \/ Voting
  \/ Registering
  \/ \E p \in Producers : Deactivate(p)
  \/ Configuring

Spec == Init /\ [][Next]_vars

\* Part of the behaviours: the producers are those of the beginning, with the
\* keys and the activity they began with.
ElectionSpec == Init /\ [][Voting \/ Configuring]_vars

\* A larger part, still without deactivation: producers register, with a row
\* that comes behind those the queues hold copies of, and change their keys.
\* Nothing in the code asks for the former: see ScheduleConsistent.
Behind(p) == version = Enabled => Above(beq.next, [name |-> p, votes |-> 0])
RegisteringBehind ==
  \E p \in Producers, k \in Keys :
    (Behind(p) /\ RegisterNew(p, k)) \/ Reregister(p, k)

RegistrationSpec == Init /\ [][Voting \/ Configuring \/ RegisteringBehind]_vars

-----------------------------------------------------------------------------
(* Properties.                                                             *)

BbpEnabled == version = Enabled
MainLast   == MainCount
BackupLast == MainCount + beq.count

\* Once backup producers are elected, the copies the queues hold are those of
\* the rows around the two boundaries of the index, up to date: what the many
\* branches of process_elected_producer (voting.cpp:1013-1298) patch together
\* incrementally is what a fresh scan of the index would read.
QueuePositions ==
  BbpEnabled =>
    /\ meq.count = MainCount
    /\ meq.prev = InfoAt(table, MainLast - 1)
    /\ meq.tail = InfoAt(table, MainLast)
    /\ meq.next = InfoAt(table, MainLast + 1)
    /\ beq.prev = InfoAt(table, BackupLast - 1)
    /\ beq.tail = InfoAt(table, BackupLast)
    /\ beq.next = InfoAt(table, BackupLast + 1)

\* The same, up to the keys, when producers register behind the queues and
\* change their signing keys: a branch that takes two equal positions for no
\* move (voting.cpp:1157) leaves a copy with the replaced key, and the copies
\* are patched from each other (voting.cpp:1013-1298), yet each stays a copy of
\* the row of its place with the votes of that row.
SameRow(copy, row) == copy.name = row.name /\ copy.votes = row.votes
QueueRows ==
  BbpEnabled =>
    /\ meq.count = MainCount
    /\ SameRow(meq.prev, InfoAt(table, MainLast - 1))
    /\ SameRow(meq.tail, InfoAt(table, MainLast))
    /\ SameRow(meq.next, InfoAt(table, MainLast + 1))
    /\ SameRow(beq.prev, InfoAt(table, BackupLast - 1))
    /\ SameRow(beq.tail, InfoAt(table, BackupLast))
    /\ SameRow(beq.next, InfoAt(table, BackupLast + 1))

\* The changes emitted to the native schedule (add, modify, del, each of which
\* must fit what is there) add up to exactly this: the main producers are the
\* first MainCount of the index, the backup producers the next beq.count, each
\* with the signing key of its row.
ScheduleIsTop ==
  BbpEnabled /\ ~interrupted =>
    /\ sched.fit
    /\ sched.main = RankedKeys(table, 1, MainLast)
    /\ sched.backup = RankedKeys(table, MainLast + 1, BackupLast)

\* ScheduleIsTop as far as it holds when producers change their signing keys:
\* the right producers are scheduled, and the main ones under current keys.
ScheduleMembersAreTop ==
  BbpEnabled /\ ~interrupted =>
    /\ sched.fit
    /\ sched.main = RankedKeys(table, 1, MainLast)
    /\ DOMAIN sched.backup = DOMAIN RankedKeys(table, MainLast + 1, BackupLast)

\* The emitted changes fit the schedule they are applied to and no producer is
\* scheduled both as main and as backup: what the merge of the test
\* amax.producer_change_tests.cpp:276-333 expects of any changes. It holds as
\* long as producers register behind the queues; one who registers between the
\* last backup producers is never seen by them.
ScheduleConsistent ==
  /\ sched.fit
  /\ DOMAIN sched.main \cap DOMAIN sched.backup = {}

\* The backup queue never shrinks below min_backup_producer_count nor grows
\* above max_backup_producer_count, whatever the order of votes,
\* registrations and configuration changes.
QueueCounts ==
  BbpEnabled => meq.count = MainCount /\ beq.count \in MinBackup .. maxBackup

\* While no producer is deactivated and those who register come behind the
\* queues, the queue never makes a vote fail: every change of a producer's votes
\* gets through the checks and ASSERTs of process_elected_producer and of the
\* change maps (voting.cpp:71, 96, 120, 165).
VotesNeverRefused ==
  BbpEnabled =>
    \A p \in Rows(table), n \in 0 .. MaxVotes :
      UpdateOne(Start, p, n - table[p].votes).w.ok

\* A vote interrupts the changes only if the producers with enough votes do not
\* fill the main queue and the smallest backup queue, and leaves them interrupted
\* only if they do not fill the queues as they are or are too few for
\* reinit_elected_producers: the decision taken on two fields of the backup
\* queue (voting.cpp:1336-1358) never freezes a schedule that the whole index
\* could supply, and keeps one frozen only while a backup producer lacks votes.
InterruptedOnlyWhenShort ==
  [][BbpEnabled /\ table' # table /\ interrupted' =>
       \/ Cardinality(Leading(table')) < MainCount + MinBackup
       \/ /\ interrupted
          /\ \/ Cardinality(Leading(table')) = MainCount + MinBackup
             \/ Cardinality(Leading(table')) < MainCount + beq'.count]_vars

\* get_pos_itr (voting.cpp:165) claims that the rows the tails are copies of
\* are found at their positions of the index.
TailPositionsFound ==
  BbpEnabled => PositionFound(table, meq.tail) /\ PositionFound(table, beq.tail)
=============================================================================
