----------------------------- MODULE ChangeLog -----------------------------
(***************************************************************************)
(* The log of schedule changes of amax.system: table electchange, between  *)
(* the votes that append to it (save_producer_changes) and onblock, which  *)
(* once a minute merges a batch of its rows into one set of changes,       *)
(* proposes that to the native system and erases the rows                  *)
(* (update_elected_producer_changes, voting.cpp).                          *)
(*                                                                         *)
(* ElectedQueue models how the changes come about; here the election may   *)
(* move to any of Schedules.  The native system takes one proposal at a    *)
(* time, and refuses others until that one is in force.                    *)
(***************************************************************************)
EXTENDS ScheduleChanges, Sequences

CONSTANTS
  Schedules,        \* schedules [main, backup], maps from names to keys
  MaxFlushRows,     \* max_flush_elected_rows
  MinFlushChanges,  \* min_flush_elected_changes
  MaxSequence,      \* bound on elected_sequence
  MaxChangeId       \* bound on last_producer_change_id

\* The members of a queue with their keys.
Members == UNION {[P -> Keys] : P \in SUBSET Producers}

ASSUME LogAssumption ==
  /\ MaxFlushRows \in Nat \ {0} /\ MinFlushChanges \in Nat \ {0}
  /\ MaxSequence \in Nat /\ MaxChangeId \in Nat
  /\ IsFiniteSet(Producers)
  /\ Schedules \subseteq [main : Members, backup : Members]
  /\ \A s \in Schedules : DOMAIN s.main # {} /\ DOMAIN s.backup # {}

VARIABLES
  version,      \* elected_version
  elected,      \* the schedule the two queues stand for
  interrupted,  \* producer_change_interrupted
  sequence,     \* elected_sequence
  lastId,       \* last_producer_change_id
  log,          \* _elected_changes: rows [id, seq, changes]
  native,       \* the schedule the native system was told last, and whether
                \* all that it was told fitted
  ready         \* whether it takes another proposal

vars == <<version, elected, interrupted, sequence, lastId, log, native, ready>>

Uninit   == 0  \* elected_version before upgradevote and initbbpelect
Disabled == 1  \* ELECTED_VERSION_BBP_DISABLED
Enabled  == 2  \* ELECTED_VERSION_BBP_ENABLED

-----------------------------------------------------------------------------
(* proposed_producer_changes: a change map of each queue, whether it       *)
(* replaces what was scheduled, and the count of producers it leads to.    *)

Queues == {"main", "backup"}
NoProposal ==
  [q \in Queues |-> [clear |-> FALSE, count |-> 0, changes |-> NoChanges]]

\* What a handler may emit when the keys of a queue go from old to new; a
\* producer dropped and added again in the handler is modified to its key.
Emitted(old, new, again) ==
  [p \in Producers |->
     CASE p \in DOMAIN new \ DOMAIN old -> Add(new[p])
       [] p \in DOMAIN old \ DOMAIN new -> Del
       [] p \in DOMAIN old \cap DOMAIN new ->
            IF old[p] # new[p] \/ again THEN Modify(new[p]) ELSE None
       [] OTHER -> None]

Difference(old, new, again) ==
  [q \in Queues |-> [clear |-> FALSE, count |-> Cardinality(DOMAIN new[q]),
                     changes |-> Emitted(old[q], new[q], again)]]

\* reinit_elected_producers: all members are added to a cleared queue
Rebuilt(s) ==
  [q \in Queues |-> [clear |-> TRUE, count |-> Cardinality(DOMAIN s[q]),
                     changes |-> Emitted(<<>>, s[q], FALSE)]]

ChangeSize(c) ==
  Cardinality({e \in Queues \X Producers : c[e[1]].changes[e[2]] # None})

\* A change folded into that of the same producer in earlier rows.
Folded(earlier, c) ==
  CASE c.op = "add"    -> Added(earlier, c.key)
    [] c.op = "modify" -> Modified(earlier, c.key)
    [] c.op = "del"    -> Deleted(earlier)
    [] OTHER           -> earlier

\* producer_change_helper::merge, of one queue and of both
MergedQueue(src, dest) ==
  IF src.clear THEN src
  ELSE [dest EXCEPT !.count = src.count,
                    !.changes = [p \in Producers |->
                                   Folded(dest.changes[p], src.changes[p])]]

Merge(src, dest) == [q \in Queues |-> MergedQueue(src[q], dest[q])]

\* set_proposed_producers_ex: the native system applies what it is proposed.
Fits(s, c) ==
  \A q \in Queues :
    FitsIn(IF c[q].clear THEN <<>> ELSE s[q], c[q].changes, c[q].count)
Applied(s, c) ==
  [main   |-> Apply(IF c["main"].clear THEN <<>> ELSE s.main, c["main"].changes),
   backup |-> Apply(IF c["backup"].clear THEN <<>> ELSE s.backup, c["backup"].changes),
   fit    |-> s.fit /\ Fits(s, c)]

NoQueues == [main |-> <<>>, backup |-> <<>>]
Told(s)  == [main |-> s.main, backup |-> s.backup, fit |-> TRUE]

-----------------------------------------------------------------------------
(* The batch of rows a flush takes from the head of the log.               *)

AnySequence(row, seq) == TRUE  \* mutant: rows of an older sequence, too

Counts(row, seq) == row.seq = seq

\* The element of a set of one: TLC evaluates it only once.
The(S) == CHOOSE x \in S : TRUE

WithRow(merged, row, seq) ==
  IF Counts(row, seq) THEN The({Merge(row.changes, earlier) : earlier \in {merged}})
  ELSE merged

\* What the first n rows come to for each n, merged one after another into an
\* empty proposal, those of another sequence left out.
Merged(rows, seq) ==
  LET merged[n \in 0 .. Len(rows)] ==
        IF n = 0 THEN NoProposal ELSE WithRow(merged[n - 1], rows[n], seq)
  IN  merged

MergedRows(n) == Merged(log, sequence)[n]

\* The loop breaks after the first row that fills the batch.
Fills(n) == n >= MaxFlushRows \/ ChangeSize(MergedRows(n)) >= MinFlushChanges
RowsRead == {n \in 1 .. Len(log) : \A k \in 1 .. n - 1 : ~Fills(k)}
Batch == Cardinality(RowsRead)

WithoutNone(n) == log  \* mutant: the rows told are not erased
WithoutOneMore(n) == SubSeq(log, n + 2, Len(log))  \* mutant: off by one

Without(n) == SubSeq(log, n + 1, Len(log))

-----------------------------------------------------------------------------
(* The handlers.                                                           *)

RowAtLength(seq, changes) ==  \* mutant: numbered by the rows there are
  [id |-> Len(log) + 1, seq |-> seq, changes |-> changes]

Row(seq, changes) == [id |-> lastId + 1, seq |-> seq, changes |-> changes]

\* save_producer_changes of a vote or a new key, which leads to s; while the
\* backup producers are disabled there is no change to save.
Emit(s, again) ==
  LET changes == Difference(elected, s, again)
  IN  /\ version = Enabled /\ ~interrupted
      /\ elected' = s
      /\ IF ChangeSize(changes) = 0 THEN UNCHANGED <<lastId, log>>
         ELSE /\ lastId < MaxChangeId
              /\ lastId' = lastId + 1
              /\ log' = Append(log, Row(sequence, changes))
      /\ UNCHANGED <<version, interrupted, sequence, native, ready>>

\* The changes are dropped, for lack of producers with enough votes.
Drop(s) ==
  /\ version # Uninit /\ (version = Disabled => s = elected)
  /\ elected' = s
  /\ interrupted' = TRUE
  /\ UNCHANGED <<version, sequence, lastId, log, native, ready>>

\* The queues, which initbbpelect has built before, are rebuilt under a new
\* sequence.
Restart(s) ==
  /\ interrupted /\ sequence \in 1 .. MaxSequence - 1 /\ lastId < MaxChangeId
  /\ elected' = s
  /\ interrupted' = FALSE
  /\ sequence' = sequence + 1
  /\ lastId' = lastId + 1
  /\ log' = Append(log, Row(sequence + 1, Rebuilt(s)))
  /\ UNCHANGED <<version, native, ready>>

\* initbbpelect when it rebuilds the queues; it proposes them at once.
InitBbpElect(s) ==
  /\ ready /\ sequence < MaxSequence
  /\ version' = Enabled
  /\ elected' = s
  /\ sequence' = sequence + 1
  /\ native' = Applied(native, Rebuilt(s))
  /\ ready' = FALSE
  /\ UNCHANGED <<interrupted, lastId, log>>

\* update_elected_producers: the main schedule is proposed as a whole, and
\* nothing happens when it is refused.
TellWhole(s) ==
  \/ ready /\ native' = Told([s EXCEPT !.backup = <<>>]) /\ ready' = FALSE
  \/ UNCHANGED <<native, ready>>

\* upgradevote, and onblock as long as backup producers are not elected
UpgradeVote(s) ==
  /\ version' = Disabled
  /\ TellWhole(s)
  /\ UNCHANGED <<elected, interrupted, sequence, lastId, log>>

OnBlockWhole(s) ==
  /\ version # Enabled
  /\ TellWhole(s)
  /\ UNCHANGED <<version, elected, interrupted, sequence, lastId, log>>

\* onblock with backup producers: update_elected_producer_changes.  A row
\* that does not fit those merged before it aborts it.
IsMergeable(c) == \A q \in Queues : ~IsBad(c[q].changes)

FlushMerged ==
  /\ version = Enabled /\ ready /\ log # <<>>
  /\ \E n \in {Batch} : \E changes \in {MergedRows(n)} :
       /\ ChangeSize(changes) > 0 /\ IsMergeable(changes)
       /\ native' = Applied(native, changes)
       /\ log' = Without(n)
  /\ ready' = FALSE
  /\ UNCHANGED <<version, elected, interrupted, sequence, lastId>>

\* When nothing is left after merging, need_erasing is not assigned before it
\* is read: the rows are erased or stay.
FlushEmpty ==
  /\ version = Enabled /\ ready /\ log # <<>>
  /\ \E n \in {Batch} :
       ChangeSize(MergedRows(n)) = 0 /\ log' \in {Without(n), log}
  /\ UNCHANGED <<version, elected, interrupted, sequence, lastId, native, ready>>

\* The schedule proposed last comes into force.
NativeReady ==
  /\ ~ready /\ ready' = TRUE
  /\ UNCHANGED <<version, elected, interrupted, sequence, lastId, log, native>>

Init ==
  /\ version = Uninit
  /\ elected = NoQueues
  /\ interrupted = FALSE
  /\ sequence = 0 /\ lastId = 0 /\ log = <<>>
  /\ \E s \in Schedules : native = Told([s EXCEPT !.backup = <<>>])
  /\ ready = TRUE

Voting == \E s \in Schedules :
  \/ \E again \in BOOLEAN : Emit(s, again)
  \/ Drop(s)
  \/ Restart(s)

Configuring == \E s \in Schedules : InitBbpElect(s) \/ UpgradeVote(s)

OnBlock ==
  \/ \E s \in Schedules : OnBlockWhole(s)
  \/ FlushMerged
  \/ FlushEmpty

Next == Voting \/ Configuring \/ OnBlock \/ NativeReady

Spec == Init /\ [][Next]_vars

\* onblock runs in every block, and what is proposed comes into force; that
\* a batch without changes is erased is left to chance.
FairSpec == Spec /\ WF_vars(FlushMerged) /\ WF_vars(NativeReady)

-----------------------------------------------------------------------------
(* Properties.                                                             *)

Changes == {None, Del} \cup {Add(k) : k \in Keys} \cup {Modify(k) : k \in Keys}
KeyMaps == [Producers -> Changes]
Proposals == [Queues -> [clear : BOOLEAN, count : Nat, changes : KeyMaps]]
LogRows == [id : Nat, seq : Nat, changes : Proposals]

\* Every variable has its type.
TypeOK ==
  /\ version \in {Uninit, Disabled, Enabled}
  /\ elected \in Schedules \cup {NoQueues}
  /\ interrupted \in BOOLEAN /\ ready \in BOOLEAN
  /\ sequence \in Nat /\ lastId \in Nat
  /\ log \in Seq(LogRows)

\* The rows lie in the log in the order they were saved in, each under the
\* sequence of its time (voting.cpp:1343-1348, 1364-1369): a row of a former
\* sequence never comes after one of the present sequence, so that skipping
\* it (voting.cpp:544) never skips over changes that count.
LogOrdered ==
  /\ \A i \in 1 .. Len(log) : log[i].id <= lastId /\ log[i].seq <= sequence
  /\ \A i, j \in 1 .. Len(log) :
       i < j => log[i].id < log[j].id /\ log[i].seq <= log[j].seq

\* The schedules the rows of the present sequence lead to from s, one after
\* another: after[n] with the first n rows of the log.
Led(before, row, seq) ==
  IF row.seq = seq THEN The({Applied(s, row.changes) : s \in {before}}) ELSE before

After(s, rows, seq) ==
  LET after[n \in 0 .. Len(rows)] ==
        IF n = 0 THEN s ELSE Led(after[n - 1], rows[n], seq)
  IN  after

OldRows == Cardinality({n \in 1 .. Len(log) : log[n].seq # sequence})

\* LogOrdered: the rows of older sequences come first.
Pending ==
  IF version = Enabled
  THEN [n \in 1 .. Len(log) - OldRows |-> After(native, log, sequence)[OldRows + n]]
  ELSE <<>>

\* What the native system was told, and the rows still in the log, add up to
\* the elected schedule: no change is lost, told twice or told out of order
\* between the votes that store changes and the batches that merge and erase
\* them (voting.cpp:530-564, 1330-1373).
LogAddsUp ==
  version = Enabled /\ ~interrupted =>
    After(native, log, sequence)[Len(log)] = Told(elected)

\* Whatever rows a batch takes, merging them never runs into one of the
\* CHECKs of producer_change_helper (voting.cpp:71, 96, 120), which would
\* make onblock fail in every block from then on.
FlushNeverAborts ==
  version = Enabled => \A n \in 1 .. Len(log) : IsMergeable(MergedRows(n))

\* The log implements a feed of schedules: see ScheduleFeed.  Merging the
\* rows of a batch tells the same schedule as telling them one by one.
FeedOfSchedules == INSTANCE ScheduleFeed WITH
  Schedules <- {Told(s) : s \in Schedules}
                 \cup {Told([s EXCEPT !.backup = <<>>]) : s \in Schedules},
  pending <- Pending
IsScheduleFeed == FeedOfSchedules!Feed

\* A batch that comes to nothing: it may stay at the head of the log.
BatchIsEmpty ==
  log # <<>> /\ \E n \in {Batch} : ChangeSize(MergedRows(n)) = 0
InLog(id) == \E i \in 1 .. Len(log) : log[i].id = id

\* Every row leaves the log, unless a batch whose rows cancel each other, or
\* belong to a former sequence, stays at its head (voting.cpp:553), or the
\* backup producers are disabled again.
RowsLeaveLog ==
  \A id \in 1 .. MaxChangeId :
    InLog(id) ~> ~InLog(id) \/ BatchIsEmpty \/ version # Enabled
=============================================================================
