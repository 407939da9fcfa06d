------------------------- MODULE ElectedQueueProofs -------------------------
(***************************************************************************)
(* Theorems about the election queue, for any producers, votes, sizes of   *)
(* the queues and order of votes and settings (ElectionSpec): the copies   *)
(* of rows the queues hold are those a scan of the index would read, the   *)
(* emitted changes add up to the top of the index, and the changes are     *)
(* interrupted only for a lack of votes.                                   *)
(*                                                                         *)
(* The order of the rows and their ranks come first; then what it takes    *)
(* for changes to turn one set of members into another; then what one      *)
(* moved row does to two rows next to each other, to the rows above one    *)
(* and so to the three copies of a queue. With these, each branch of       *)
(* process_elected_producer is shown to keep a transaction under way       *)
(* Fitting, and the list of a voter and save_producer_changes follow. A    *)
(* step of a branch says what the handler writes (from its definition),    *)
(* where the producer can be then (from the order alone), what that makes  *)
(* of the queue (one of the lemmas on shapes) and how many members there   *)
(* are.                                                                    *)
(*                                                                         *)
(* The sizes of the queues come next: they hold whatever producers do      *)
(* (Spec), so their proof asks nothing of the table or of the copies.      *)
(*                                                                         *)
(* Last come producers who register, with a row behind those the queues    *)
(* know, and who change their keys (RegistrationSpec). A changed key may   *)
(* leave the backup queue with a copy under the replaced one, which is     *)
(* copied on. So a work with such copies is compared with its twin, whose  *)
(* copies are up to date and to which the lemmas above apply: every branch *)
(* reads ranks, names and counts of the copies, never a key, and so it     *)
(* takes twins to twins. The places of the copies, the members of the      *)
(* schedule and the success of every vote carry over; only the keys of the *)
(* backup producers do not.                                                *)
(***************************************************************************)
EXTENDS ElectedQueue, Sums, TLAPS

-----------------------------------------------------------------------------
(* The order of the rows.  While all registered producers are active, the  *)
(* index is the order Above of their infos.                                *)

RowType == [votes : Int, active : BOOLEAN, key : Keys \cup {NoKey}, registered : BOOLEAN]
Settled(T) == T \in [Producers -> RowType] /\ \A p \in Rows(T) : T[p].active

LEMMA RowsAreFinite ==
  ASSUME NEW T
  PROVE  IsFiniteSet(Rows(T)) /\ Rows(T) \subseteq Producers
<1>1. Rows(T) \subseteq Producers
  BY DEF Rows
<1> QED  BY <1>1, QueueAssumption, FS_Subset DEF QueueAssumption

LEMMA InfoIs ==
  ASSUME NEW T, Settled(T), NEW p \in Rows(T)
  PROVE  /\ Info(T, p).name = p /\ Info(T, p).votes = T[p].votes /\ Info(T, p).key = T[p].key
         /\ p \in Int /\ p > 0 /\ T[p].votes \in Int
<1>1. p \in Producers /\ T[p] \in RowType
  BY DEF Settled, Rows
<1>2. p \in Nat \ {0}
  BY <1>1, QueueAssumption DEF QueueAssumption
<1> QED  BY <1>1, <1>2 DEF Info, RowType

\* Above is a strict order of infos, total on those of one table.
Comparable(a) == a.votes \in Int /\ a.name \in Int

LEMMA AboveOrders ==
  ASSUME NEW a, NEW b, NEW c, Comparable(a), Comparable(b), Comparable(c)
  PROVE  /\ ~ Above(a, a)
         /\ Above(a, b) /\ Above(b, c) => Above(a, c)
         /\ Above(a, b) => ~ Above(b, a)
         /\ a.name # b.name => Above(a, b) \/ Above(b, a)
BY DEF Above, Comparable

LEMMA AtLeastOrders ==
  ASSUME NEW a, NEW b, NEW c, Comparable(a), Comparable(b), Comparable(c)
  PROVE  /\ AtLeast(a, a)
         /\ AtLeast(a, b) /\ Above(b, c) => Above(a, c)
         /\ Above(a, b) /\ AtLeast(b, c) => Above(a, c)
         /\ AtLeast(a, b) /\ AtLeast(b, c) => AtLeast(a, c)
         /\ AtLeast(a, b) <=> ~ Above(b, a)
         /\ a.name # b.name => (AtLeast(a, b) <=> Above(a, b))
BY DEF Above, AtLeast, SameRank, Comparable

LEMMA InfosCompare ==
  ASSUME NEW T, Settled(T), NEW p \in Rows(T)
  PROVE  Comparable(Info(T, p))
BY InfoIs DEF Comparable

LEMMA BeforeIs ==
  ASSUME NEW T, Settled(T), NEW p \in Rows(T)
  PROVE  Before(T, p) = {q \in Rows(T) : Above(Info(T, q), Info(T, p))}
BY DEF Before, Precedes, Settled

LEMMA AfterIs ==
  ASSUME NEW T, Settled(T), NEW p \in Rows(T)
  PROVE  After(T, p) = {q \in Rows(T) : Above(Info(T, p), Info(T, q))}
BY DEF After, Precedes, Settled

LEMMA BeforeIsFinite ==
  ASSUME NEW T, NEW p
  PROVE  IsFiniteSet(Before(T, p)) /\ Cardinality(Before(T, p)) \in Nat
<1>1. Before(T, p) \subseteq Rows(T)
  BY DEF Before
<1> QED  BY <1>1, RowsAreFinite, FS_Subset, FS_CardinalityType

\* The infos of rows, next to each other in the index.
IsRow(T, i) == i.name \in Rows(T) /\ i = Info(T, i.name)
NextTo(T, a, b) ==
  /\ IsRow(T, a) /\ IsRow(T, b) /\ Above(a, b)
  /\ \A c \in Rows(T) : ~ (Above(a, Info(T, c)) /\ Above(Info(T, c), b))

LEMMA RowCompares ==
  ASSUME NEW T, Settled(T), NEW a, IsRow(T, a)
  PROVE  a.name \in Rows(T) /\ a = Info(T, a.name) /\ Comparable(a)
BY InfosCompare DEF IsRow

LEMMA RowOf ==
  ASSUME NEW T, Settled(T), NEW p \in Rows(T)
  PROVE  IsRow(T, Info(T, p))
BY InfoIs DEF IsRow

-----------------------------------------------------------------------------
(* Ranks.                                                                  *)

\* S is a set of rows that is closed upwards and whose last is p.
UpTo(T, S, p) ==
  p \in Rows(T) /\ S = {q \in Rows(T) : Above(Info(T, q), Info(T, p)) \/ q = p}

LEMMA RankIsSize ==
  ASSUME NEW T, Settled(T), NEW S, NEW p, UpTo(T, S, p)
  PROVE  IsFiniteSet(S) /\ RankOf(T, p) = Cardinality(S) /\ RankOf(T, p) \in Nat \ {0}
<1>1. S = Before(T, p) \cup {p}
  BY BeforeIs DEF UpTo
<1>2. p \notin Before(T, p)
  BY BeforeIs, AboveOrders, InfosCompare DEF UpTo
<1> QED  BY <1>1, <1>2, BeforeIsFinite, FS_AddElement DEF RankOf

LEMMA RankType ==
  ASSUME NEW T, NEW p
  PROVE  RankOf(T, p) \in Nat \ {0}
BY BeforeIsFinite DEF RankOf

LEMMA HigherRank ==
  ASSUME NEW T, Settled(T), NEW p \in Rows(T), NEW q \in Rows(T),
         Above(Info(T, p), Info(T, q))
  PROVE  RankOf(T, p) < RankOf(T, q)
<1>1. Before(T, p) \cup {p} \subseteq Before(T, q)
  BY BeforeIs, AboveOrders, InfosCompare
<1>2. p \notin Before(T, p)
  BY BeforeIs, AboveOrders, InfosCompare
<1>3. Cardinality(Before(T, p) \cup {p}) = Cardinality(Before(T, p)) + 1
  BY <1>2, BeforeIsFinite, FS_AddElement
<1>4. Cardinality(Before(T, p) \cup {p}) <= Cardinality(Before(T, q))
  BY <1>1, BeforeIsFinite, FS_Subset
<1> QED  BY <1>3, <1>4, BeforeIsFinite DEF RankOf

LEMMA RanksDiffer ==
  ASSUME NEW T, Settled(T), NEW p \in Rows(T), NEW q \in Rows(T),
         RankOf(T, p) = RankOf(T, q)
  PROVE  p = q
<1> SUFFICES ASSUME p # q PROVE FALSE
  OBVIOUS
<1>1. Above(Info(T, p), Info(T, q)) \/ Above(Info(T, q), Info(T, p))
  BY InfoIs, InfosCompare, AboveOrders
<1> QED  BY <1>1, HigherRank, RankType

LEMMA InfoAtRank ==
  ASSUME NEW T, Settled(T), NEW p \in Rows(T)
  PROVE  InfoAt(T, RankOf(T, p)) = Info(T, p)
BY RanksDiffer DEF InfoAt, AtRank

LEMMA NextRank ==
  ASSUME NEW T, Settled(T), NEW a, NEW b, NextTo(T, a, b)
  PROVE  RankOf(T, b.name) = RankOf(T, a.name) + 1
<1>1. /\ a.name \in Rows(T) /\ b.name \in Rows(T)
      /\ a = Info(T, a.name) /\ b = Info(T, b.name)
  BY DEF NextTo, IsRow
<1>2. ASSUME NEW c \in Rows(T)
      PROVE  Above(Info(T, c), b) <=> Above(Info(T, c), a) \/ c = a.name
  <2>1. Comparable(a) /\ Comparable(b) /\ Comparable(Info(T, c))
    BY <1>1, InfosCompare
  <2>2. c # a.name => Above(Info(T, c), a) \/ Above(a, Info(T, c))
    BY <1>1, <2>1, InfoIs, AboveOrders
  <2>3. ~ (Above(a, Info(T, c)) /\ Above(Info(T, c), b)) /\ Above(a, b)
    BY DEF NextTo
  <2>4. c = a.name => Info(T, c) = a
    BY <1>1
  <2> QED  BY <2>1, <2>2, <2>3, <2>4, AboveOrders
<1>3. Before(T, b.name) = Before(T, a.name) \cup {a.name}
  BY <1>1, <1>2, BeforeIs
<1>4. a.name \notin Before(T, a.name)
  BY <1>1, BeforeIs, AboveOrders, InfosCompare
<1> QED  BY <1>3, <1>4, BeforeIsFinite, FS_AddElement DEF RankOf

LEMMA NextInfosRank ==
  ASSUME NEW T, Settled(T), NEW a, NEW b, NextTo(T, a, b)
  PROVE  /\ a = InfoAt(T, RankOf(T, b.name) - 1)
         /\ b = InfoAt(T, RankOf(T, a.name) + 1)
<1>1. /\ a.name \in Rows(T) /\ b.name \in Rows(T)
      /\ a = Info(T, a.name) /\ b = Info(T, b.name)
  BY DEF NextTo, IsRow
<1>2. RankOf(T, a.name) = RankOf(T, b.name) - 1
  BY NextRank, RankType
<1> QED  BY <1>1, <1>2, NextRank, InfoAtRank

LEMMA RankAtMost ==
  ASSUME NEW T, Settled(T), NEW p \in Rows(T)
  PROVE  RankOf(T, p) \in 1 .. Cardinality(Rows(T))
<1>0. IsFiniteSet(Rows(T)) /\ Cardinality(Rows(T)) \in Nat
  BY RowsAreFinite, FS_CardinalityType
<1>1. Before(T, p) \subseteq Rows(T) \ {p}
  BY BeforeIs, AboveOrders, InfosCompare
<1>2. IsFiniteSet(Rows(T) \ {p}) /\ Cardinality(Rows(T) \ {p}) = Cardinality(Rows(T)) - 1
  BY <1>0, FS_RemoveElement
<1>3. Cardinality(Before(T, p)) <= Cardinality(Rows(T)) - 1
  BY <1>1, <1>2, FS_Subset
<1> QED  BY <1>0, <1>3, BeforeIsFinite DEF RankOf

\* There is a row of every rank up to the number of rows.
LEMMA EveryRank ==
  ASSUME NEW T, Settled(T), NEW n \in 1 .. Cardinality(Rows(T))
  PROVE  \E p \in Rows(T) : RankOf(T, p) = n
<1> DEFINE size == Cardinality(Rows(T))
           f == [p \in Rows(T) |-> RankOf(T, p)]
<1>0. IsFiniteSet(Rows(T)) /\ size \in Nat
  BY RowsAreFinite, FS_CardinalityType
<1>1. ASSUME NEW p \in Rows(T) PROVE RankOf(T, p) \in 1 .. size
  BY RankAtMost
<1>2. f \in Injection(Rows(T), 1 .. size)
  BY <1>1, RanksDiffer DEF Injection, IsInjective
<1>3. IsFiniteSet(1 .. size) /\ Cardinality(1 .. size) = size
  BY <1>0, FS_Interval
<1>4. f \in Surjection(Rows(T), 1 .. size)
  BY <1>2, <1>3, FS_Injection
<1>5. PICK p \in Rows(T) : f[p] = n
  BY <1>4 DEF Surjection
<1> QED  BY <1>5

\* Rows of successive ranks are next to each other.
LEMMA RanksAreNext ==
  ASSUME NEW T, Settled(T), NEW p \in Rows(T), NEW q \in Rows(T),
         RankOf(T, q) = RankOf(T, p) + 1
  PROVE  NextTo(T, Info(T, p), Info(T, q))
<1>1. Above(Info(T, p), Info(T, q))
  <2>1. p # q
    BY RankType
  <2>2. Above(Info(T, p), Info(T, q)) \/ Above(Info(T, q), Info(T, p))
    BY <2>1, InfoIs, InfosCompare, AboveOrders
  <2> QED  BY <2>2, HigherRank, RankType
<1>2. ASSUME NEW c \in Rows(T), Above(Info(T, p), Info(T, c)), Above(Info(T, c), Info(T, q))
      PROVE  FALSE
  BY <1>2, HigherRank, RankType
<1> QED  BY <1>1, <1>2, RowOf DEF NextTo

\* The rows of the first ranks are those up to the row of the last of them.
LEMMA TopRanks ==
  ASSUME NEW T, Settled(T), NEW S, NEW p, UpTo(T, S, p)
  PROVE  {q \in Rows(T) : RankOf(T, q) \in 1 .. Cardinality(S)} = S
<1>1. p \in Rows(T) /\ Cardinality(S) = RankOf(T, p)
  BY RankIsSize DEF UpTo
<1>2. ASSUME NEW q \in Rows(T) PROVE RankOf(T, q) <= RankOf(T, p) <=> q \in S
  <2>1. CASE q = p
    BY <2>1, RankType DEF UpTo
  <2>2. CASE q # p
    <3>1. Above(Info(T, p), Info(T, q)) \/ Above(Info(T, q), Info(T, p))
      BY <1>1, <2>2, InfoIs, InfosCompare, AboveOrders
    <3>2. Above(Info(T, q), Info(T, p)) => ~ Above(Info(T, p), Info(T, q))
      BY <1>1, InfosCompare, AboveOrders
    <3> QED  BY <1>1, <2>2, <3>1, <3>2, HigherRank, RankType DEF UpTo
  <2> QED  BY <2>1, <2>2
<1> QED  BY <1>1, <1>2, RankType DEF UpTo

-----------------------------------------------------------------------------
(* The changes of one transaction.  K[p] is the signing key of p, which no *)
(* vote changes; c turns the members S of a queue at the beginning of the  *)
(* transaction into R.                                                     *)

Forms == {None, Del} \cup {Add(k) : k \in Keys \cup {NoKey}} \cup {Modify(k) : k \in Keys \cup {NoKey}}

Turns(c, K, S, R) ==
  /\ c \in [Producers -> Forms]
  /\ \A p \in Producers :
       \/ c[p] = None /\ (p \in S <=> p \in R)
       \/ c[p] = Add(K[p]) /\ p \notin S /\ p \in R
       \/ c[p] = Modify(K[p]) /\ p \in S /\ p \in R
       \/ c[p] = Del /\ p \in S /\ p \notin R

LEMMA OpsOfChanges ==
  /\ None.op = "none" /\ Del.op = "del" /\ Bad.op = "bad"
  /\ \A k : /\ Add(k).op = "add" /\ Add(k).key = k
            /\ Modify(k).op = "modify" /\ Modify(k).key = k
BY DEF None, Del, Bad, Add, Modify

LEMMA ChangesTyped ==
  /\ None \in Forms /\ Del \in Forms
  /\ \A k \in Keys \cup {NoKey} : Add(k) \in Forms /\ Modify(k) \in Forms
BY DEF Forms

LEMMA NothingTurns ==
  ASSUME NEW K, NEW S
  PROVE  Turns(NoChanges, K, S, S)
BY ChangesTyped DEF Turns, NoChanges

\* AddChange of a producer that is not a member, with its key.
LEMMA TurnAdd ==
  ASSUME NEW c, NEW K \in [Producers -> Keys \cup {NoKey}], NEW S, NEW R, Turns(c, K, S, R),
         NEW i, i.name \in Producers \ R, i.key = K[i.name]
  PROVE  Turns(AddChange(c, i), K, S, R \cup {i.name})
<1> DEFINE n == i.name
           d == AddChange(c, i)
<1>1. /\ d \in [Producers -> Forms]
      /\ \A p \in Producers : p # n => d[p] = c[p]
      /\ d[n] = IF c[n].op = "none" THEN Add(K[n]) ELSE IF c[n].op = "del" THEN Modify(K[n]) ELSE Bad
      /\ c[n] = None \/ c[n] = Del
  <2>1. c[n] = None \/ c[n] = Del
    BY DEF Turns
  <2>2. Added(c[n], K[n]) \in Forms
    BY <2>1, OpsOfChanges, ChangesTyped DEF Added
  <2> QED  BY <2>1, <2>2 DEF AddChange, Added, Turns
<1>2. d[n] = IF c[n] = None THEN Add(K[n]) ELSE Modify(K[n])
  BY <1>1, OpsOfChanges
<1>3. c[n] = None => n \notin S
  BY OpsOfChanges DEF Turns
<1>4. c[n] # None => n \in S
  BY <1>1, OpsOfChanges DEF Turns
<1>5. ASSUME NEW p \in Producers
      PROVE  \/ d[p] = None /\ (p \in S <=> p \in R \cup {n})
             \/ d[p] = Add(K[p]) /\ p \notin S /\ p \in R \cup {n}
             \/ d[p] = Modify(K[p]) /\ p \in S /\ p \in R \cup {n}
             \/ d[p] = Del /\ p \in S /\ p \notin R \cup {n}
  <2>1. CASE p = n
    BY <1>2, <1>3, <1>4, <2>1
  <2>2. CASE p # n
    BY <1>1, <2>2 DEF Turns
  <2> QED  BY <2>1, <2>2
<1> HIDE DEF d
<1> QED  BY <1>1, <1>5 DEF Turns, d

\* DelChange of a member.
LEMMA TurnDel ==
  ASSUME NEW c, NEW K \in [Producers -> Keys \cup {NoKey}], NEW S, NEW R, Turns(c, K, S, R),
         NEW i, i.name \in Producers, i.name \in R
  PROVE  Turns(DelChange(c, i), K, S, R \ {i.name})
<1> DEFINE n == i.name
           d == DelChange(c, i)
<1>1. /\ d \in [Producers -> Forms]
      /\ \A p \in Producers : p # n => d[p] = c[p]
      /\ d[n] = Deleted(c[n])
      /\ c[n] = None \/ c[n] = Add(K[n]) \/ c[n] = Modify(K[n])
  <2>1. c[n] = None \/ c[n] = Add(K[n]) \/ c[n] = Modify(K[n])
    BY DEF Turns
  <2>2. Deleted(c[n]) \in Forms
    BY <2>1, OpsOfChanges, ChangesTyped DEF Deleted
  <2> QED  BY <2>1, <2>2 DEF DelChange, Turns
<1>2. d[n] = IF c[n] = Add(K[n]) THEN None ELSE Del
  BY <1>1, OpsOfChanges DEF Deleted
<1>3. c[n] = Add(K[n]) => n \notin S
  BY OpsOfChanges DEF Turns
<1>4. c[n] # Add(K[n]) => n \in S
  BY <1>1, OpsOfChanges DEF Turns
<1>5. ASSUME NEW p \in Producers
      PROVE  \/ d[p] = None /\ (p \in S <=> p \in R \ {n})
             \/ d[p] = Add(K[p]) /\ p \notin S /\ p \in R \ {n}
             \/ d[p] = Modify(K[p]) /\ p \in S /\ p \in R \ {n}
             \/ d[p] = Del /\ p \in S /\ p \notin R \ {n}
  <2>1. CASE p = n
    BY <1>2, <1>3, <1>4, <2>1
  <2>2. CASE p # n
    BY <1>1, <2>2 DEF Turns
  <2> QED  BY <2>1, <2>2
<1> HIDE DEF d
<1> QED  BY <1>1, <1>5 DEF Turns, d

\* Changes that turn the members of a schedule into others fit the schedule
\* and lead to these, under their keys.
LEMMA TurnsFit ==
  ASSUME NEW c, NEW K \in [Producers -> Keys \cup {NoKey}],
         NEW S \in SUBSET Producers, NEW R \in SUBSET Producers, Turns(c, K, S, R)
  PROVE  /\ ~ IsBad(c)
         /\ FitsIn([p \in S |-> K[p]], c, Cardinality(R))
         /\ Apply([p \in S |-> K[p]], c) = [p \in R |-> K[p]]
         /\ IsEmpty(c) => S = R
<1> DEFINE s == [p \in S |-> K[p]]
<1>1. ASSUME NEW p \in Producers
      PROVE  /\ c[p].op \in {"none", "add", "modify", "del"}
             /\ c[p].op = "none" => (p \in S <=> p \in R)
             /\ c[p].op = "add" => p \notin S /\ p \in R /\ c[p].key = K[p]
             /\ c[p].op = "modify" => p \in S /\ p \in R /\ c[p].key = K[p]
             /\ c[p].op = "del" => p \in S /\ p \notin R
  <2>1. \/ c[p] = None /\ (p \in S <=> p \in R)
        \/ c[p] = Add(K[p]) /\ p \notin S /\ p \in R
        \/ c[p] = Modify(K[p]) /\ p \in S /\ p \in R
        \/ c[p] = Del /\ p \in S /\ p \notin R
    BY DEF Turns
  <2>2. CASE c[p] = None /\ (p \in S <=> p \in R)
    BY <2>2, OpsOfChanges
  <2>3. CASE c[p] = Add(K[p]) /\ p \notin S /\ p \in R
    BY <2>3, OpsOfChanges
  <2>4. CASE c[p] = Modify(K[p]) /\ p \in S /\ p \in R
    BY <2>4, OpsOfChanges
  <2>5. CASE c[p] = Del /\ p \in S /\ p \notin R
    BY <2>5, OpsOfChanges
  <2> QED  BY <2>1, <2>2, <2>3, <2>4, <2>5
<1>2. ~ IsBad(c)
  BY <1>1 DEF IsBad
<1>3. DOMAIN s = S
  OBVIOUS
<1>4. FitsIn(s, c, Cardinality(R))
  <2>1. (S \cup {p \in Producers : c[p].op = "add"}) \ {p \in Producers : c[p].op = "del"} = R
    BY <1>1
  <2> QED  BY <1>1, <1>3, <2>1 DEF FitsIn
<1>5. Apply(s, c) = [p \in R |-> K[p]]
  <2>1. {q \in Producers : \/ c[q].op \in {"add", "modify"}
                           \/ c[q].op = "none" /\ q \in S} = R
    BY <1>1
  <2>2. Apply(s, c) = [p \in R |-> IF c[p].op = "none" THEN s[p] ELSE c[p].key]
    BY <1>3, <2>1 DEF Apply
  <2>3. ASSUME NEW p \in R PROVE (IF c[p].op = "none" THEN s[p] ELSE c[p].key) = K[p]
    BY <1>1
  <2> QED  BY <2>2, <2>3
<1>6. IsEmpty(c) => S = R
  BY <1>1, OpsOfChanges DEF IsEmpty, NoChanges
<1> QED  BY <1>2, <1>4, <1>5, <1>6

-----------------------------------------------------------------------------
(* The work of process_elected_producer, and what is read again at its end *)

InfoType == [name : Int, votes : Int, key : Keys \cup {NoKey}]
QueueType == [count : Int, tail : InfoType, prev : InfoType, next : InfoType]
Entries == [Producers -> Forms \cup {Bad}]
WorkType == [m : QueueType, b : QueueType, mc : Entries, bc : Entries, ok : BOOLEAN]

\* fetch_prev finds the row before t when there is one.
LEMMA PrevFetched ==
  ASSUME NEW T, Settled(T), NEW t, IsRow(T, t), NEW c \in Rows(T), Above(Info(T, c), t)
  PROVE  /\ NextTo(T, PrevInfo(T, t), t)
         /\ PrevFound(T, t, PrevInfo(T, t))
<1>1. t.name \in Rows(T) /\ t = Info(T, t.name) /\ Comparable(t)
  BY RowCompares
<1>2. RankOf(T, t.name) - 1 \in 1 .. Cardinality(Rows(T))
  <2>1. RankOf(T, c) < RankOf(T, t.name)
    BY <1>1, HigherRank
  <2>2. RankOf(T, c) \in 1 .. Cardinality(Rows(T)) /\ RankOf(T, t.name) \in 1 .. Cardinality(Rows(T))
    BY <1>1, RankAtMost
  <2> QED  BY <2>1, <2>2, RowsAreFinite, FS_CardinalityType
<1>3. PICK p \in Rows(T) : RankOf(T, p) = RankOf(T, t.name) - 1
  BY <1>2, EveryRank
<1>4. RankOf(T, t.name) = RankOf(T, p) + 1
  BY <1>3, RankType
<1>5. NextTo(T, Info(T, p), t)
  BY <1>1, <1>4, RanksAreNext
<1>6. p \in Before(T, t.name)
  BY <1>1, <1>5, BeforeIs DEF NextTo
<1>7. \A q \in Before(T, t.name) \ {p} : Precedes(T, q, p)
  <2> SUFFICES ASSUME NEW q \in Before(T, t.name) \ {p} PROVE Precedes(T, q, p)
    OBVIOUS
  <2>1. q \in Rows(T) /\ Above(Info(T, q), t)
    BY <1>1, BeforeIs
  <2>2. Above(Info(T, q), Info(T, p)) \/ Above(Info(T, p), Info(T, q))
    BY <2>1, InfoIs, InfosCompare, AboveOrders
  <2>3. Above(Info(T, q), Info(T, p))
    BY <1>5, <2>1, <2>2 DEF NextTo
  <2> QED  BY <2>1, <2>3 DEF Precedes, Settled
<1>8. ASSUME NEW r \in Before(T, t.name), \A q \in Before(T, t.name) \ {r} : Precedes(T, q, r)
      PROVE  r = p
  <2> SUFFICES ASSUME r # p PROVE FALSE
    OBVIOUS
  <2>1. Precedes(T, r, p) /\ Precedes(T, p, r) /\ r \in Rows(T)
    BY <1>6, <1>7, <1>8, BeforeIs, <1>1
  <2>2. Above(Info(T, r), Info(T, p)) /\ Above(Info(T, p), Info(T, r))
    BY <2>1 DEF Precedes, Settled
  <2> QED  BY <2>1, <2>2, InfosCompare, AboveOrders
<1>9. LastRow(T, Before(T, t.name)) = p
  BY <1>6, <1>7, <1>8 DEF LastRow
<1>10. PrevInfo(T, t) = Info(T, p)
  BY <1>6, <1>9 DEF PrevInfo
<1>11. Info(T, p) # NoInfo
  BY InfoIs DEF NoInfo
<1>12. PositionFound(T, t)
  BY <1>1, InfoIs DEF PositionFound, Settled
<1> QED  BY <1>5, <1>10, <1>11, <1>12 DEF PrevFound, NextTo

\* fetch_next finds the row after t when there is one.
LEMMA NextFetched ==
  ASSUME NEW T, Settled(T), NEW t, IsRow(T, t), NEW c \in Rows(T), Above(t, Info(T, c))
  PROVE  /\ NextTo(T, t, NextInfo(T, t))
         /\ NextFound(T, t, NextInfo(T, t))
<1>1. t.name \in Rows(T) /\ t = Info(T, t.name) /\ Comparable(t)
  BY RowCompares
<1>2. RankOf(T, t.name) + 1 \in 1 .. Cardinality(Rows(T))
  <2>1. RankOf(T, t.name) < RankOf(T, c)
    BY <1>1, HigherRank
  <2>2. RankOf(T, c) \in 1 .. Cardinality(Rows(T)) /\ RankOf(T, t.name) \in 1 .. Cardinality(Rows(T))
    BY <1>1, RankAtMost
  <2> QED  BY <2>1, <2>2, RowsAreFinite, FS_CardinalityType
<1>3. PICK p \in Rows(T) : RankOf(T, p) = RankOf(T, t.name) + 1
  BY <1>2, EveryRank
<1>5. NextTo(T, t, Info(T, p))
  BY <1>1, <1>3, RanksAreNext
<1>6. p \in After(T, t.name)
  BY <1>1, <1>5, AfterIs DEF NextTo
<1>7. \A q \in After(T, t.name) \ {p} : Precedes(T, p, q)
  <2> SUFFICES ASSUME NEW q \in After(T, t.name) \ {p} PROVE Precedes(T, p, q)
    OBVIOUS
  <2>1. q \in Rows(T) /\ Above(t, Info(T, q))
    BY <1>1, AfterIs
  <2>2. Above(Info(T, q), Info(T, p)) \/ Above(Info(T, p), Info(T, q))
    BY <2>1, InfoIs, InfosCompare, AboveOrders
  <2>3. Above(Info(T, p), Info(T, q))
    BY <1>5, <2>1, <2>2 DEF NextTo
  <2> QED  BY <2>1, <2>3 DEF Precedes, Settled
<1>8. ASSUME NEW r \in After(T, t.name), \A q \in After(T, t.name) \ {r} : Precedes(T, r, q)
      PROVE  r = p
  <2> SUFFICES ASSUME r # p PROVE FALSE
    OBVIOUS
  <2>1. Precedes(T, r, p) /\ Precedes(T, p, r) /\ r \in Rows(T)
    BY <1>6, <1>7, <1>8, AfterIs, <1>1
  <2>2. Above(Info(T, r), Info(T, p)) /\ Above(Info(T, p), Info(T, r))
    BY <2>1 DEF Precedes, Settled
  <2> QED  BY <2>1, <2>2, InfosCompare, AboveOrders
<1>9. FirstRow(T, After(T, t.name)) = p
  BY <1>6, <1>7, <1>8 DEF FirstRow
<1>10. NextInfo(T, t) = Info(T, p)
  BY <1>6, <1>9 DEF NextInfo
<1>11. Info(T, p) # NoInfo
  BY InfoIs DEF NoInfo
<1>12. PositionFound(T, t)
  BY <1>1, InfoIs DEF PositionFound, Settled
<1> QED  BY <1>5, <1>10, <1>11, <1>12 DEF NextFound, NextTo

\* The copies of the rows around the ends of the queues are right, or will be
\* when those still marked are read.
FromAbove(T, i, t) ==
  \/ NextTo(T, i, t)
  \/ i = Refetch /\ \E c \in Rows(T) : Above(Info(T, c), t)
FromBelow(T, t, i) ==
  \/ NextTo(T, t, i)
  \/ i = Refetch /\ \E c \in Rows(T) : Above(t, Info(T, c))

\* The two marks are typed as infos are.
LEMMA RefetchIsInfo == Refetch \in InfoType /\ NoInfo \in InfoType
BY DEF Refetch, NoInfo, InfoType

\* The info of a row is neither of the marks.
LEMMA RowsAreInfos ==
  ASSUME NEW T, Settled(T), NEW i, IsRow(T, i)
  PROVE  i \in InfoType /\ i # Refetch /\ i # NoInfo
<1>1. i.name \in Rows(T) /\ i = Info(T, i.name) /\ i.name \in Producers
  BY RowsAreFinite DEF IsRow
<1>2. T[i.name] \in RowType /\ i.name \in Int /\ i.name > 0
  BY <1>1, InfoIs DEF Settled
<1>3. Info(T, i.name) \in InfoType
  BY <1>2 DEF Info, InfoType, RowType
<1>4. Refetch.name = 0 /\ NoInfo.name = 0
  BY DEF Refetch, NoInfo
<1> QED  BY <1>1, <1>2, <1>3, <1>4

\* What is read again of one queue.
PatchedQueue(T, q) ==
  IsRow(T, q.tail) /\ FromAbove(T, q.prev, q.tail) /\ FromBelow(T, q.tail, q.next)
\* The three copies of a queue are rows next to each other.
PlacedQueue(T, q) == NextTo(T, q.prev, q.tail) /\ NextTo(T, q.tail, q.next)
Patched(T, w) == PatchedQueue(T, w.m) /\ PatchedQueue(T, w.b)
Placed(T, w) == PlacedQueue(T, w.m) /\ PlacedQueue(T, w.b)

\* A queue and a work are the records of their fields.
LEMMA QueueForm ==
  ASSUME NEW q \in QueueType
  PROVE  q = [count |-> q.count, tail |-> q.tail, prev |-> q.prev, next |-> q.next]
BY DEF QueueType

LEMMA WorkForm ==
  ASSUME NEW w \in WorkType
  PROVE  w = [m |-> w.m, b |-> w.b, mc |-> w.mc, bc |-> w.bc, ok |-> w.ok]
BY DEF WorkType

\* A record whose fields are known is that record.
LEMMA QueueOf ==
  ASSUME NEW c, NEW t, NEW p, NEW n, NEW r, r \in [count : {c}, tail : {t}, prev : {p}, next : {n}]
  PROVE  r = [count |-> c, tail |-> t, prev |-> p, next |-> n]
OBVIOUS

LEMMA WorkOf ==
  ASSUME NEW m, NEW b, NEW c, NEW d, NEW o, NEW r, r \in [m : {m}, b : {b}, mc : {c}, bc : {d}, ok : {o}]
  PROVE  r = [m |-> m, b |-> b, mc |-> c, bc |-> d, ok |-> o]
OBVIOUS

\* Setting the two neighbours, or the two queues, leaves the other fields alone.
LEMMA NeighboursSet ==
  ASSUME NEW q \in QueueType, NEW x, NEW y
  PROVE  [q EXCEPT !.prev = x, !.next = y] = [count |-> q.count, tail |-> q.tail, prev |-> x, next |-> y]
<1>1. PICK c, t, p, n : q = [count |-> c, tail |-> t, prev |-> p, next |-> n]
  BY QueueForm
<1>2. [[count |-> c, tail |-> t, prev |-> p, next |-> n] EXCEPT !.prev = x, !.next = y]
        \in [count : {c}, tail : {t}, prev : {x}, next : {y}]
  OBVIOUS
<1>3. [q EXCEPT !.prev = x, !.next = y] \in [count : {c}, tail : {t}, prev : {x}, next : {y}]
  BY <1>1, <1>2, Zenon
<1>4. [q EXCEPT !.prev = x, !.next = y] = [count |-> c, tail |-> t, prev |-> x, next |-> y]
  <2> PICK r : r = [q EXCEPT !.prev = x, !.next = y]
    OBVIOUS
  <2>1. r = [count |-> c, tail |-> t, prev |-> x, next |-> y]
    BY <1>3, QueueOf
  <2> QED  BY <2>1, Zenon
<1>5. q.count = c /\ q.tail = t
  BY <1>1
<1> QED  BY <1>4, <1>5, Zenon

LEMMA QueuesSet ==
  ASSUME NEW w \in WorkType, NEW x, NEW y, NEW o
  PROVE  [w EXCEPT !.m = x, !.b = y, !.ok = o] = [m |-> x, b |-> y, mc |-> w.mc, bc |-> w.bc, ok |-> o]
<1>1. PICK m, b, c, d, k : w = [m |-> m, b |-> b, mc |-> c, bc |-> d, ok |-> k]
  BY WorkForm
<1>2. [[m |-> m, b |-> b, mc |-> c, bc |-> d, ok |-> k] EXCEPT !.m = x, !.b = y, !.ok = o]
        \in [m : {x}, b : {y}, mc : {c}, bc : {d}, ok : {o}]
  OBVIOUS
<1>3. [w EXCEPT !.m = x, !.b = y, !.ok = o] \in [m : {x}, b : {y}, mc : {c}, bc : {d}, ok : {o}]
  BY <1>1, <1>2, Zenon
<1>4. [w EXCEPT !.m = x, !.b = y, !.ok = o] = [m |-> x, b |-> y, mc |-> c, bc |-> d, ok |-> o]
  <2> PICK r : r = [w EXCEPT !.m = x, !.b = y, !.ok = o]
    OBVIOUS
  <2>1. r = [m |-> x, b |-> y, mc |-> c, bc |-> d, ok |-> o]
    BY <1>3, WorkOf
  <2> QED  BY <2>1, Zenon
<1>5. w.mc = c /\ w.bc = d
  BY <1>1
<1> QED  BY <1>4, <1>5, Zenon

\* Reading again what is marked puts the three copies in their places.
LEMMA RereadPlaces ==
  ASSUME NEW T, Settled(T), NEW q \in QueueType, PatchedQueue(T, q)
  PROVE  /\ Reread(q, T) \in QueueType /\ RereadFound(q, T)
         /\ PlacedQueue(T, Reread(q, T))
         /\ Reread(q, T).tail = q.tail /\ Reread(q, T).count = q.count
<1> DEFINE prev == IF q.prev = Refetch THEN PrevInfo(T, q.tail) ELSE q.prev
           next == IF q.next = Refetch THEN NextInfo(T, q.tail) ELSE q.next
<1>1. NextTo(T, prev, q.tail) /\ (q.prev = Refetch => PrevFound(T, q.tail, PrevInfo(T, q.tail)))
  BY PrevFetched, RowsAreInfos DEF PatchedQueue, FromAbove, NextTo
<1>2. NextTo(T, q.tail, next) /\ (q.next = Refetch => NextFound(T, q.tail, NextInfo(T, q.tail)))
  BY NextFetched, RowsAreInfos DEF PatchedQueue, FromBelow, NextTo
<1>3. prev \in InfoType /\ next \in InfoType
  BY <1>1, <1>2, RowsAreInfos DEF NextTo
<1>4. Reread(q, T) = [count |-> q.count, tail |-> q.tail, prev |-> prev, next |-> next]
  <2>1. Reread(q, T) = [q EXCEPT !.prev = prev, !.next = next]
    BY Zenon DEF Reread
  <2> HIDE DEF prev, next
  <2> QED  BY <2>1, NeighboursSet
<1> HIDE DEF prev, next
<1> QED  BY <1>1, <1>2, <1>3, <1>4 DEF PlacedQueue, RereadFound, QueueType

\* The end of process_elected_producer: all is in its place again.
LEMMA RefetchPlaces ==
  ASSUME NEW T, Settled(T), NEW w \in WorkType, Patched(T, w),
         w.ok, ~ IsBad(w.mc), ~ IsBad(w.bc)
  PROVE  /\ Refetched(w, T) \in WorkType /\ Refetched(w, T).ok
         /\ Placed(T, Refetched(w, T))
         /\ Refetched(w, T).m.tail = w.m.tail /\ Refetched(w, T).m.count = w.m.count
         /\ Refetched(w, T).b.tail = w.b.tail /\ Refetched(w, T).b.count = w.b.count
         /\ Refetched(w, T).mc = w.mc /\ Refetched(w, T).bc = w.bc
<1>1. w.m \in QueueType /\ w.b \in QueueType /\ PatchedQueue(T, w.m) /\ PatchedQueue(T, w.b)
  BY DEF WorkType, Patched
<1>2. Refetched(w, T) = [m |-> Reread(w.m, T), b |-> Reread(w.b, T), mc |-> w.mc, bc |-> w.bc, ok |-> TRUE]
  <2> DEFINE ok == /\ w.ok /\ RereadFound(w.m, T) /\ RereadFound(w.b, T)
                   /\ ~ IsBad(w.mc) /\ ~ IsBad(w.bc)
  <2>1. Refetched(w, T) = [w EXCEPT !.m = Reread(w.m, T), !.b = Reread(w.b, T), !.ok = ok]
    BY Zenon DEF Refetched
  <2>2. ok = TRUE
    BY <1>1, RereadPlaces
  <2> HIDE DEF ok
  <2> QED  BY <2>1, <2>2, QueuesSet
<1> QED  BY <1>1, <1>2, RereadPlaces DEF Placed, WorkType

-----------------------------------------------------------------------------
(* One producer p moves in the index, from its row of table T to that of   *)
(* table U.  What becomes of rows next to each other, and of the rows at   *)
(* or above one.                                                           *)

\* p moves from its row of T to that of U, all others stay.
Moves(T, U, p) ==
  /\ Settled(T) /\ Settled(U) /\ Rows(U) = Rows(T) /\ p \in Rows(T)
  /\ \A c \in Rows(T) : c # p => Info(U, c) = Info(T, c)

\* The producers at t or above it.
Top(T, t) == {c \in Rows(T) : AtLeast(Info(T, c), t)}

\* What it takes to compare two rows next to each other ...
LEMMA NextCompare ==
  ASSUME NEW T, Settled(T), NEW a, NEW b, NextTo(T, a, b)
  PROVE  /\ a.name \in Rows(T) /\ a = Info(T, a.name) /\ Comparable(a)
         /\ b.name \in Rows(T) /\ b = Info(T, b.name) /\ Comparable(b)
         /\ Above(a, b) /\ a.name # b.name
         /\ \A c \in Rows(T) : ~ (Above(a, Info(T, c)) /\ Above(Info(T, c), b))
BY RowCompares, AboveOrders DEF NextTo

\* ... and a row that moved with the others.
LEMMA MovedCompare ==
  ASSUME NEW T, NEW U, NEW p, Moves(T, U, p)
  PROVE  /\ p \in Rows(T) /\ Rows(U) = Rows(T)
         /\ Info(T, p).name = p /\ Info(U, p).name = p
         /\ Comparable(Info(T, p)) /\ Comparable(Info(U, p))
         /\ \A c \in Rows(T) : c # p => Info(U, c) = Info(T, c)
         /\ \A c \in Rows(T) : Comparable(Info(T, c)) /\ Info(T, c).name = c
         /\ \A c \in Rows(U) : Comparable(Info(U, c)) /\ Info(U, c).name = c
BY InfoIs, InfosCompare DEF Moves

\* p does not come between the two.
LEMMA Unmoved ==
  ASSUME NEW T, NEW U, NEW p, Moves(T, U, p), NEW a, NEW b, NextTo(T, a, b),
         a.name # p, b.name # p, ~ (Above(a, Info(U, p)) /\ Above(Info(U, p), b))
  PROVE  NextTo(U, a, b)
<1>1. Settled(T) /\ Settled(U)
  BY DEF Moves
<1> QED  BY <1>1, NextCompare, MovedCompare DEF NextTo, IsRow

\* p leaves its place between the two.
LEMMA Joined ==
  ASSUME NEW T, NEW U, NEW p, Moves(T, U, p), NEW a, NEW b,
         NextTo(T, a, Info(T, p)), NextTo(T, Info(T, p), b),
         ~ (Above(a, Info(U, p)) /\ Above(Info(U, p), b))
  PROVE  NextTo(U, a, b)
<1> DEFINE o == Info(T, p)
<1>1. Settled(T) /\ Settled(U)
  BY DEF Moves
<1>2. a.name # p /\ b.name # p /\ Above(a, b)
  BY <1>1, NextCompare, MovedCompare, AboveOrders
<1>3. ASSUME NEW c \in Rows(T), Above(a, Info(U, c)), Above(Info(U, c), b)
      PROVE  FALSE
  <2>1. c # p
    BY <1>3
  <2>2. Info(U, c) = Info(T, c) /\ Comparable(Info(T, c)) /\ Info(T, c).name # o.name
    BY <2>1, MovedCompare
  <2>3. Above(Info(T, c), o) \/ Above(o, Info(T, c))
    BY <2>2, MovedCompare, AboveOrders
  <2> QED  BY <1>1, <1>3, <2>2, <2>3, NextCompare
<1> QED  BY <1>1, <1>2, <1>3, NextCompare, MovedCompare DEF NextTo, IsRow

\* p comes between the two.
LEMMA Inserted ==
  ASSUME NEW T, NEW U, NEW p, Moves(T, U, p), NEW a, NEW b, NextTo(T, a, b),
         a.name # p, b.name # p, Above(a, Info(U, p)), Above(Info(U, p), b)
  PROVE  NextTo(U, a, Info(U, p)) /\ NextTo(U, Info(U, p), b)
<1> DEFINE n == Info(U, p)
<1>1. Settled(T) /\ Settled(U)
  BY DEF Moves
<1>2. ASSUME NEW c \in Rows(T)
      PROVE  /\ ~ (Above(a, Info(U, c)) /\ Above(Info(U, c), n))
             /\ ~ (Above(n, Info(U, c)) /\ Above(Info(U, c), b))
  <2>1. CASE c = p
    BY <2>1, MovedCompare, AboveOrders
  <2>2. CASE c # p
    <3>1. Info(U, c) = Info(T, c) /\ Comparable(Info(T, c))
      BY <2>2, MovedCompare
    <3> QED  BY <1>1, <3>1, NextCompare, MovedCompare, AboveOrders
  <2> QED  BY <2>1, <2>2
<1> QED  BY <1>1, <1>2, NextCompare, MovedCompare DEF NextTo, IsRow

\* p stays between the two.
LEMMA Slid ==
  ASSUME NEW T, NEW U, NEW p, Moves(T, U, p), NEW a, NEW b,
         NextTo(T, a, Info(T, p)), NextTo(T, Info(T, p), b),
         Above(a, Info(U, p)), Above(Info(U, p), b)
  PROVE  NextTo(U, a, Info(U, p)) /\ NextTo(U, Info(U, p), b)
<1> DEFINE o == Info(T, p)
           n == Info(U, p)
<1>1. Settled(T) /\ Settled(U)
  BY DEF Moves
<1>2. a.name # p /\ b.name # p
  BY <1>1, NextCompare, MovedCompare
<1>3. ASSUME NEW c \in Rows(T)
      PROVE  /\ ~ (Above(a, Info(U, c)) /\ Above(Info(U, c), n))
             /\ ~ (Above(n, Info(U, c)) /\ Above(Info(U, c), b))
  <2>1. CASE c = p
    BY <2>1, MovedCompare, AboveOrders
  <2>2. CASE c # p
    <3>1. Info(U, c) = Info(T, c) /\ Comparable(Info(T, c)) /\ Info(T, c).name # o.name
      BY <2>2, MovedCompare
    <3>2. Above(Info(T, c), o) \/ Above(o, Info(T, c))
      BY <3>1, MovedCompare, AboveOrders
    <3>3. ~ (Above(a, Info(T, c)) /\ Above(Info(T, c), b))
      BY <1>1, <3>2, NextCompare
    <3>4. /\ Above(Info(T, c), n) => Above(Info(T, c), b)
          /\ Above(n, Info(T, c)) => Above(a, Info(T, c))
      BY <1>1, <3>1, NextCompare, MovedCompare, AboveOrders
    <3> QED  BY <3>1, <3>3, <3>4
  <2> QED  BY <2>1, <2>2
<1> QED  BY <1>1, <1>2, <1>3, NextCompare, MovedCompare DEF NextTo, IsRow

\* p comes closer to the row after it, or to the row before it.
LEMMA Lowered ==
  ASSUME NEW T, NEW U, NEW p, Moves(T, U, p), NEW b, NextTo(T, Info(T, p), b),
         ~ Above(Info(U, p), Info(T, p)), Above(Info(U, p), b)
  PROVE  NextTo(U, Info(U, p), b)
<1> DEFINE o == Info(T, p)
           n == Info(U, p)
<1>1. Settled(T) /\ Settled(U)
  BY DEF Moves
<1>2. b.name # p
  BY <1>1, NextCompare, MovedCompare
<1>3. ASSUME NEW c \in Rows(T)
      PROVE  ~ (Above(n, Info(U, c)) /\ Above(Info(U, c), b))
  <2>1. CASE c = p
    BY <2>1, MovedCompare, AboveOrders
  <2>2. CASE c # p
    <3>1. Info(U, c) = Info(T, c) /\ Comparable(Info(T, c)) /\ Info(T, c).name # o.name
      BY <2>2, MovedCompare
    <3>2. Above(Info(T, c), o) \/ Above(o, Info(T, c))
      BY <3>1, MovedCompare, AboveOrders
    <3> QED  BY <1>1, <3>1, <3>2, NextCompare, MovedCompare, AboveOrders
  <2> QED  BY <2>1, <2>2
<1> QED  BY <1>1, <1>2, <1>3, NextCompare, MovedCompare DEF NextTo, IsRow

\* p stays below the row above it, or rises to it.
LEMMA Raised ==
  ASSUME NEW T, NEW U, NEW p, Moves(T, U, p), NEW a, NextTo(T, a, Info(T, p)),
         ~ Above(Info(T, p), Info(U, p)), Above(a, Info(U, p))
  PROVE  NextTo(U, a, Info(U, p))
<1> DEFINE o == Info(T, p)
           n == Info(U, p)
<1>1. Settled(T) /\ Settled(U)
  BY DEF Moves
<1>2. a.name # p
  BY <1>1, NextCompare, MovedCompare
<1>3. ASSUME NEW c \in Rows(T)
      PROVE  ~ (Above(a, Info(U, c)) /\ Above(Info(U, c), n))
  <2>1. CASE c = p
    BY <2>1, MovedCompare, AboveOrders
  <2>2. CASE c # p
    <3>1. Info(U, c) = Info(T, c) /\ Comparable(Info(T, c)) /\ Info(T, c).name # o.name
      BY <2>2, MovedCompare
    <3>2. Above(Info(T, c), o) \/ Above(o, Info(T, c))
      BY <3>1, MovedCompare, AboveOrders
    <3> QED  BY <1>1, <3>1, <3>2, NextCompare, MovedCompare, AboveOrders
  <2> QED  BY <2>1, <2>2
<1> QED  BY <1>1, <1>2, <1>3, NextCompare, MovedCompare DEF NextTo, IsRow

\* One row down, one more producer.
LEMMA TopNext ==
  ASSUME NEW T, Settled(T), NEW a, NEW b, NextTo(T, a, b)
  PROVE  /\ Top(T, b) = Top(T, a) \cup {b.name}
         /\ b.name \notin Top(T, a) /\ a.name \in Top(T, a) /\ b.name \in Top(T, b)
<1>1. ASSUME NEW c \in Rows(T)
      PROVE  AtLeast(Info(T, c), b) <=> AtLeast(Info(T, c), a) \/ c = b.name
  <2>1. Comparable(Info(T, c)) /\ Info(T, c).name = c
    BY InfoIs, InfosCompare
  <2>2. CASE c = a.name \/ c = b.name
    BY <2>1, <2>2, NextCompare, AboveOrders DEF AtLeast, SameRank
  <2>3. CASE c # a.name /\ c # b.name
    <3>1. /\ ~ SameRank(Info(T, c), a) /\ ~ SameRank(Info(T, c), b)
          /\ Above(a, Info(T, c)) \/ Above(Info(T, c), a)
          /\ Above(b, Info(T, c)) \/ Above(Info(T, c), b)
      BY <2>1, <2>3, NextCompare, AboveOrders DEF SameRank
    <3> QED  BY <2>1, <2>3, <3>1, NextCompare, AboveOrders DEF AtLeast
  <2> QED  BY <2>2, <2>3
<1>2. ~ AtLeast(b, a) /\ AtLeast(a, a) /\ AtLeast(b, b)
  BY NextCompare, AboveOrders DEF AtLeast, SameRank
<1> QED  BY <1>1, <1>2, NextCompare DEF Top

\* The rows at or above a row that stays where it is.
LEMMA TopUnmoved ==
  ASSUME NEW T, NEW U, NEW p, Moves(T, U, p), NEW t, IsRow(T, t), t.name # p
  PROVE  /\ IsRow(U, t)
         /\ Top(U, t) = IF Above(Info(U, p), t) THEN Top(T, t) \cup {p} ELSE Top(T, t) \ {p}
<1>1. IsRow(U, t) /\ Settled(T) /\ Settled(U)
  BY MovedCompare DEF IsRow, Moves
<1>2. AtLeast(Info(U, p), t) <=> Above(Info(U, p), t)
  BY MovedCompare DEF AtLeast, SameRank
<1>3. \A c \in Rows(T) : c # p => (AtLeast(Info(U, c), t) <=> AtLeast(Info(T, c), t))
  BY MovedCompare
<1> QED  BY <1>1, <1>2, <1>3, MovedCompare DEF Top

\* Whether p was at t or above it.
LEMMA InTop ==
  ASSUME NEW T, NEW U, NEW p, Moves(T, U, p), NEW t, IsRow(T, t)
  PROVE  p \in Top(T, t) <=> AtLeast(Info(T, p), t)
BY MovedCompare DEF Top

\* A queue whose copies are right, or will be read again, and whose members,
\* together with those of the queue before it, are X.
Ends(T, q, X) == q \in QueueType /\ PatchedQueue(T, q) /\ Top(T, q.tail) = X

\* p neither is one of the three nor comes between them.
LEMMA QueueUnmoved ==
  ASSUME NEW T, NEW U, NEW p, Moves(T, U, p), NEW q \in QueueType, PlacedQueue(T, q),
         NEW r \in QueueType, r.prev = q.prev, r.tail = q.tail, r.next = q.next,
         p \notin {q.prev.name, q.tail.name, q.next.name},
         ~ (Above(q.prev, Info(U, p)) /\ Above(Info(U, p), q.tail)),
         ~ (Above(q.tail, Info(U, p)) /\ Above(Info(U, p), q.next))
  PROVE  Ends(U, r, IF Above(Info(U, p), q.tail) THEN Top(T, q.tail) \cup {p} ELSE Top(T, q.tail) \ {p})
<1> DEFINE o == Info(T, p)
           n == Info(U, p)
<1>1. Settled(T) /\ Settled(U) /\ NextTo(T, q.prev, q.tail) /\ NextTo(T, q.tail, q.next)
  BY DEF Moves, PlacedQueue
<1>2. /\ n.name = p /\ o.name = p /\ p \in Rows(U) /\ p \in Rows(T) /\ Comparable(n) /\ Comparable(o)
      /\ Comparable(q.prev) /\ Comparable(q.tail) /\ Comparable(q.next)
      /\ Above(q.prev, q.tail) /\ Above(q.tail, q.next)
      /\ q.prev = Info(T, q.prev.name) /\ q.tail = Info(T, q.tail.name) /\ q.next = Info(T, q.next.name)
      /\ IsRow(T, q.prev) /\ IsRow(T, q.tail) /\ IsRow(T, q.next)
  BY <1>1, MovedCompare, NextCompare DEF NextTo
<1>3. /\ Top(T, q.tail) = Top(T, q.prev) \cup {q.tail.name} /\ q.tail.name \notin Top(T, q.prev)
      /\ Top(T, q.next) = Top(T, q.tail) \cup {q.next.name} /\ q.next.name \notin Top(T, q.tail)
      /\ q.prev.name \in Top(T, q.prev)
  BY <1>1, TopNext
<1>4. NextTo(U, q.prev, q.tail) /\ NextTo(U, q.tail, q.next)
  BY <1>1, <1>2, Unmoved
<1>5. IsRow(U, q.tail) /\ Top(U, q.tail) = IF Above(Info(U, p), q.tail) THEN Top(T, q.tail) \cup {p} ELSE Top(T, q.tail) \ {p}
  BY <1>2, TopUnmoved, SMTT(30)
<1>q. /\ r.prev = q.prev /\ r.tail = q.tail /\ r.next = q.next /\ IsRow(U, q.tail) /\ NextTo(U, q.prev, q.tail) /\ NextTo(U, q.tail, q.next)
      /\ Top(U, q.tail) = IF Above(Info(U, p), q.tail) THEN Top(T, q.tail) \cup {p} ELSE Top(T, q.tail) \ {p}
  BY <1>4, <1>5
<1> QED  BY <1>q DEF Ends, PatchedQueue, FromAbove, FromBelow

\* p is now the row before the tail.
LEMMA PrevIsMoved ==
  ASSUME NEW T, NEW U, NEW p, Moves(T, U, p), NEW q \in QueueType, PlacedQueue(T, q),
         NEW r \in QueueType, r.prev = Info(U, p), r.tail = q.tail, r.next = q.next,
         p \notin {q.tail.name, q.next.name}, Above(Info(U, p), q.tail),
         \/ p = q.prev.name /\ ~ Above(Info(U, p), Info(T, p))
         \/ p # q.prev.name /\ Above(q.prev, Info(U, p))
  PROVE  Ends(U, r, Top(T, q.tail) \cup {p})
<1> DEFINE o == Info(T, p)
           n == Info(U, p)
<1>1. Settled(T) /\ Settled(U) /\ NextTo(T, q.prev, q.tail) /\ NextTo(T, q.tail, q.next)
  BY DEF Moves, PlacedQueue
<1>2. /\ n.name = p /\ o.name = p /\ p \in Rows(U) /\ p \in Rows(T) /\ Comparable(n) /\ Comparable(o)
      /\ Comparable(q.prev) /\ Comparable(q.tail) /\ Comparable(q.next)
      /\ Above(q.prev, q.tail) /\ Above(q.tail, q.next)
      /\ q.prev = Info(T, q.prev.name) /\ q.tail = Info(T, q.tail.name) /\ q.next = Info(T, q.next.name)
      /\ IsRow(T, q.prev) /\ IsRow(T, q.tail) /\ IsRow(T, q.next)
  BY <1>1, MovedCompare, NextCompare DEF NextTo
<1>3. /\ Top(T, q.tail) = Top(T, q.prev) \cup {q.tail.name} /\ q.tail.name \notin Top(T, q.prev)
      /\ Top(T, q.next) = Top(T, q.tail) \cup {q.next.name} /\ q.next.name \notin Top(T, q.tail)
      /\ q.prev.name \in Top(T, q.prev)
  BY <1>1, TopNext
<1>4. NextTo(U, n, q.tail)
  BY <1>1, <1>2, Lowered, Inserted
<1>5. NextTo(U, q.tail, q.next)
  BY <1>1, <1>2, Unmoved, AboveOrders
<1>q. /\ r.prev = n /\ r.tail = q.tail /\ r.next = q.next /\ IsRow(U, q.tail)
      /\ NextTo(U, n, q.tail) /\ NextTo(U, q.tail, q.next) /\ Top(U, q.tail) = Top(T, q.tail) \cup {p}
  BY <1>2, <1>4, <1>5, TopUnmoved
<1> QED  BY <1>q DEF Ends, PatchedQueue, FromAbove, FromBelow

\* The row before the tail is read again, and tail and next stay.
LEMMA PrevIsRead ==
  ASSUME NEW T, NEW U, NEW p, Moves(T, U, p), NEW q \in QueueType, PlacedQueue(T, q),
         NEW r \in QueueType, r.prev = Refetch, r.tail = q.tail, r.next = q.next,
         p \notin {q.tail.name, q.next.name},
         ~ (Above(q.tail, Info(U, p)) /\ Above(Info(U, p), q.next)),
         \E c \in Rows(U) : Above(Info(U, c), q.tail)
  PROVE  Ends(U, r, IF Above(Info(U, p), q.tail) THEN Top(T, q.tail) \cup {p} ELSE Top(T, q.tail) \ {p})
<1> DEFINE o == Info(T, p)
           n == Info(U, p)
<1>1. Settled(T) /\ Settled(U) /\ NextTo(T, q.prev, q.tail) /\ NextTo(T, q.tail, q.next)
  BY DEF Moves, PlacedQueue
<1>2. /\ n.name = p /\ o.name = p /\ p \in Rows(U) /\ p \in Rows(T) /\ Comparable(n) /\ Comparable(o)
      /\ Comparable(q.prev) /\ Comparable(q.tail) /\ Comparable(q.next)
      /\ Above(q.prev, q.tail) /\ Above(q.tail, q.next)
      /\ q.prev = Info(T, q.prev.name) /\ q.tail = Info(T, q.tail.name) /\ q.next = Info(T, q.next.name)
      /\ IsRow(T, q.prev) /\ IsRow(T, q.tail) /\ IsRow(T, q.next)
  BY <1>1, MovedCompare, NextCompare DEF NextTo
<1>3. /\ Top(T, q.tail) = Top(T, q.prev) \cup {q.tail.name} /\ q.tail.name \notin Top(T, q.prev)
      /\ Top(T, q.next) = Top(T, q.tail) \cup {q.next.name} /\ q.next.name \notin Top(T, q.tail)
      /\ q.prev.name \in Top(T, q.prev)
  BY <1>1, TopNext
<1>4. NextTo(U, q.tail, q.next)
  BY <1>1, <1>2, Unmoved
<1>5. IsRow(U, q.tail) /\ Top(U, q.tail) = IF Above(Info(U, p), q.tail) THEN Top(T, q.tail) \cup {p} ELSE Top(T, q.tail) \ {p}
  <2>1. Moves(T, U, p) /\ IsRow(T, q.tail) /\ q.tail.name # p
    BY <1>2
  <2> QED  BY ONLY <2>1, TopUnmoved
<1>q. /\ r.prev = Refetch /\ r.tail = q.tail /\ r.next = q.next /\ IsRow(U, q.tail)
      /\ NextTo(U, q.tail, q.next) /\ (\E c \in Rows(U) : Above(Info(U, c), q.tail))
      /\ Top(U, q.tail) = IF Above(Info(U, p), q.tail) THEN Top(T, q.tail) \cup {p} ELSE Top(T, q.tail) \ {p}
  BY <1>4, <1>5
<1> QED  BY <1>q DEF Ends, PatchedQueue, FromAbove, FromBelow

\* The tail left its place, and the row before it is the tail.
LEMMA TailLeft ==
  ASSUME NEW T, NEW U, NEW p, Moves(T, U, p), NEW q \in QueueType, PlacedQueue(T, q),
         NEW r \in QueueType, r.prev = Refetch, r.tail = q.prev, r.next = q.next,
         p = q.tail.name, ~ (Above(q.prev, Info(U, p)) /\ Above(Info(U, p), q.next)),
         \E c \in Rows(U) : Above(Info(U, c), q.prev)
  PROVE  Ends(U, r, IF Above(Info(U, p), q.prev) THEN Top(T, q.tail) ELSE Top(T, q.tail) \ {p})
<1> DEFINE o == Info(T, p)
           n == Info(U, p)
<1>1. Settled(T) /\ Settled(U) /\ NextTo(T, q.prev, q.tail) /\ NextTo(T, q.tail, q.next)
  BY DEF Moves, PlacedQueue
<1>2. /\ n.name = p /\ o.name = p /\ p \in Rows(U) /\ p \in Rows(T) /\ Comparable(n) /\ Comparable(o)
      /\ Comparable(q.prev) /\ Comparable(q.tail) /\ Comparable(q.next)
      /\ Above(q.prev, q.tail) /\ Above(q.tail, q.next)
      /\ q.prev = Info(T, q.prev.name) /\ q.tail = Info(T, q.tail.name) /\ q.next = Info(T, q.next.name)
      /\ IsRow(T, q.prev) /\ IsRow(T, q.tail) /\ IsRow(T, q.next)
  BY <1>1, MovedCompare, NextCompare DEF NextTo
<1>3. /\ Top(T, q.tail) = Top(T, q.prev) \cup {q.tail.name} /\ q.tail.name \notin Top(T, q.prev)
      /\ Top(T, q.next) = Top(T, q.tail) \cup {q.next.name} /\ q.next.name \notin Top(T, q.tail)
      /\ q.prev.name \in Top(T, q.prev)
  BY <1>1, TopNext
<1>4. o = q.tail /\ q.prev.name # p
  <2>1. o = q.tail
    BY <1>2
  <2>2. q.prev # q.tail
    <3>1. Comparable(q.prev) /\ Above(q.prev, q.tail)
      BY <1>2
    <3> QED  BY ONLY <3>1 DEF Above, Comparable
  <2>3. q.prev = Info(T, q.prev.name) /\ o = Info(T, p)
    BY <1>2
  <2> HIDE DEF o
  <2>4. q.prev.name # p
    BY ONLY <2>1, <2>2, <2>3, Zenon
  <2> QED  BY <2>1, <2>4
<1>5. NextTo(U, q.prev, q.next)
  BY <1>1, <1>4, Joined
<1>6. Top(U, q.prev) = IF Above(n, q.prev) THEN Top(T, q.prev) \cup {p} ELSE Top(T, q.prev) \ {p}
  <2>1. Moves(T, U, p) /\ IsRow(T, q.prev) /\ q.prev.name # p
    BY <1>2, <1>4
  <2> QED  BY ONLY <2>1, TopUnmoved
<1>q. /\ r.prev = Refetch /\ r.tail = q.prev /\ r.next = q.next /\ IsRow(U, q.prev)
      /\ NextTo(U, q.prev, q.next) /\ (\E c \in Rows(U) : Above(Info(U, c), q.prev))
      /\ Top(U, q.prev) = IF Above(n, q.prev) THEN Top(T, q.tail) ELSE Top(T, q.tail) \ {p}
  BY <1>3, <1>4, <1>5, <1>6 DEF NextTo
<1> QED  BY <1>q DEF Ends, PatchedQueue, FromAbove, FromBelow

\* The tail moves, but stays the tail.
LEMMA TailStays ==
  ASSUME NEW T, NEW U, NEW p, Moves(T, U, p), NEW q \in QueueType, PlacedQueue(T, q),
         NEW r \in QueueType, r.prev = q.prev, r.tail = Info(U, p), r.next = q.next,
         p = q.tail.name, Above(q.prev, Info(U, p)), Above(Info(U, p), q.next)
  PROVE  Ends(U, r, Top(T, q.tail))
<1> DEFINE o == Info(T, p)
           n == Info(U, p)
<1>1. Settled(T) /\ Settled(U) /\ NextTo(T, q.prev, q.tail) /\ NextTo(T, q.tail, q.next)
  BY DEF Moves, PlacedQueue
<1>2. /\ n.name = p /\ o.name = p /\ p \in Rows(U) /\ p \in Rows(T) /\ Comparable(n) /\ Comparable(o)
      /\ Comparable(q.prev) /\ Comparable(q.tail) /\ Comparable(q.next)
      /\ Above(q.prev, q.tail) /\ Above(q.tail, q.next)
      /\ q.prev = Info(T, q.prev.name) /\ q.tail = Info(T, q.tail.name) /\ q.next = Info(T, q.next.name)
      /\ IsRow(T, q.prev) /\ IsRow(T, q.tail) /\ IsRow(T, q.next)
  BY <1>1, MovedCompare, NextCompare DEF NextTo
<1>3. /\ Top(T, q.tail) = Top(T, q.prev) \cup {q.tail.name} /\ q.tail.name \notin Top(T, q.prev)
      /\ Top(T, q.next) = Top(T, q.tail) \cup {q.next.name} /\ q.next.name \notin Top(T, q.tail)
      /\ q.prev.name \in Top(T, q.prev)
  BY <1>1, TopNext
<1>4. o = q.tail /\ q.prev.name # p
  BY <1>2, AboveOrders
<1>5. NextTo(U, q.prev, n) /\ NextTo(U, n, q.next)
  BY <1>1, <1>4, Slid
<1>6. Top(U, q.prev) = Top(T, q.prev) \ {p}
  BY <1>2, <1>4, TopUnmoved, AboveOrders
<1>7. Top(U, n) = Top(U, q.prev) \cup {p}
  BY <1>1, <1>2, <1>5, TopNext
<1>q. /\ r.prev = q.prev /\ r.tail = n /\ r.next = q.next /\ IsRow(U, n)
      /\ NextTo(U, q.prev, n) /\ NextTo(U, n, q.next) /\ Top(U, n) = Top(T, q.tail)
  BY <1>3, <1>5, <1>6, <1>7 DEF NextTo
<1> QED  BY <1>q DEF Ends, PatchedQueue, FromAbove, FromBelow

\* p comes right after the tail and is the tail.
LEMMA TailIsMoved ==
  ASSUME NEW T, NEW U, NEW p, Moves(T, U, p), NEW q \in QueueType, PlacedQueue(T, q),
         NEW r \in QueueType, r.prev = q.tail, r.tail = Info(U, p), r.next = q.next,
         p \notin {q.tail.name, q.next.name}, Above(q.tail, Info(U, p)), Above(Info(U, p), q.next)
  PROVE  Ends(U, r, Top(T, q.tail) \cup {p})
<1> DEFINE o == Info(T, p)
           n == Info(U, p)
<1>1. Settled(T) /\ Settled(U) /\ NextTo(T, q.prev, q.tail) /\ NextTo(T, q.tail, q.next)
  BY DEF Moves, PlacedQueue
<1>2. /\ n.name = p /\ o.name = p /\ p \in Rows(U) /\ p \in Rows(T) /\ Comparable(n) /\ Comparable(o)
      /\ Comparable(q.prev) /\ Comparable(q.tail) /\ Comparable(q.next)
      /\ Above(q.prev, q.tail) /\ Above(q.tail, q.next)
      /\ q.prev = Info(T, q.prev.name) /\ q.tail = Info(T, q.tail.name) /\ q.next = Info(T, q.next.name)
      /\ IsRow(T, q.prev) /\ IsRow(T, q.tail) /\ IsRow(T, q.next)
  BY <1>1, MovedCompare, NextCompare DEF NextTo
<1>3. /\ Top(T, q.tail) = Top(T, q.prev) \cup {q.tail.name} /\ q.tail.name \notin Top(T, q.prev)
      /\ Top(T, q.next) = Top(T, q.tail) \cup {q.next.name} /\ q.next.name \notin Top(T, q.tail)
      /\ q.prev.name \in Top(T, q.prev)
  BY <1>1, TopNext
<1>5. NextTo(U, q.tail, n) /\ NextTo(U, n, q.next)
  BY <1>1, Inserted
<1>6. Top(U, q.tail) = Top(T, q.tail) \ {p}
  BY <1>2, TopUnmoved, AboveOrders
<1>7. Top(U, n) = Top(U, q.tail) \cup {p}
  BY <1>1, <1>2, <1>5, TopNext
<1>q. /\ r.prev = q.tail /\ r.tail = n /\ r.next = q.next /\ IsRow(U, n)
      /\ NextTo(U, q.tail, n) /\ NextTo(U, n, q.next) /\ Top(U, n) = Top(T, q.tail) \cup {p}
  BY <1>5, <1>6, <1>7 DEF NextTo
<1> QED  BY <1>q DEF Ends, PatchedQueue, FromAbove, FromBelow

\* p is now the row after the tail.
LEMMA NextIsMoved ==
  ASSUME NEW T, NEW U, NEW p, Moves(T, U, p), NEW q \in QueueType, PlacedQueue(T, q),
         NEW r \in QueueType, r.tail = q.tail, r.next = Info(U, p), p # q.tail.name, Above(q.tail, Info(U, p)),
         \/ p = q.next.name /\ ~ Above(Info(T, p), Info(U, p))
         \/ p # q.next.name /\ Above(Info(U, p), q.next),
         \/ r.prev = q.prev /\ p # q.prev.name
         \/ r.prev = Refetch /\ \E c \in Rows(U) : Above(Info(U, c), q.tail)
  PROVE  Ends(U, r, Top(T, q.tail) \ {p})
<1> DEFINE o == Info(T, p)
           n == Info(U, p)
<1>1. Settled(T) /\ Settled(U) /\ NextTo(T, q.prev, q.tail) /\ NextTo(T, q.tail, q.next)
  BY DEF Moves, PlacedQueue
<1>2. /\ n.name = p /\ o.name = p /\ p \in Rows(U) /\ p \in Rows(T) /\ Comparable(n) /\ Comparable(o)
      /\ Comparable(q.prev) /\ Comparable(q.tail) /\ Comparable(q.next)
      /\ Above(q.prev, q.tail) /\ Above(q.tail, q.next)
      /\ q.prev = Info(T, q.prev.name) /\ q.tail = Info(T, q.tail.name) /\ q.next = Info(T, q.next.name)
      /\ IsRow(T, q.prev) /\ IsRow(T, q.tail) /\ IsRow(T, q.next)
  BY <1>1, MovedCompare, NextCompare DEF NextTo
<1>3. /\ Top(T, q.tail) = Top(T, q.prev) \cup {q.tail.name} /\ q.tail.name \notin Top(T, q.prev)
      /\ Top(T, q.next) = Top(T, q.tail) \cup {q.next.name} /\ q.next.name \notin Top(T, q.tail)
      /\ q.prev.name \in Top(T, q.prev)
  BY <1>1, TopNext
<1>4. NextTo(U, q.tail, n)
  BY <1>1, <1>2, Raised, Inserted
<1>5. p # q.prev.name => NextTo(U, q.prev, q.tail)
  BY <1>1, <1>2, Unmoved, AboveOrders
<1>6. IsRow(U, q.tail) /\ Top(U, q.tail) = Top(T, q.tail) \ {p}
  BY <1>2, TopUnmoved, AboveOrders
<1>q. /\ r.tail = q.tail /\ r.next = n /\ IsRow(U, q.tail)
      /\ NextTo(U, q.tail, n) /\ Top(U, q.tail) = Top(T, q.tail) \ {p}
      /\ \/ NextTo(U, r.prev, q.tail)
         \/ r.prev = Refetch /\ \E c \in Rows(U) : Above(Info(U, c), q.tail)
  BY <1>4, <1>5, <1>6
<1> QED  BY <1>q DEF Ends, PatchedQueue, FromAbove, FromBelow

\* The tail left its place for the one right after the tail.
LEMMA TailLeftNear ==
  ASSUME NEW T, NEW U, NEW p, Moves(T, U, p), NEW q \in QueueType, PlacedQueue(T, q),
         NEW r \in QueueType, r.prev = Refetch, r.tail = q.prev, r.next = Info(U, p),
         p = q.tail.name, Above(q.prev, Info(U, p)), Above(Info(U, p), q.next),
         \E c \in Rows(U) : Above(Info(U, c), q.prev)
  PROVE  Ends(U, r, Top(T, q.tail) \ {p})
<1> DEFINE o == Info(T, p)
           n == Info(U, p)
<1>1. Settled(T) /\ Settled(U) /\ NextTo(T, q.prev, q.tail) /\ NextTo(T, q.tail, q.next)
  BY DEF Moves, PlacedQueue
<1>2. /\ n.name = p /\ o.name = p /\ p \in Rows(U) /\ p \in Rows(T) /\ Comparable(n) /\ Comparable(o)
      /\ Comparable(q.prev) /\ Comparable(q.tail) /\ Comparable(q.next)
      /\ Above(q.prev, q.tail) /\ Above(q.tail, q.next)
      /\ q.prev = Info(T, q.prev.name) /\ q.tail = Info(T, q.tail.name) /\ q.next = Info(T, q.next.name)
      /\ IsRow(T, q.prev) /\ IsRow(T, q.tail) /\ IsRow(T, q.next)
  BY <1>1, MovedCompare, NextCompare DEF NextTo
<1>3. /\ Top(T, q.tail) = Top(T, q.prev) \cup {q.tail.name} /\ q.tail.name \notin Top(T, q.prev)
      /\ Top(T, q.next) = Top(T, q.tail) \cup {q.next.name} /\ q.next.name \notin Top(T, q.tail)
      /\ q.prev.name \in Top(T, q.prev)
  BY <1>1, TopNext
<1>4. o = q.tail /\ q.prev.name # p
  BY <1>2, AboveOrders
<1>5. NextTo(U, q.prev, n)
  BY <1>1, <1>4, Slid
<1>6. Top(U, q.prev) = Top(T, q.prev) \ {p}
  BY <1>2, <1>4, TopUnmoved, AboveOrders
<1>q. /\ r.prev = Refetch /\ r.tail = q.prev /\ r.next = n /\ IsRow(U, q.prev)
      /\ NextTo(U, q.prev, n) /\ (\E c \in Rows(U) : Above(Info(U, c), q.prev))
      /\ Top(U, q.prev) = Top(T, q.tail) \ {p}
  BY <1>3, <1>4, <1>5, <1>6 DEF NextTo
<1> QED  BY <1>q DEF Ends, PatchedQueue, FromAbove, FromBelow

\* p goes below the next row, which becomes the tail; p was not the tail.
LEMMA NextEnters ==
  ASSUME NEW T, NEW U, NEW p, Moves(T, U, p), NEW q \in QueueType, PlacedQueue(T, q),
         NEW r \in QueueType, r.prev = q.tail, r.tail = q.next, r.next = Refetch,
         p \notin {q.tail.name, q.next.name}, Above(q.next, Info(U, p))
  PROVE  Ends(U, r, (Top(T, q.tail) \ {p}) \cup {q.next.name})
<1> DEFINE o == Info(T, p)
           n == Info(U, p)
<1>1. Settled(T) /\ Settled(U) /\ NextTo(T, q.prev, q.tail) /\ NextTo(T, q.tail, q.next)
  BY DEF Moves, PlacedQueue
<1>2. /\ n.name = p /\ o.name = p /\ p \in Rows(U) /\ p \in Rows(T) /\ Comparable(n) /\ Comparable(o)
      /\ Comparable(q.prev) /\ Comparable(q.tail) /\ Comparable(q.next)
      /\ Above(q.prev, q.tail) /\ Above(q.tail, q.next)
      /\ q.prev = Info(T, q.prev.name) /\ q.tail = Info(T, q.tail.name) /\ q.next = Info(T, q.next.name)
      /\ IsRow(T, q.prev) /\ IsRow(T, q.tail) /\ IsRow(T, q.next)
  BY <1>1, MovedCompare, NextCompare DEF NextTo
<1>3. /\ Top(T, q.tail) = Top(T, q.prev) \cup {q.tail.name} /\ q.tail.name \notin Top(T, q.prev)
      /\ Top(T, q.next) = Top(T, q.tail) \cup {q.next.name} /\ q.next.name \notin Top(T, q.tail)
      /\ q.prev.name \in Top(T, q.prev)
  BY <1>1, TopNext
<1>4. NextTo(U, q.tail, q.next)
  BY <1>1, <1>2, Unmoved, AboveOrders
<1>5. IsRow(U, q.next) /\ Top(U, q.next) = Top(T, q.next) \ {p}
  BY <1>2, TopUnmoved, AboveOrders
<1>q. /\ r.prev = q.tail /\ r.tail = q.next /\ r.next = Refetch /\ IsRow(U, q.next)
      /\ NextTo(U, q.tail, q.next) /\ (\E c \in Rows(U) : Above(q.next, Info(U, c)))
      /\ Top(U, q.next) = (Top(T, q.tail) \ {p}) \cup {q.next.name}
  BY <1>2, <1>3, <1>4, <1>5
<1> QED  BY <1>q DEF Ends, PatchedQueue, FromAbove, FromBelow

\* The tail goes below the next row, which becomes the tail.
LEMMA NextReplaces ==
  ASSUME NEW T, NEW U, NEW p, Moves(T, U, p), NEW q \in QueueType, PlacedQueue(T, q),
         NEW r \in QueueType, r.prev = q.prev, r.tail = q.next, r.next = Refetch,
         p = q.tail.name, Above(q.next, Info(U, p))
  PROVE  Ends(U, r, (Top(T, q.tail) \ {p}) \cup {q.next.name})
<1> DEFINE o == Info(T, p)
           n == Info(U, p)
<1>1. Settled(T) /\ Settled(U) /\ NextTo(T, q.prev, q.tail) /\ NextTo(T, q.tail, q.next)
  BY DEF Moves, PlacedQueue
<1>2. /\ n.name = p /\ o.name = p /\ p \in Rows(U) /\ p \in Rows(T) /\ Comparable(n) /\ Comparable(o)
      /\ Comparable(q.prev) /\ Comparable(q.tail) /\ Comparable(q.next)
      /\ Above(q.prev, q.tail) /\ Above(q.tail, q.next)
      /\ q.prev = Info(T, q.prev.name) /\ q.tail = Info(T, q.tail.name) /\ q.next = Info(T, q.next.name)
      /\ IsRow(T, q.prev) /\ IsRow(T, q.tail) /\ IsRow(T, q.next)
  BY <1>1, MovedCompare, NextCompare DEF NextTo
<1>3. /\ Top(T, q.tail) = Top(T, q.prev) \cup {q.tail.name} /\ q.tail.name \notin Top(T, q.prev)
      /\ Top(T, q.next) = Top(T, q.tail) \cup {q.next.name} /\ q.next.name \notin Top(T, q.tail)
      /\ q.prev.name \in Top(T, q.prev)
  BY <1>1, TopNext
<1>4. o = q.tail /\ q.prev.name # p /\ q.next.name # p
  BY <1>2, AboveOrders
<1>5. NextTo(U, q.prev, q.next)
  BY <1>1, <1>2, <1>4, Joined, AboveOrders
<1>6. IsRow(U, q.next) /\ Top(U, q.next) = Top(T, q.next) \ {p}
  BY <1>2, <1>4, TopUnmoved, AboveOrders
<1>q. /\ r.prev = q.prev /\ r.tail = q.next /\ r.next = Refetch /\ IsRow(U, q.next)
      /\ NextTo(U, q.prev, q.next) /\ (\E c \in Rows(U) : Above(q.next, Info(U, c)))
      /\ Top(U, q.next) = (Top(T, q.tail) \ {p}) \cup {q.next.name}
  BY <1>2, <1>3, <1>4, <1>5, <1>6
<1> QED  BY <1>q DEF Ends, PatchedQueue, FromAbove, FromBelow

\* p goes above the row before the tail, which becomes the tail.
LEMMA TailPopped ==
  ASSUME NEW T, NEW U, NEW p, Moves(T, U, p), NEW q \in QueueType, PlacedQueue(T, q),
         NEW r \in QueueType, r.prev = Refetch, r.tail = q.prev, r.next = q.tail,
         p \notin {q.prev.name, q.tail.name}, Above(Info(U, p), q.prev)
  PROVE  Ends(U, r, (Top(T, q.tail) \ {q.tail.name}) \cup {p})
<1> DEFINE o == Info(T, p)
           n == Info(U, p)
<1>1. Settled(T) /\ Settled(U) /\ NextTo(T, q.prev, q.tail) /\ NextTo(T, q.tail, q.next)
  BY DEF Moves, PlacedQueue
<1>2. /\ n.name = p /\ o.name = p /\ p \in Rows(U) /\ p \in Rows(T) /\ Comparable(n) /\ Comparable(o)
      /\ Comparable(q.prev) /\ Comparable(q.tail) /\ Comparable(q.next)
      /\ Above(q.prev, q.tail) /\ Above(q.tail, q.next)
      /\ q.prev = Info(T, q.prev.name) /\ q.tail = Info(T, q.tail.name) /\ q.next = Info(T, q.next.name)
      /\ IsRow(T, q.prev) /\ IsRow(T, q.tail) /\ IsRow(T, q.next)
  BY <1>1, MovedCompare, NextCompare DEF NextTo
<1>3. /\ Top(T, q.tail) = Top(T, q.prev) \cup {q.tail.name} /\ q.tail.name \notin Top(T, q.prev)
      /\ Top(T, q.next) = Top(T, q.tail) \cup {q.next.name} /\ q.next.name \notin Top(T, q.tail)
      /\ q.prev.name \in Top(T, q.prev)
  BY <1>1, TopNext
<1>4. NextTo(U, q.prev, q.tail)
  BY <1>1, <1>2, Unmoved, AboveOrders
<1>5. IsRow(U, q.prev) /\ Top(U, q.prev) = Top(T, q.prev) \cup {p}
  BY <1>2, TopUnmoved
<1>q. /\ r.prev = Refetch /\ r.tail = q.prev /\ r.next = q.tail /\ IsRow(U, q.prev)
      /\ NextTo(U, q.prev, q.tail) /\ (\E c \in Rows(U) : Above(Info(U, c), q.prev))
      /\ Top(U, q.prev) = (Top(T, q.tail) \ {q.tail.name}) \cup {p}
  BY <1>2, <1>3, <1>4, <1>5
<1> QED  BY <1>q DEF Ends, PatchedQueue, FromAbove, FromBelow

\* p comes right before the tail and takes its place.
LEMMA TailReplaced ==
  ASSUME NEW T, NEW U, NEW p, Moves(T, U, p), NEW q \in QueueType, PlacedQueue(T, q),
         NEW r \in QueueType, r.prev = q.prev, r.tail = Info(U, p), r.next = q.tail,
         p \notin {q.prev.name, q.tail.name}, Above(q.prev, Info(U, p)), Above(Info(U, p), q.tail)
  PROVE  Ends(U, r, (Top(T, q.tail) \ {q.tail.name}) \cup {p})
<1> DEFINE o == Info(T, p)
           n == Info(U, p)
<1>1. Settled(T) /\ Settled(U) /\ NextTo(T, q.prev, q.tail) /\ NextTo(T, q.tail, q.next)
  BY DEF Moves, PlacedQueue
<1>2. /\ n.name = p /\ o.name = p /\ p \in Rows(U) /\ p \in Rows(T) /\ Comparable(n) /\ Comparable(o)
      /\ Comparable(q.prev) /\ Comparable(q.tail) /\ Comparable(q.next)
      /\ Above(q.prev, q.tail) /\ Above(q.tail, q.next)
      /\ q.prev = Info(T, q.prev.name) /\ q.tail = Info(T, q.tail.name) /\ q.next = Info(T, q.next.name)
      /\ IsRow(T, q.prev) /\ IsRow(T, q.tail) /\ IsRow(T, q.next)
  BY <1>1, MovedCompare, NextCompare DEF NextTo
<1>3. /\ Top(T, q.tail) = Top(T, q.prev) \cup {q.tail.name} /\ q.tail.name \notin Top(T, q.prev)
      /\ Top(T, q.next) = Top(T, q.tail) \cup {q.next.name} /\ q.next.name \notin Top(T, q.tail)
      /\ q.prev.name \in Top(T, q.prev)
  BY <1>1, TopNext
<1>4. NextTo(U, q.prev, n) /\ NextTo(U, n, q.tail)
  BY <1>1, Inserted
<1>5. Top(U, q.prev) = Top(T, q.prev) \ {p}
  BY <1>2, TopUnmoved, AboveOrders
<1>6. Top(U, n) = Top(U, q.prev) \cup {p}
  BY <1>1, <1>2, <1>4, TopNext
<1>q. /\ r.prev = q.prev /\ r.tail = n /\ r.next = q.tail /\ IsRow(U, n)
      /\ NextTo(U, q.prev, n) /\ NextTo(U, n, q.tail)
      /\ Top(U, n) = (Top(T, q.tail) \ {q.tail.name}) \cup {p}
  BY <1>2, <1>3, <1>4, <1>5, <1>6 DEF NextTo
<1> QED  BY <1>q DEF Ends, PatchedQueue, FromAbove, FromBelow

\* Only the next row changes.
LEMMA NextIsRead ==
  ASSUME NEW T, NEW U, NEW p, Moves(T, U, p), NEW q \in QueueType, PlacedQueue(T, q),
         NEW r \in QueueType, r.prev = q.prev, r.tail = q.tail, FromBelow(U, q.tail, r.next),
         p \notin {q.prev.name, q.tail.name},
         ~ (Above(q.prev, Info(U, p)) /\ Above(Info(U, p), q.tail))
  PROVE  Ends(U, r, IF Above(Info(U, p), q.tail) THEN Top(T, q.tail) \cup {p} ELSE Top(T, q.tail) \ {p})
<1> DEFINE o == Info(T, p)
           n == Info(U, p)
<1>1. Settled(T) /\ Settled(U) /\ NextTo(T, q.prev, q.tail) /\ NextTo(T, q.tail, q.next)
  BY DEF Moves, PlacedQueue
<1>2. /\ n.name = p /\ o.name = p /\ p \in Rows(U) /\ p \in Rows(T) /\ Comparable(n) /\ Comparable(o)
      /\ Comparable(q.prev) /\ Comparable(q.tail) /\ Comparable(q.next)
      /\ Above(q.prev, q.tail) /\ Above(q.tail, q.next)
      /\ q.prev = Info(T, q.prev.name) /\ q.tail = Info(T, q.tail.name) /\ q.next = Info(T, q.next.name)
      /\ IsRow(T, q.prev) /\ IsRow(T, q.tail) /\ IsRow(T, q.next)
  BY <1>1, MovedCompare, NextCompare DEF NextTo
<1>3. /\ Top(T, q.tail) = Top(T, q.prev) \cup {q.tail.name} /\ q.tail.name \notin Top(T, q.prev)
      /\ Top(T, q.next) = Top(T, q.tail) \cup {q.next.name} /\ q.next.name \notin Top(T, q.tail)
      /\ q.prev.name \in Top(T, q.prev)
  BY <1>1, TopNext
<1>4. NextTo(U, q.prev, q.tail)
  BY <1>1, <1>2, Unmoved
<1>5. IsRow(U, q.tail) /\ Top(U, q.tail) = IF Above(Info(U, p), q.tail) THEN Top(T, q.tail) \cup {p} ELSE Top(T, q.tail) \ {p}
  <2>1. Moves(T, U, p) /\ IsRow(T, q.tail) /\ q.tail.name # p
    BY <1>2
  <2> QED  BY ONLY <2>1, TopUnmoved
<1>q. /\ r.prev = q.prev /\ r.tail = q.tail /\ FromBelow(U, q.tail, r.next) /\ IsRow(U, q.tail)
      /\ NextTo(U, q.prev, q.tail) /\ Top(U, q.tail) = IF Above(Info(U, p), q.tail) THEN Top(T, q.tail) \cup {p} ELSE Top(T, q.tail) \ {p}
  BY <1>4, <1>5
<1> QED  BY <1>q DEF Ends, PatchedQueue, FromAbove, FromBelow

-----------------------------------------------------------------------------
(* The branches of process_elected_producer, p going from its row of table *)
(* T to that of table U with the same key: what they make of the two       *)
(* queues w.                                                               *)

\* One producer has moved, the work is still that of T.
Layout(T, U, p, w) ==
  /\ Moves(T, U, p) /\ Info(U, p).key = Info(T, p).key
  /\ w \in WorkType
  /\ PlacedQueue(T, w.m) /\ PlacedQueue(T, w.b) /\ Above(w.m.next, w.b.prev)

\* The six copies are infos of rows in the order of the index.
LEMMA LayoutRows ==
  ASSUME NEW T, NEW U, NEW p, NEW w, Layout(T, U, p, w)
  PROVE  /\ Settled(T) /\ Settled(U) /\ Rows(U) = Rows(T) /\ p \in Rows(T)
         /\ w.m \in QueueType /\ w.b \in QueueType /\ w.mc \in Entries /\ w.bc \in Entries
         /\ Info(T, p).name = p /\ Info(U, p).name = p
         /\ Info(T, p) \in InfoType /\ Info(U, p) \in InfoType
         /\ IsRow(T, w.m.prev) /\ IsRow(T, w.m.tail) /\ IsRow(T, w.m.next)
         /\ IsRow(T, w.b.prev) /\ IsRow(T, w.b.tail) /\ IsRow(T, w.b.next)
         /\ Above(w.m.prev, w.m.tail) /\ Above(w.m.tail, w.m.next) /\ Above(w.m.next, w.b.prev)
         /\ Above(w.b.prev, w.b.tail) /\ Above(w.b.tail, w.b.next)
<1>1. Settled(T) /\ Settled(U) /\ Rows(U) = Rows(T) /\ p \in Rows(T)
  BY DEF Layout, Moves
<1>2. /\ w.m \in QueueType /\ w.b \in QueueType /\ w.mc \in Entries /\ w.bc \in Entries
  BY DEF Layout, WorkType
<1>3. Info(T, p) \in InfoType /\ Info(U, p) \in InfoType
  BY <1>1, RowOf, RowsAreInfos
<1>4. /\ NextTo(T, w.m.prev, w.m.tail) /\ NextTo(T, w.m.tail, w.m.next)
      /\ NextTo(T, w.b.prev, w.b.tail) /\ NextTo(T, w.b.tail, w.b.next)
      /\ Above(w.m.next, w.b.prev)
  BY DEF Layout, PlacedQueue
<1> QED  BY <1>1, <1>2, <1>3, <1>4, InfoIs DEF NextTo

\* A row is the info of a producer.
LEMMA RowInfo ==
  ASSUME NEW T, Settled(T), NEW i, IsRow(T, i)
  PROVE  /\ Comparable(i) /\ i \in InfoType /\ i # Refetch /\ i # NoInfo
         /\ i.name \in Rows(T) /\ i = Info(T, i.name)
BY RowCompares, RowsAreInfos

\* How p, before (o) and after (n), stands to the three copies of a queue.
Around(o, n, q) ==
  /\ Comparable(o) /\ Comparable(n) /\ o.name = n.name
  /\ Comparable(q.prev) /\ Comparable(q.tail) /\ Comparable(q.next)
  /\ Above(q.prev, q.tail) /\ Above(q.tail, q.next)
  /\ o.name = q.prev.name => o = q.prev
  /\ o.name = q.tail.name => o = q.tail
  /\ o.name = q.next.name => o = q.next
  /\ ~ (Above(q.prev, o) /\ Above(o, q.tail))
  /\ ~ (Above(q.tail, o) /\ Above(o, q.next))

\* So p stands to the copies of both queues as Around says.
LEMMA LayoutOrder ==
  ASSUME NEW T, NEW U, NEW p, NEW w, Layout(T, U, p, w)
  PROVE  /\ Around(Info(T, p), Info(U, p), w.m) /\ Around(Info(T, p), Info(U, p), w.b)
         /\ Info(U, p).name = p /\ Above(w.m.next, w.b.prev)
<1>1. /\ Comparable(Info(T, p)) /\ Comparable(Info(U, p)) /\ p \in Rows(T) /\ Settled(T)
      /\ Info(T, p).name = p /\ Info(U, p).name = p
  BY LayoutRows, InfosCompare
<1>2. ASSUME NEW i, IsRow(T, i)
      PROVE  Comparable(i) /\ (p = i.name => Info(T, p) = i)
  BY <1>1, <1>2, RowInfo
<1>3. ASSUME NEW q, PlacedQueue(T, q)
      PROVE  Around(Info(T, p), Info(U, p), q)
  BY <1>1, <1>2, <1>3 DEF PlacedQueue, NextTo, Around
<1> QED  BY <1>1, <1>3 DEF Layout

\* The copies and the counts are typed.
LEMMA InfosTyped ==
  ASSUME NEW w \in WorkType
  PROVE  /\ w.m \in QueueType /\ w.b \in QueueType
         /\ w.m.prev \in InfoType /\ w.m.tail \in InfoType /\ w.m.next \in InfoType
         /\ w.b.prev \in InfoType /\ w.b.tail \in InfoType /\ w.b.next \in InfoType
         /\ w.m.count \in Int /\ w.b.count \in Int /\ w.b.count - 1 \in Int /\ w.b.count + 1 \in Int
         /\ Refetch \in InfoType
         /\ w.mc \in Entries /\ w.bc \in Entries /\ w.ok \in BOOLEAN
BY RefetchIsInfo DEF WorkType, QueueType

\* The producer was in the main queue and stays there.
LEMMA MainStays ==
  ASSUME NEW T, NEW U, NEW p, NEW w, Layout(T, U, p, w),
         AtLeast(Info(T, p), w.m.tail),
         AtLeast(Info(U, p), w.m.tail) \/ Above(Info(U, p), w.m.next),
         NEW v, v = StayInMain(w, Info(T, p), Info(U, p))
  PROVE  /\ v \in WorkType /\ v.ok = w.ok
         /\ v.mc = w.mc /\ v.bc = w.bc
         /\ v.m.count = w.m.count /\ v.b.count = w.b.count
         /\ Ends(U, v.m, Top(T, w.m.tail)) /\ Ends(U, v.b, Top(T, w.b.tail))
<1> DEFINE o == Info(T, p)
           n == Info(U, p)
           m == w.m
           b == w.b
<1>0. /\ w \in WorkType /\ n.key = o.key /\ n.name = p /\ Moves(T, U, p) /\ p \in Rows(U)
      /\ m \in QueueType /\ b \in QueueType /\ PlacedQueue(T, m) /\ PlacedQueue(T, b) /\ n \in InfoType
  BY LayoutRows DEF Layout
<1>1. /\ v \in WorkType /\ v.ok = w.ok /\ v.b = b /\ v.mc = w.mc /\ v.bc = w.bc
      /\ v.m \in QueueType /\ v.m.count = m.count /\ v.m.next = m.next
  BY <1>0, InfosTyped DEF StayInMain, WorkType, QueueType
<1>2. /\ Around(o, n, m) /\ Around(o, n, b) /\ Above(m.next, b.prev)
      /\ Above(n, m.next) /\ Above(n, b.tail) /\ Above(o, b.tail)
      /\ p \notin {m.next.name, b.prev.name, b.tail.name, b.next.name}
      /\ ~ (Above(b.prev, n) /\ Above(n, b.tail)) /\ ~ (Above(b.tail, n) /\ Above(n, b.next))
  <2>1. Around(o, n, m) /\ Around(o, n, b) /\ Above(m.next, b.prev)
    BY LayoutOrder
  <2> QED  BY <1>0, <2>1 DEF Around, Above, AtLeast, SameRank, Comparable
<1>3. p \in Top(T, m.tail) /\ p \in Top(T, b.tail)
  <2>1. IsRow(T, m.tail) /\ IsRow(T, b.tail) /\ AtLeast(o, b.tail)
    BY <1>2, LayoutRows DEF AtLeast
  <2> QED  BY <1>0, <2>1, InTop
<1>4. Ends(U, v.b, Top(T, b.tail))
  <2>1. Ends(U, v.b, IF Above(n, b.tail) THEN Top(T, b.tail) \cup {p} ELSE Top(T, b.tail) \ {p})
    BY <1>0, <1>1, <1>2, LayoutRows, QueueUnmoved
  <2> QED  BY <1>2, <1>3, <2>1
<1>5. Ends(U, v.m, Top(T, m.tail))
  <2>1. CASE AtLeast(n, m.prev) /\ p = m.prev.name
    <3>1. /\ v.m.prev = Refetch /\ v.m.tail = m.tail /\ v.m.next = m.next
      BY <1>0, <2>1, InfosTyped, SMTT(30) DEF StayInMain, QueueType, WorkType
    <3>2. /\ p \notin {m.tail.name, m.next.name} /\ ~ (Above(m.tail, n) /\ Above(n, m.next))
          /\ Above(n, m.tail) /\ Above(n, m.tail)
      BY <1>0, <1>2, <2>1, SMTT(30) DEF Around, Above, AtLeast, SameRank, Comparable
    <3>3. \E c \in Rows(U) : Above(Info(U, c), m.tail)
      BY <1>0, <3>2
    <3>4. Ends(U, v.m, Top(T, m.tail) \cup {p})
      BY <1>0, <1>1, <3>1, <3>2, <3>3, PrevIsRead
    <3> QED  BY <3>4, <1>3
  <2>2. CASE AtLeast(n, m.prev) /\ p # m.prev.name /\ p = m.tail.name
    <3>1. /\ v.m.prev = Refetch /\ v.m.tail = m.prev /\ v.m.next = m.next
      BY <1>0, <2>2, InfosTyped DEF StayInMain, QueueType, WorkType
    <3>2. /\ p = m.tail.name /\ ~ (Above(m.prev, n) /\ Above(n, m.next)) /\ Above(n, m.prev)
      BY <1>0, <1>2, <2>2, SMTT(30) DEF Around, Above, AtLeast, SameRank, Comparable
    <3>3. \E c \in Rows(U) : Above(Info(U, c), m.prev)
      BY <1>0, <3>2
    <3>4. Ends(U, v.m, Top(T, m.tail))
      BY <1>0, <1>1, <3>1, <3>2, <3>3, TailLeft
    <3> QED  BY <3>4, <1>3
  <2>3. CASE AtLeast(n, m.prev) /\ p # m.prev.name /\ p # m.tail.name
    <3>1. /\ v.m = m
      BY <1>0, <2>3, InfosTyped DEF StayInMain, QueueType, WorkType
    <3>2. /\ p \notin {m.prev.name, m.tail.name, m.next.name} /\ ~ (Above(m.prev, n) /\ Above(n, m.tail))
          /\ ~ (Above(m.tail, n) /\ Above(n, m.next)) /\ Above(n, m.tail)
      BY <1>0, <1>2, <2>3, SMTT(30) DEF Around, Above, AtLeast, SameRank, Comparable
    <3>3. Ends(U, v.m, Top(T, m.tail) \cup {p})
      BY <1>0, <1>1, <3>1, <3>2, QueueUnmoved
    <3> QED  BY <3>3, <1>3
  <2>4. CASE ~ AtLeast(n, m.prev) /\ p = m.tail.name
    <3>1. /\ v.m.prev = m.prev /\ v.m.tail = n /\ v.m.next = m.next
      BY <1>0, <2>4, InfosTyped DEF StayInMain, QueueType, WorkType
    <3>2. /\ p = m.tail.name /\ Above(m.prev, n) /\ Above(n, m.next)
      BY <1>0, <1>2, <2>4, SMTT(30) DEF Around, Above, AtLeast, SameRank, Comparable
    <3>3. Ends(U, v.m, Top(T, m.tail))
      BY <1>0, <1>1, <3>1, <3>2, TailStays
    <3> QED  BY <3>3, <1>3
  <2>5. CASE ~ AtLeast(n, m.prev) /\ p # m.tail.name /\ ~ AtLeast(n, m.tail)
    <3>1. /\ v.m.prev = m.tail /\ v.m.tail = n /\ v.m.next = m.next
      BY <1>0, <2>5, InfosTyped DEF StayInMain, QueueType, WorkType
    <3>2. /\ p \notin {m.tail.name, m.next.name} /\ Above(m.tail, n) /\ Above(n, m.next)
      BY <1>0, <1>2, <2>5, SMTT(30) DEF Around, Above, AtLeast, SameRank, Comparable
    <3>3. Ends(U, v.m, Top(T, m.tail) \cup {p})
      BY <1>0, <1>1, <3>1, <3>2, TailIsMoved
    <3> QED  BY <3>3, <1>3
  <2>6. CASE ~ AtLeast(n, m.prev) /\ p # m.tail.name /\ AtLeast(n, m.tail) /\ p = m.prev.name
    <3>1. /\ v.m.prev = n /\ v.m.tail = m.tail /\ v.m.next = m.next
      BY <1>0, <2>6, InfosTyped, SMTT(30) DEF StayInMain, QueueType, WorkType
    <3>2. /\ p \notin {m.tail.name, m.next.name} /\ Above(n, m.tail)
          /\ \/ p = m.prev.name /\ ~ Above(n, o)
             \/ p # m.prev.name /\ Above(m.prev, n)
      BY <1>0, <1>2, <2>6, SMTT(30) DEF Around, Above, AtLeast, SameRank, Comparable
    <3>3. Ends(U, v.m, Top(T, m.tail) \cup {p})
      BY <1>0, <1>1, <3>1, <3>2, PrevIsMoved
    <3> QED  BY <3>3, <1>3
  <2>7. CASE ~ AtLeast(n, m.prev) /\ p # m.tail.name /\ AtLeast(n, m.tail) /\ p # m.prev.name
    <3>1. /\ v.m.prev = Refetch /\ v.m.tail = m.tail /\ v.m.next = m.next
      BY <1>0, <2>7, InfosTyped DEF StayInMain, QueueType, WorkType
    <3>2. /\ p \notin {m.tail.name, m.next.name} /\ ~ (Above(m.tail, n) /\ Above(n, m.next))
          /\ Above(n, m.tail)
      BY <1>0, <1>2, <2>7, SMTT(30) DEF Around, Above, AtLeast, SameRank, Comparable
    <3>3. \E c \in Rows(U) : Above(Info(U, c), m.tail)
      BY <1>0, <3>2
    <3>4. Ends(U, v.m, Top(T, m.tail) \cup {p})
      BY <1>0, <1>1, <3>1, <3>2, <3>3, PrevIsRead
    <3> QED  BY <3>4, <1>3
  <2> QED  BY <2>1, <2>2, <2>3, <2>4, <2>5, <2>6, <2>7
<1> QED  BY <1>1, <1>4, <1>5

\* A transaction under way: the members of the queues under table T are those
\* their tails tell, as many as they count, and the changes turn the members at
\* its beginning (SM and SB) into them.
Fitting(T, w, K, SM, SB) ==
  /\ w \in WorkType /\ w.ok
  /\ PatchedQueue(T, w.m) /\ PatchedQueue(T, w.b)
  /\ w.m.count = MainCount /\ w.b.count \in MinBackup .. maxBackup
  /\ Cardinality(Top(T, w.m.tail)) = MainCount
  /\ Cardinality(Top(T, w.b.tail)) = MainCount + w.b.count
  /\ Turns(w.mc, K, SM, Top(T, w.m.tail))
  /\ Turns(w.bc, K, SB, Top(T, w.b.tail) \ Top(T, w.m.tail))

\* The rows have the keys K.
Under(T, K) == K \in [Producers -> Keys \cup {NoKey}] /\ \A c \in Rows(T) : T[c].key = K[c]

\* Where process_elected_producer begins: the work fits T, and p has moved.
Steps(T, U, p, w, K, SM, SB) ==
  /\ Moves(T, U, p) /\ Under(T, K) /\ Under(U, K) /\ maxBackup \in Nat
  /\ Fitting(T, w, K, SM, SB) /\ Placed(T, w)

\* The producers above a row are finitely many ...
LEMMA TopIsFinite ==
  ASSUME NEW T, NEW t
  PROVE  /\ Top(T, t) \subseteq Rows(T) /\ Rows(T) \subseteq Producers
         /\ IsFiniteSet(Top(T, t)) /\ Cardinality(Top(T, t)) \in Nat
<1>1. Top(T, t) \subseteq Rows(T)
  BY DEF Top
<1> QED  BY <1>1, RowsAreFinite, FS_Subset, FS_CardinalityType

\* ... and as many as its rank says.
LEMMA TopIsUpTo ==
  ASSUME NEW T, Settled(T), NEW t, IsRow(T, t)
  PROVE  UpTo(T, Top(T, t), t.name) /\ RankOf(T, t.name) = Cardinality(Top(T, t))
<1>1. t.name \in Rows(T) /\ t = Info(T, t.name) /\ Comparable(t)
  BY RowCompares
<1>2. ASSUME NEW c \in Rows(T)
      PROVE  AtLeast(Info(T, c), t) <=> Above(Info(T, c), Info(T, t.name)) \/ c = t.name
  BY <1>1, InfoIs DEF AtLeast, SameRank
<1>3. UpTo(T, Top(T, t), t.name)
  BY <1>1, <1>2 DEF UpTo, Top
<1> QED  BY <1>3, RankIsSize

\* The rows of the two queues lie in the order of the six copies: the backup
\* queue has more than two rows.
LEMMA QueuesApart ==
  ASSUME NEW T, Settled(T), NEW w, PlacedQueue(T, w.m), PlacedQueue(T, w.b),
         NEW k \in Int, k >= 3, Cardinality(Top(T, w.b.tail)) = Cardinality(Top(T, w.m.tail)) + k
  PROVE  Above(w.m.next, w.b.prev)
<1>1. /\ NextTo(T, w.m.tail, w.m.next) /\ NextTo(T, w.b.prev, w.b.tail)
      /\ IsRow(T, w.m.tail) /\ IsRow(T, w.m.next) /\ IsRow(T, w.b.prev) /\ IsRow(T, w.b.tail)
  BY DEF PlacedQueue, NextTo
<1>2. /\ RankOf(T, w.m.next.name) = RankOf(T, w.m.tail.name) + 1
      /\ RankOf(T, w.b.tail.name) = RankOf(T, w.b.prev.name) + 1
  BY <1>1, NextRank
<1>3. RankOf(T, w.m.next.name) < RankOf(T, w.b.prev.name)
  BY <1>1, <1>2, TopIsUpTo, RankType
<1>4. /\ w.m.next.name \in Rows(T) /\ w.m.next = Info(T, w.m.next.name) /\ Comparable(w.m.next)
      /\ w.b.prev.name \in Rows(T) /\ w.b.prev = Info(T, w.b.prev.name) /\ Comparable(w.b.prev)
  BY <1>1, RowCompares
<1>5. ~ Above(w.b.prev, w.m.next)
  BY <1>3, <1>4, HigherRank, RankType
<1>6. w.m.next.name # w.b.prev.name
  BY <1>3, RankType
<1> QED  BY <1>4, <1>5, <1>6, AboveOrders

\* The next row of the main queue is above the previous row of the backup.
LEMMA StepLayout ==
  ASSUME NEW T, NEW U, NEW p, NEW w, NEW K, NEW SM, NEW SB, Steps(T, U, p, w, K, SM, SB)
  PROVE  Layout(T, U, p, w)
<1>1. w.b.count \in Int /\ w.b.count >= 3 /\ MainCount \in Nat
  BY QueueAssumption DEF Steps, Fitting, QueueAssumption
<1>2. Above(w.m.next, w.b.prev)
  BY <1>1, QueuesApart DEF Steps, Fitting, Placed, Moves
<1>3. Info(U, p).key = Info(T, p).key
  BY InfoIs DEF Steps, Under, Moves
<1> QED  BY <1>2, <1>3 DEF Layout, Steps, Fitting, Placed

\* Who is a member of which queue, and under which key.
Members(o, n, w, K, SM, SB, M, A) ==
  /\ K \in [Producers -> Keys \cup {NoKey}]
  /\ IsFiniteSet(M) /\ IsFiniteSet(A) /\ M \subseteq A /\ A \subseteq Producers /\ n.name \in Producers
  /\ Cardinality(M) = MainCount /\ Cardinality(A) = MainCount + w.b.count
  /\ MainCount \in Nat /\ w.m.count = MainCount
  /\ w.b.count \in Nat /\ w.b.count >= MinBackup /\ w.b.count <= maxBackup
  /\ MinBackup \in Nat /\ maxBackup \in Nat
  /\ Turns(w.mc, K, SM, M) /\ Turns(w.bc, K, SB, A \ M) /\ w.ok
  /\ w.m.tail.name \in M /\ w.m.next.name \in A \ M /\ w.b.tail.name \in A \ M
  /\ w.b.next.name \in Producers \ A
  /\ w.m.tail.key = K[w.m.tail.name] /\ w.m.next.key = K[w.m.next.name]
  /\ w.b.tail.key = K[w.b.tail.name] /\ w.b.next.key = K[w.b.next.name]
  /\ n.key = K[n.name]
  /\ n.name \in M <=> AtLeast(o, w.m.tail)
  /\ n.name \in A <=> AtLeast(o, w.b.tail)

\* The members before the step, and what the changes so far come to.
LEMMA StepMembers ==
  ASSUME NEW T, NEW U, NEW p, NEW w, NEW K, NEW SM, NEW SB, Steps(T, U, p, w, K, SM, SB)
  PROVE  Members(Info(T, p), Info(U, p), w, K, SM, SB, Top(T, w.m.tail), Top(T, w.b.tail))
<1> DEFINE M == Top(T, w.m.tail)
           A == Top(T, w.b.tail)
<1>1. Layout(T, U, p, w)
  BY StepLayout
<1>2. /\ K \in [Producers -> Keys \cup {NoKey}] /\ Cardinality(M) = MainCount /\ Cardinality(A) = MainCount + w.b.count
      /\ MainCount \in Nat /\ w.m.count = MainCount
      /\ w.b.count \in Nat /\ w.b.count >= MinBackup /\ w.b.count <= maxBackup
      /\ MinBackup \in Nat /\ maxBackup \in Nat
      /\ Turns(w.mc, K, SM, M) /\ Turns(w.bc, K, SB, A \ M) /\ w.ok
  BY QueueAssumption DEF QueueAssumption, Steps, Fitting, Under
<1>3. IsFiniteSet(M) /\ IsFiniteSet(A) /\ A \subseteq Rows(T) /\ Rows(T) \subseteq Producers
  BY TopIsFinite
<1>4. /\ Settled(T) /\ Settled(U) /\ p \in Rows(T) /\ Rows(U) = Rows(T)
      /\ IsRow(T, w.m.tail) /\ IsRow(T, w.m.next) /\ IsRow(T, w.b.tail) /\ IsRow(T, w.b.next)
      /\ Above(w.m.tail, w.m.next) /\ Above(w.m.next, w.b.prev) /\ Above(w.b.prev, w.b.tail)
      /\ Above(w.b.tail, w.b.next)
  BY <1>1, LayoutRows
<1>5. ASSUME NEW i, IsRow(T, i)
      PROVE  i.name \in Rows(T) /\ i = Info(T, i.name) /\ i.key = K[i.name] /\ Comparable(i)
  <2>1. i.name \in Rows(T) /\ i = Info(T, i.name) /\ Comparable(i)
    BY <1>4, <1>5, RowCompares
  <2>2. Info(T, i.name).key = K[i.name]
    BY <1>4, <2>1, InfoIs DEF Steps, Under
  <2> QED  BY <2>1, <2>2
<1>6. Info(U, p).key = K[p] /\ Info(U, p).name = p
  BY <1>4, InfoIs DEF Steps, Under
<1>7. \A c \in Rows(T) : Comparable(Info(T, c)) /\ Info(T, c).name = c
  BY <1>4, InfoIs, InfosCompare
<1>o. /\ Comparable(w.m.tail) /\ Comparable(w.m.next) /\ Comparable(w.b.prev)
      /\ Comparable(w.b.tail) /\ Comparable(w.b.next)
  BY <1>4, <1>1, LayoutOrder DEF Around
<1>8. M \subseteq A
  BY <1>4, <1>7, <1>o, SMTT(30) DEF Top, AtLeast, SameRank, Above, Comparable
<1>9. w.m.tail.name \in M /\ w.m.next.name \in A \ M /\ w.b.tail.name \in A \ M /\ w.b.next.name \notin A
  BY <1>4, <1>5, <1>o, SMTT(30) DEF Top, AtLeast, SameRank, Above, Comparable
<1>10. /\ p \in M <=> AtLeast(Info(T, p), w.m.tail)
       /\ p \in A <=> AtLeast(Info(T, p), w.b.tail)
  BY <1>4 DEF Top
<1> HIDE DEF M, A
<1> QED  BY <1>2, <1>3, <1>4, <1>5, <1>6, <1>8, <1>9, <1>10 DEF Members, M, A

\* Recording a change keeps the changes typed.
LEMMA EntriesKept ==
  ASSUME NEW c \in Entries, NEW i \in InfoType
  PROVE  AddChange(c, i) \in Entries /\ DelChange(c, i) \in Entries /\ ModifyChange(c, i) \in Entries
<1>1. i.key \in Keys \cup {NoKey}
  BY DEF InfoType
<1>2. \A e : /\ Added(e, i.key) \in Forms \cup {Bad} /\ Deleted(e) \in Forms \cup {Bad}
             /\ Modified(e, i.key) \in Forms \cup {Bad}
  BY <1>1, ChangesTyped DEF Added, Deleted, Modified
<1> QED  BY <1>2 DEF Entries, AddChange, DelChange, ModifyChange

\* One out, one in.
LEMMA Exchanged ==
  ASSUME NEW S, IsFiniteSet(S), NEW x \in S, NEW y, y \notin S
  PROVE  Cardinality((S \ {x}) \cup {y}) = Cardinality(S)
<1>1. IsFiniteSet(S \ {x}) /\ Cardinality(S \ {x}) = Cardinality(S) - 1 /\ Cardinality(S) \in Nat
  BY FS_RemoveElement, FS_CardinalityType
<1> QED  BY <1>1, FS_AddElement

\* What a branch has to leave behind for the work to fit the new table.
LEMMA Fits ==
  ASSUME NEW U, NEW v, NEW K, NEW SM, NEW SB, NEW X, NEW Y,
         v \in WorkType, v.ok, Ends(U, v.m, X), Ends(U, v.b, Y),
         v.m.count = MainCount, v.b.count \in MinBackup .. maxBackup,
         Cardinality(X) = MainCount, Cardinality(Y) = MainCount + v.b.count,
         Turns(v.mc, K, SM, X), Turns(v.bc, K, SB, Y \ X)
  PROVE  Fitting(U, v, K, SM, SB)
BY DEF Fitting, Ends

\* It was in the main queue and falls below the first backup.
LEMMA MainFallen ==
  ASSUME NEW T, NEW U, NEW p, NEW w, NEW K, NEW SM, NEW SB, Steps(T, U, p, w, K, SM, SB),
         AtLeast(Info(T, p), w.m.tail),
         ~ AtLeast(Info(U, p), w.m.tail), ~ Above(Info(U, p), w.m.next),
         NEW v, v = FallFromMain(w, Info(U, p))
  PROVE  Fitting(U, v, K, SM, SB)
<1> DEFINE o == Info(T, p)
           n == Info(U, p)
           m == w.m
           b == w.b
           M == Top(T, m.tail)
           A == Top(T, b.tail)
           X == (M \ {p}) \cup {m.next.name}
<1>0. /\ w \in WorkType /\ n.name = p /\ Moves(T, U, p) /\ p \in Rows(U)
      /\ m \in QueueType /\ b \in QueueType /\ PlacedQueue(T, m) /\ PlacedQueue(T, b) /\ n \in InfoType
  BY StepLayout, LayoutRows DEF Layout
<1>2. /\ Around(o, n, m) /\ Around(o, n, b) /\ Above(m.next, b.prev)
      /\ AtLeast(o, m.tail) /\ Above(m.next, n) /\ p \notin {m.next.name, b.prev.name, b.tail.name, b.next.name}
      /\ AtLeast(o, b.tail)
  <2>1. Around(o, n, m) /\ Around(o, n, b) /\ Above(m.next, b.prev)
    BY StepLayout, LayoutOrder
  <2> QED  BY <1>0, <2>1 DEF Around, Above, AtLeast, SameRank, Comparable
<1>3. Members(o, n, w, K, SM, SB, M, A)
  BY StepMembers
<1>z. /\ w.ok /\ MinBackup \in Nat /\ maxBackup \in Nat
      /\ b.count \in Nat /\ b.count >= MinBackup /\ b.count <= maxBackup
  BY <1>3 DEF Members
<1> HIDE DEF M, A, X
<1>5. /\ n.name = p /\ p \in M /\ p # m.next.name
      /\ Cardinality(A \ {p}) = MainCount + (b.count - 1)
  <2>1. n.name = p /\ p \in M /\ p # m.next.name
    BY <1>0, <1>2, <1>3 DEF Members
  <2>2. Cardinality(A \ {p}) = Cardinality(A) - 1
    BY <1>3, <2>1, FS_RemoveElement DEF Members
  <2> QED  BY <1>3, <2>1, <2>2 DEF Members
<1>6. /\ AddChange(DelChange(w.mc, n), m.next) \in Entries /\ DelChange(w.bc, m.next) \in Entries
      /\ AddChange(DelChange(w.bc, m.next), n) \in Entries
      /\ AddChange(DelChange(w.bc, m.next), b.next) \in Entries
  BY <1>0, InfosTyped, EntriesKept
<1>4. /\ v.m.count = MainCount /\ Ends(U, v.m, X) /\ Cardinality(X) = MainCount /\ Turns(v.mc, K, SM, X)
      /\ v.m \in QueueType /\ v.mc \in Entries
  <2>1. /\ v.m \in QueueType /\ v.m.tail = m.next /\ v.m.next = Refetch /\ v.m.count = m.count
        /\ v.m.prev = IF p = m.tail.name THEN m.prev ELSE m.tail
        /\ v.mc = AddChange(DelChange(w.mc, n), m.next)
    BY <1>0, InfosTyped, ZenonT(60) DEF FallFromMain, WorkType, QueueType
  <2>2. Ends(U, v.m, X)
    BY <1>0, <1>2, <2>1, NextEnters, NextReplaces DEF X, M
  <2>3. Cardinality(X) = MainCount
    BY <1>3, <1>5, Exchanged, SMTT(30) DEF Members, X
  <2>4. Turns(DelChange(w.mc, n), K, SM, M \ {p})
    BY <1>3, <1>5, TurnDel DEF Members
  <2>5. Turns(AddChange(DelChange(w.mc, n), m.next), K, SM, X)
    BY <1>3, <1>5, <2>4, TurnAdd DEF Members, X
  <2> QED  BY <1>3, <2>1, <2>2, <2>3, <2>5, <1>6 DEF Members
<1>a. CASE Above(n, b.tail) /\ Above(b.prev, n)
  <2>1. /\ v.b \in QueueType /\ v.b.prev = n /\ v.b.tail = b.tail /\ v.b.next = b.next
        /\ v.b.count = b.count /\ v.bc = AddChange(DelChange(w.bc, m.next), n) /\ v.ok = w.ok
    BY <1>0, <1>6, <1>a, InfosTyped DEF FallFromMain, QueueType, WorkType
  <2>2. /\ p \notin {b.tail.name, b.next.name} /\ Above(n, b.tail)
        /\ \/ p = b.prev.name /\ ~ Above(n, o)
           \/ p # b.prev.name /\ Above(b.prev, n)
    BY <1>0, <1>2, <1>a, SMTT(30) DEF Around, Above, AtLeast, SameRank, Comparable
  <2>3. Ends(U, v.b, A \cup {p})
    BY <1>0, <2>1, <2>2, PrevIsMoved DEF A
  <2>4. /\ A \cup {p} = A /\ Cardinality(A) = MainCount + v.b.count
    BY <1>3, <1>5, <2>1, <2>2, FS_AddElement DEF Members
  <2>5. Turns(DelChange(w.bc, m.next), K, SB, (A \ M) \ {m.next.name})
    BY <1>3, <1>5, <2>2, TurnDel DEF Members
  <2>6. Turns(AddChange(DelChange(w.bc, m.next), n), K, SB, ((A \ M) \ {m.next.name}) \cup {p})
    BY <1>3, <1>5, <2>2, <2>5, TurnAdd DEF Members
  <2>7. Turns(v.bc, K, SB, (A) \ X)
    <3>1. ((A \ M) \ {m.next.name}) \cup {p} = (A) \ X
      BY <1>3, <1>5, <2>2 DEF Members, X
    <3> QED  BY <3>1, <2>1, <2>6 DEF Members
  <2>8. Ends(U, v.b, A)
    BY <2>3, <2>4
  <2>9. v.ok /\ v.b.count \in MinBackup .. maxBackup
    BY <1>z, <1>a, <2>1 DEF Keeps, HasRoom
  <2>10. v \in WorkType
    BY <1>0, <1>4, <1>6, <1>a, <2>1, ZenonT(60) DEF FallFromMain, WorkType
  <2> QED  BY <1>4, <2>10, <2>1, <2>8, <2>4, <2>7, <2>9, Fits
<1>b. CASE Above(n, b.tail) /\ ~ Above(b.prev, n)
  <2>1. /\ v.b \in QueueType /\ v.b.prev = b.prev /\ v.b.tail = b.tail /\ v.b.next = b.next
        /\ v.b.count = b.count /\ v.bc = AddChange(DelChange(w.bc, m.next), n) /\ v.ok = w.ok
    BY <1>0, <1>6, <1>b, InfosTyped DEF FallFromMain, QueueType, WorkType
  <2>2. /\ p \notin {b.prev.name, b.tail.name, b.next.name} /\ ~ (Above(b.prev, n) /\ Above(n, b.tail))
        /\ ~ (Above(b.tail, n) /\ Above(n, b.next)) /\ Above(n, b.tail)
    BY <1>0, <1>2, <1>b, SMTT(30) DEF Around, Above, AtLeast, SameRank, Comparable
  <2>3. Ends(U, v.b, A \cup {p})
    BY <1>0, <2>1, <2>2, QueueUnmoved DEF A
  <2>4. /\ A \cup {p} = A /\ Cardinality(A) = MainCount + v.b.count
    BY <1>3, <1>5, <2>1, <2>2, FS_AddElement DEF Members
  <2>5. Turns(DelChange(w.bc, m.next), K, SB, (A \ M) \ {m.next.name})
    BY <1>3, <1>5, <2>2, TurnDel DEF Members
  <2>6. Turns(AddChange(DelChange(w.bc, m.next), n), K, SB, ((A \ M) \ {m.next.name}) \cup {p})
    BY <1>3, <1>5, <2>2, <2>5, TurnAdd DEF Members
  <2>7. Turns(v.bc, K, SB, (A) \ X)
    <3>1. ((A \ M) \ {m.next.name}) \cup {p} = (A) \ X
      BY <1>3, <1>5, <2>2 DEF Members, X
    <3> QED  BY <3>1, <2>1, <2>6 DEF Members
  <2>8. Ends(U, v.b, A)
    BY <2>3, <2>4
  <2>9. v.ok /\ v.b.count \in MinBackup .. maxBackup
    BY <1>z, <1>b, <2>1 DEF Keeps, HasRoom
  <2>10. v \in WorkType
    BY <1>0, <1>4, <1>6, <1>b, <2>1, ZenonT(60) DEF FallFromMain, WorkType
  <2> QED  BY <1>4, <2>10, <2>1, <2>8, <2>4, <2>7, <2>9, Fits
<1>c. CASE ~ Above(n, b.tail) /\ Above(n, b.next) /\ Keeps(w, n)
  <2>1. /\ v.b \in QueueType /\ v.b.prev = b.tail /\ v.b.tail = n /\ v.b.next = b.next
        /\ v.b.count = b.count /\ v.bc = AddChange(DelChange(w.bc, m.next), n) /\ v.ok = w.ok
    BY <1>0, <1>6, <1>c, InfosTyped, ZenonT(60) DEF FallFromMain, QueueType, WorkType
  <2>2. /\ p \notin {b.tail.name, b.next.name} /\ Above(b.tail, n) /\ Above(n, b.next)
    BY <1>0, <1>2, <1>c, SMTT(30) DEF Around, Above, AtLeast, SameRank, Comparable
  <2>3. Ends(U, v.b, A \cup {p})
    BY <1>0, <2>1, <2>2, TailIsMoved DEF A
  <2>4. /\ A \cup {p} = A /\ Cardinality(A) = MainCount + v.b.count
    BY <1>3, <1>5, <2>1, <2>2, FS_AddElement DEF Members
  <2>5. Turns(DelChange(w.bc, m.next), K, SB, (A \ M) \ {m.next.name})
    BY <1>3, <1>5, <2>2, TurnDel DEF Members
  <2>6. Turns(AddChange(DelChange(w.bc, m.next), n), K, SB, ((A \ M) \ {m.next.name}) \cup {p})
    BY <1>3, <1>5, <2>2, <2>5, TurnAdd DEF Members
  <2>7. Turns(v.bc, K, SB, (A) \ X)
    <3>1. ((A \ M) \ {m.next.name}) \cup {p} = (A) \ X
      BY <1>3, <1>5, <2>2 DEF Members, X
    <3> QED  BY <3>1, <2>1, <2>6 DEF Members
  <2>8. Ends(U, v.b, A)
    BY <2>3, <2>4
  <2>9. v.ok /\ v.b.count \in MinBackup .. maxBackup
    BY <1>z, <1>c, <2>1 DEF Keeps, HasRoom
  <2>10. v \in WorkType
    BY <1>0, <1>4, <1>6, <1>c, <2>1, ZenonT(60) DEF FallFromMain, WorkType
  <2> QED  BY <1>4, <2>10, <2>1, <2>8, <2>4, <2>7, <2>9, Fits
<1>d. CASE ~ Above(n, b.tail) /\ Above(n, b.next) /\ ~ Keeps(w, n)
  <2>1. /\ v.b \in QueueType /\ v.b.prev = b.prev /\ v.b.tail = b.tail /\ v.b.next = n
        /\ v.b.count = b.count - 1 /\ v.bc = DelChange(w.bc, m.next) /\ v.ok = w.ok
    BY <1>0, <1>6, <1>d, InfosTyped DEF FallFromMain, QueueType, WorkType
  <2>2. /\ p # b.tail.name /\ Above(b.tail, n)
        /\ \/ p = b.next.name /\ ~ Above(o, n)
           \/ p # b.next.name /\ Above(n, b.next)
        /\ p # b.prev.name
    BY <1>0, <1>2, <1>d, SMTT(30) DEF Around, Above, AtLeast, SameRank, Comparable
  <2>3. Ends(U, v.b, A \ {p})
    BY <1>0, <2>1, <2>2, NextIsMoved DEF A
  <2>4. Cardinality(A \ {p}) = MainCount + v.b.count
    BY <1>3, <1>5, <2>1, <2>2, FS_AddElement DEF Members
  <2>5. Turns(DelChange(w.bc, m.next), K, SB, (A \ M) \ {m.next.name})
    BY <1>3, <1>5, <2>2, TurnDel DEF Members
  <2>6. Turns(v.bc, K, SB, (A \ {p}) \ X)
    <3>1. (A \ M) \ {m.next.name} = (A \ {p}) \ X
      BY <1>3, <1>5, <2>2 DEF Members, X
    <3> QED  BY <3>1, <2>1, <2>5 DEF Members
  <2>7. v.ok /\ v.b.count \in MinBackup .. maxBackup
    BY <1>z, <1>d, <2>1 DEF Keeps, HasRoom
  <2>8. v \in WorkType
    BY <1>0, <1>4, <1>6, <1>d, <2>1, ZenonT(60) DEF FallFromMain, WorkType
  <2> QED  BY <1>4, <2>8, <2>1, <2>3, <2>4, <2>6, <2>7, Fits
<1>e. CASE ~ Above(n, b.tail) /\ ~ Above(n, b.next) /\ Keeps(w, b.next)
  <2>1. /\ v.b \in QueueType /\ v.b.prev = b.tail /\ v.b.tail = b.next /\ v.b.next = Refetch
        /\ v.b.count = b.count /\ v.bc = AddChange(DelChange(w.bc, m.next), b.next) /\ v.ok = w.ok
    BY <1>0, <1>6, <1>e, InfosTyped, ZenonT(60) DEF FallFromMain, QueueType, WorkType
  <2>2. /\ p \notin {b.tail.name, b.next.name} /\ Above(b.next, n)
    BY <1>0, <1>2, <1>e, SMTT(30) DEF Around, Above, AtLeast, SameRank, Comparable
  <2>3. Ends(U, v.b, (A \ {p}) \cup {b.next.name})
    BY <1>0, <2>1, <2>2, NextEnters DEF A
  <2>4. Cardinality((A \ {p}) \cup {b.next.name}) = MainCount + v.b.count
    BY <1>3, <1>5, <2>1, <2>2, Exchanged DEF Members
  <2>5. Turns(DelChange(w.bc, m.next), K, SB, (A \ M) \ {m.next.name})
    BY <1>3, <1>5, <2>2, TurnDel DEF Members
  <2>6. Turns(AddChange(DelChange(w.bc, m.next), b.next), K, SB, ((A \ M) \ {m.next.name}) \cup {b.next.name})
    BY <1>3, <1>5, <2>2, <2>5, TurnAdd DEF Members
  <2>7. Turns(v.bc, K, SB, ((A \ {p}) \cup {b.next.name}) \ X)
    <3>1. ((A \ M) \ {m.next.name}) \cup {b.next.name} = ((A \ {p}) \cup {b.next.name}) \ X
      BY <1>3, <1>5, <2>2 DEF Members, X
    <3> QED  BY <3>1, <2>1, <2>6 DEF Members
  <2>8. v.ok /\ v.b.count \in MinBackup .. maxBackup
    BY <1>z, <1>e, <2>1 DEF Keeps, HasRoom
  <2>9. v \in WorkType
    BY <1>0, <1>4, <1>6, <1>e, <2>1, ZenonT(60) DEF FallFromMain, WorkType
  <2> QED  BY <1>4, <2>9, <2>1, <2>3, <2>4, <2>7, <2>8, Fits
<1>f. CASE ~ Above(n, b.tail) /\ ~ Above(n, b.next) /\ ~ Keeps(w, b.next)
  <2>1. /\ v.b \in QueueType /\ v.b.prev = b.prev /\ v.b.tail = b.tail /\ v.b.next = b.next
        /\ v.b.count = b.count - 1 /\ v.bc = DelChange(w.bc, m.next) /\ v.ok = w.ok
    BY <1>0, <1>6, <1>f, InfosTyped DEF FallFromMain, QueueType, WorkType
  <2>2. /\ p \notin {b.prev.name, b.tail.name, b.next.name} /\ ~ (Above(b.prev, n) /\ Above(n, b.tail))
        /\ ~ (Above(b.tail, n) /\ Above(n, b.next)) /\ ~ Above(n, b.tail)
    BY <1>0, <1>2, <1>f, SMTT(30) DEF Around, Above, AtLeast, SameRank, Comparable
  <2>3. Ends(U, v.b, A \ {p})
    BY <1>0, <2>1, <2>2, QueueUnmoved DEF A
  <2>4. Cardinality(A \ {p}) = MainCount + v.b.count
    BY <1>3, <1>5, <2>1, <2>2, FS_AddElement DEF Members
  <2>5. Turns(DelChange(w.bc, m.next), K, SB, (A \ M) \ {m.next.name})
    BY <1>3, <1>5, <2>2, TurnDel DEF Members
  <2>6. Turns(v.bc, K, SB, (A \ {p}) \ X)
    <3>1. (A \ M) \ {m.next.name} = (A \ {p}) \ X
      BY <1>3, <1>5, <2>2 DEF Members, X
    <3> QED  BY <3>1, <2>1, <2>5 DEF Members
  <2>7. v.ok /\ v.b.count \in MinBackup .. maxBackup
    BY <1>z, <1>f, <2>1 DEF Keeps, HasRoom
  <2>8. v \in WorkType
    BY <1>0, <1>4, <1>6, <1>f, <2>1, Zenon DEF FallFromMain, WorkType
  <2> QED  BY <1>4, <2>8, <2>1, <2>3, <2>4, <2>6, <2>7, Fits
<1> QED  BY <1>a, <1>b, <1>c, <1>d, <1>e, <1>f

\* fetch_next, when there may be no row after t.
LEMMA NextReadAtOnce ==
  ASSUME NEW T, Settled(T), NEW t, IsRow(T, t)
  PROVE  /\ PositionFound(T, t) /\ NextInfo(T, t) \in InfoType
         /\ NextInfo(T, t) = NoInfo \/ NextTo(T, t, NextInfo(T, t))
<1>1. t.name \in Rows(T) /\ t = Info(T, t.name) /\ Comparable(t)
  BY RowCompares
<1>2. PositionFound(T, t)
  BY <1>1, InfoIs DEF PositionFound, Settled
<1>3. CASE \E c \in Rows(T) : Above(t, Info(T, c))
  <2>1. NextTo(T, t, NextInfo(T, t))
    BY <1>3, NextFetched
  <2> QED  BY <1>2, <2>1, RowsAreInfos DEF NextTo
<1>4. CASE ~ \E c \in Rows(T) : Above(t, Info(T, c))
  <2>1. After(T, t.name) = {}
    BY <1>1, <1>4, AfterIs
  <2> QED  BY <1>2, <2>1, RefetchIsInfo DEF NextInfo
<1> QED  BY <1>3, <1>4

\* It enters the main queue from below.
LEMMA MainEntered ==
  ASSUME NEW T, NEW U, NEW p, NEW w, NEW K, NEW SM, NEW SB, Steps(T, U, p, w, K, SM, SB),
         ~ AtLeast(Info(T, p), w.m.tail), Above(Info(U, p), w.m.tail),
         NEW v, v = IntoMain(w, U, Info(T, p), Info(U, p))
  PROVE  Fitting(U, v, K, SM, SB)
<1> DEFINE o == Info(T, p)
           n == Info(U, p)
           m == w.m
           b == w.b
           M == Top(T, m.tail)
           A == Top(T, b.tail)
           X == (M \ {m.tail.name}) \cup {p}
           next == IF HasRoom(w) /\ SameRank(o, b.next) THEN NextInfo(U, b.tail) ELSE b.next
<1>0. /\ w \in WorkType /\ n.name = p /\ o.name = p /\ Moves(T, U, p) /\ p \in Rows(U)
      /\ m \in QueueType /\ b \in QueueType /\ PlacedQueue(T, m) /\ PlacedQueue(T, b) /\ n \in InfoType
  BY StepLayout, LayoutRows DEF Layout
<1>2. /\ Around(o, n, m) /\ Around(o, n, b) /\ Above(m.next, b.prev)
      /\ Above(m.tail, o) /\ Above(n, m.tail) /\ p \notin {m.prev.name, m.tail.name}
      /\ Above(n, b.prev)
  <2>1. Around(o, n, m) /\ Around(o, n, b) /\ Above(m.next, b.prev)
    BY StepLayout, LayoutOrder
  <2> QED  BY <1>0, <2>1 DEF Around, Above, AtLeast, SameRank, Comparable
<1>3. Members(o, n, w, K, SM, SB, M, A)
  BY StepMembers
<1>z. /\ w.ok /\ MinBackup \in Nat /\ maxBackup \in Nat
      /\ b.count \in Nat /\ b.count >= MinBackup /\ b.count <= maxBackup
  BY <1>3 DEF Members
<1>7. /\ next \in InfoType
      /\ HasRoom(w) /\ SameRank(o, b.next) =>
           /\ PositionFound(U, b.tail)
           /\ next = NoInfo \/ NextTo(U, b.tail, next)
           /\ next # NoInfo => Above(b.tail, next)
      /\ ~ (HasRoom(w) /\ SameRank(o, b.next)) => next = b.next /\ next # NoInfo
  <2>1. IsRow(T, b.tail) /\ IsRow(T, b.next) /\ Settled(T) /\ Settled(U) /\ b.next \in InfoType
    BY <1>0, StepLayout, LayoutRows, RowInfo
  <2>2. b.next # NoInfo
    BY <2>1, RowInfo
  <2>3. ASSUME HasRoom(w), SameRank(o, b.next)
        PROVE  IsRow(U, b.tail)
    <3>1. p # b.tail.name
      BY <1>0, <1>2, <2>3 DEF Around, Above, SameRank, Comparable
    <3> QED  BY <1>0, <2>1, <3>1, TopUnmoved
  <2>4. ASSUME HasRoom(w), SameRank(o, b.next)
        PROVE  /\ PositionFound(U, b.tail) /\ next \in InfoType
               /\ next = NoInfo \/ NextTo(U, b.tail, next)
    BY <2>1, <2>3, <2>4, NextReadAtOnce
  <2> HIDE DEF next
  <2>5. NextTo(U, b.tail, next) => Above(b.tail, next)
    BY DEF NextTo
  <2>6. ~ (HasRoom(w) /\ SameRank(o, b.next)) => next = b.next
    BY DEF next
  <2> QED  BY <2>1, <2>2, <2>4, <2>5, <2>6
<1> HIDE DEF M, A, X, next
<1>5. /\ n.name = p /\ p \notin M /\ (p \in A <=> AtLeast(o, b.tail)) /\ w.ok = TRUE
      /\ p \notin A => Cardinality(A \cup {p}) = MainCount + (b.count + 1)
  <2>1. n.name = p /\ p \notin M /\ (p \in A <=> AtLeast(o, b.tail)) /\ w.ok = TRUE
    BY <1>0, <1>3, InfosTyped DEF Members
  <2>2. p \notin A => Cardinality(A \cup {p}) = Cardinality(A) + 1
    BY <1>3, FS_AddElement DEF Members
  <2> QED  BY <1>3, <2>1, <2>2 DEF Members
<1>6. /\ AddChange(DelChange(w.mc, m.tail), n) \in Entries /\ AddChange(w.bc, m.tail) \in Entries
      /\ DelChange(AddChange(w.bc, m.tail), n) \in Entries
      /\ DelChange(AddChange(w.bc, m.tail), b.tail) \in Entries
  BY <1>0, InfosTyped, EntriesKept
<1>4. /\ v.m.count = MainCount /\ Ends(U, v.m, X) /\ Cardinality(X) = MainCount /\ Turns(v.mc, K, SM, X)
      /\ v.m \in QueueType /\ v.mc \in Entries
  <2>1. /\ v.m \in QueueType /\ v.m.next = m.tail /\ v.m.count = m.count
        /\ v.m.tail = (IF Above(n, m.prev) THEN m.prev ELSE n)
        /\ v.m.prev = (IF Above(n, m.prev) THEN Refetch ELSE m.prev)
        /\ v.mc = AddChange(DelChange(w.mc, m.tail), n)
    BY <1>0, InfosTyped, ZenonT(60) DEF IntoMain, WorkType, QueueType
  <2>2. ~ Above(n, m.prev) => Above(m.prev, n)
    BY <1>0, <1>2 DEF Around, Above, Comparable
  <2>3. Ends(U, v.m, X)
    BY <1>0, <1>2, <2>1, <2>2, TailPopped, TailReplaced DEF X, M
  <2>4. Cardinality(X) = MainCount
    BY <1>3, <1>5, Exchanged DEF Members, X
  <2>5. Turns(DelChange(w.mc, m.tail), K, SM, M \ {m.tail.name})
    BY <1>3, <1>5, TurnDel DEF Members
  <2>6. Turns(AddChange(DelChange(w.mc, m.tail), n), K, SM, X)
    BY <1>3, <1>5, <2>5, TurnAdd DEF Members, X
  <2> QED  BY <1>3, <2>1, <2>3, <2>4, <2>6, <1>6 DEF Members
<1>a. CASE AtLeast(o, b.tail) /\ SameRank(o, b.tail)
  <2>1. /\ v.b \in QueueType /\ v.b.prev = Refetch /\ v.b.tail = b.prev /\ v.b.next = b.next
        /\ v.b.count = b.count /\ v.bc = DelChange(AddChange(w.bc, m.tail), n) /\ v.ok = w.ok
    BY <1>0, <1>6, <1>a, InfosTyped, ZenonT(60) DEF IntoMain, QueueType, WorkType
  <2>2. /\ p = b.tail.name /\ ~ (Above(b.prev, n) /\ Above(n, b.next)) /\ Above(n, b.prev)
        /\ AtLeast(o, b.tail)
    BY <1>0, <1>2, <1>a, SMTT(30) DEF Around, Above, AtLeast, SameRank, Comparable
  <2>3. Ends(U, v.b, A)
    BY <1>0, <2>1, <2>2, TailLeft DEF A
  <2>4. Cardinality(A) = MainCount + v.b.count
    BY <1>3, <1>5, <2>1, <2>2, FS_AddElement DEF Members
  <2>5. Turns(AddChange(w.bc, m.tail), K, SB, (A \ M) \cup {m.tail.name})
    BY <1>3, <1>5, <2>2, TurnAdd DEF Members
  <2>6. Turns(DelChange(AddChange(w.bc, m.tail), n), K, SB, ((A \ M) \cup {m.tail.name}) \ {p})
    BY <1>3, <1>5, <2>2, <2>5, TurnDel DEF Members
  <2>7. Turns(v.bc, K, SB, (A) \ X)
    <3>1. ((A \ M) \cup {m.tail.name}) \ {p} = (A) \ X
      BY <1>3, <1>5, <2>2 DEF Members, X
    <3> QED  BY <3>1, <2>1, <2>6 DEF Members
  <2>8. v.ok /\ v.b.count \in MinBackup .. maxBackup
    BY <1>z, <1>a, <2>1 DEF Keeps, HasRoom
  <2>9. v \in WorkType
    BY <1>0, <1>4, <1>6, <1>a, <2>1, ZenonT(60) DEF IntoMain, WorkType
  <2> QED  BY <1>4, <2>9, <2>1, <2>3, <2>4, <2>7, <2>8, Fits
<1>b. CASE AtLeast(o, b.tail) /\ ~ SameRank(o, b.tail) /\ SameRank(o, b.prev)
  <2>1. /\ v.b \in QueueType /\ v.b.prev = Refetch /\ v.b.tail = b.tail /\ v.b.next = b.next
        /\ v.b.count = b.count /\ v.bc = DelChange(AddChange(w.bc, m.tail), n) /\ v.ok = w.ok
    BY <1>0, <1>6, <1>b, InfosTyped, ZenonT(60) DEF IntoMain, QueueType, WorkType
  <2>2. /\ p \notin {b.tail.name, b.next.name} /\ ~ (Above(b.tail, n) /\ Above(n, b.next))
        /\ Above(n, b.tail) /\ AtLeast(o, b.tail)
    BY <1>0, <1>2, <1>b, SMTT(30) DEF Around, Above, AtLeast, SameRank, Comparable
  <2>3. \E c \in Rows(U) : Above(Info(U, c), b.tail)
    BY <1>0, <2>2
  <2>4. Ends(U, v.b, A \cup {p})
    BY <1>0, <2>1, <2>2, <2>3, PrevIsRead DEF A
  <2>5. /\ A \cup {p} = A /\ Cardinality(A) = MainCount + v.b.count
    BY <1>3, <1>5, <2>1, <2>2, FS_AddElement DEF Members
  <2>6. Turns(AddChange(w.bc, m.tail), K, SB, (A \ M) \cup {m.tail.name})
    BY <1>3, <1>5, <2>2, TurnAdd DEF Members
  <2>7. Turns(DelChange(AddChange(w.bc, m.tail), n), K, SB, ((A \ M) \cup {m.tail.name}) \ {p})
    BY <1>3, <1>5, <2>2, <2>6, TurnDel DEF Members
  <2>8. Turns(v.bc, K, SB, (A) \ X)
    <3>1. ((A \ M) \cup {m.tail.name}) \ {p} = (A) \ X
      BY <1>3, <1>5, <2>2 DEF Members, X
    <3> QED  BY <3>1, <2>1, <2>7 DEF Members
  <2>9. Ends(U, v.b, A)
    BY <2>4, <2>5
  <2>10. v.ok /\ v.b.count \in MinBackup .. maxBackup
    BY <1>z, <1>b, <2>1 DEF Keeps, HasRoom
  <2>11. v \in WorkType
    BY <1>0, <1>4, <1>6, <1>b, <2>1, ZenonT(60) DEF IntoMain, WorkType
  <2> QED  BY <1>4, <2>11, <2>1, <2>9, <2>5, <2>8, <2>10, Fits
<1>c. CASE AtLeast(o, b.tail) /\ ~ SameRank(o, b.tail) /\ ~ SameRank(o, b.prev)
  <2>1. /\ v.b \in QueueType /\ v.b.prev = b.prev /\ v.b.tail = b.tail /\ v.b.next = b.next
        /\ v.b.count = b.count /\ v.bc = DelChange(AddChange(w.bc, m.tail), n) /\ v.ok = w.ok
    BY <1>0, <1>6, <1>c, InfosTyped, ZenonT(60) DEF IntoMain, QueueType, WorkType
  <2>2. /\ p \notin {b.prev.name, b.tail.name, b.next.name} /\ ~ (Above(b.prev, n) /\ Above(n, b.tail))
        /\ ~ (Above(b.tail, n) /\ Above(n, b.next)) /\ Above(n, b.tail) /\ AtLeast(o, b.tail)
    BY <1>0, <1>2, <1>c, SMTT(30) DEF Around, Above, AtLeast, SameRank, Comparable
  <2>3. Ends(U, v.b, A \cup {p})
    BY <1>0, <2>1, <2>2, QueueUnmoved DEF A
  <2>4. /\ A \cup {p} = A /\ Cardinality(A) = MainCount + v.b.count
    BY <1>3, <1>5, <2>1, <2>2, FS_AddElement DEF Members
  <2>5. Turns(AddChange(w.bc, m.tail), K, SB, (A \ M) \cup {m.tail.name})
    BY <1>3, <1>5, <2>2, TurnAdd DEF Members
  <2>6. Turns(DelChange(AddChange(w.bc, m.tail), n), K, SB, ((A \ M) \cup {m.tail.name}) \ {p})
    BY <1>3, <1>5, <2>2, <2>5, TurnDel DEF Members
  <2>7. Turns(v.bc, K, SB, (A) \ X)
    <3>1. ((A \ M) \cup {m.tail.name}) \ {p} = (A) \ X
      BY <1>3, <1>5, <2>2 DEF Members, X
    <3> QED  BY <3>1, <2>1, <2>6 DEF Members
  <2>8. Ends(U, v.b, A)
    BY <2>3, <2>4
  <2>9. v.ok /\ v.b.count \in MinBackup .. maxBackup
    BY <1>z, <1>c, <2>1 DEF Keeps, HasRoom
  <2>10. v \in WorkType
    BY <1>0, <1>4, <1>6, <1>c, <2>1, ZenonT(60) DEF IntoMain, WorkType
  <2> QED  BY <1>4, <2>10, <2>1, <2>8, <2>4, <2>7, <2>9, Fits
<1>d. CASE ~ AtLeast(o, b.tail) /\ (~ HasRoom(w) \/ next = NoInfo)
  <2>1. /\ v.b \in QueueType /\ v.b.prev = Refetch /\ v.b.tail = b.prev /\ v.b.next = b.tail
        /\ v.b.count = b.count /\ v.bc = DelChange(AddChange(w.bc, m.tail), b.tail) /\ v.ok
    BY <1>0, <1>6, <1>d, <1>5, <1>7, InfosTyped DEF IntoMain, next, QueueType, WorkType
  <2>2. /\ p \notin {b.prev.name, b.tail.name} /\ Above(n, b.prev) /\ ~ AtLeast(o, b.tail)
    BY <1>0, <1>2, <1>d, SMTT(30) DEF Around, Above, AtLeast, SameRank, Comparable
  <2>3. Ends(U, v.b, (A \ {b.tail.name}) \cup {p})
    BY <1>0, <2>1, <2>2, TailPopped DEF A
  <2>4. Cardinality((A \ {b.tail.name}) \cup {p}) = MainCount + v.b.count
    BY <1>3, <1>5, <2>1, <2>2, Exchanged DEF Members
  <2>5. Turns(AddChange(w.bc, m.tail), K, SB, (A \ M) \cup {m.tail.name})
    BY <1>3, <1>5, <2>2, TurnAdd DEF Members
  <2>6. Turns(DelChange(AddChange(w.bc, m.tail), b.tail), K, SB, ((A \ M) \cup {m.tail.name}) \ {b.tail.name})
    BY <1>3, <1>5, <2>2, <2>5, TurnDel DEF Members
  <2>7. Turns(v.bc, K, SB, ((A \ {b.tail.name}) \cup {p}) \ X)
    <3>1. ((A \ M) \cup {m.tail.name}) \ {b.tail.name} = ((A \ {b.tail.name}) \cup {p}) \ X
      BY <1>3, <1>5, <2>2 DEF Members, X
    <3> QED  BY <3>1, <2>1, <2>6 DEF Members
  <2>8. v.ok /\ v.b.count \in MinBackup .. maxBackup
    BY <1>z, <1>d, <2>1 DEF Keeps, HasRoom
  <2>9. v \in WorkType
    BY <1>0, <1>4, <1>6, <1>d, <1>5, <1>7, <2>1, Zenon DEF IntoMain, next, WorkType
  <2> QED  BY <1>4, <2>9, <2>1, <2>3, <2>4, <2>7, <2>8, Fits
<1>e. CASE ~ AtLeast(o, b.tail) /\ HasRoom(w) /\ next # NoInfo /\ SameRank(o, b.next)
  <2>1. /\ v.b \in QueueType /\ v.b.prev = b.prev /\ v.b.tail = b.tail /\ v.b.next = next
        /\ v.b.count = b.count + 1 /\ v.bc = AddChange(w.bc, m.tail) /\ v.ok
    BY <1>0, <1>6, <1>e, <1>5, <1>7, InfosTyped, ZenonT(60) DEF IntoMain, next, QueueType, WorkType
  <2>2. /\ p \notin {b.prev.name, b.tail.name} /\ ~ (Above(b.prev, n) /\ Above(n, b.tail))
        /\ Above(n, b.tail) /\ ~ AtLeast(o, b.tail)
    BY <1>0, <1>2, <1>e, SMTT(30) DEF Around, Above, AtLeast, SameRank, Comparable
  <2>3. FromBelow(U, b.tail, v.b.next)
    BY <2>1, <1>7, <1>e DEF FromBelow
  <2>4. Ends(U, v.b, A \cup {p})
    BY <1>0, <2>1, <2>2, <2>3, NextIsRead DEF A
  <2>5. Cardinality(A \cup {p}) = MainCount + v.b.count
    BY <1>3, <1>5, <2>1, <2>2, FS_AddElement DEF Members
  <2>6. Turns(AddChange(w.bc, m.tail), K, SB, (A \ M) \cup {m.tail.name})
    BY <1>3, <1>5, <2>2, TurnAdd DEF Members
  <2>7. Turns(v.bc, K, SB, (A \cup {p}) \ X)
    <3>1. (A \ M) \cup {m.tail.name} = (A \cup {p}) \ X
      BY <1>3, <1>5, <2>2 DEF Members, X
    <3> QED  BY <3>1, <2>1, <2>6 DEF Members
  <2>8. v.ok /\ v.b.count \in MinBackup .. maxBackup
    BY <1>z, <1>e, <2>1 DEF Keeps, HasRoom
  <2>9. v \in WorkType
    BY <1>0, <1>4, <1>6, <1>e, <1>5, <1>7, <2>1, ZenonT(60) DEF IntoMain, next, WorkType
  <2> QED  BY <1>4, <2>9, <2>1, <2>4, <2>5, <2>7, <2>8, Fits
<1>f. CASE ~ AtLeast(o, b.tail) /\ HasRoom(w) /\ next # NoInfo /\ ~ SameRank(o, b.next)
  <2>1. /\ v.b \in QueueType /\ v.b.prev = b.prev /\ v.b.tail = b.tail /\ v.b.next = b.next
        /\ v.b.count = b.count + 1 /\ v.bc = AddChange(w.bc, m.tail) /\ v.ok
    BY <1>0, <1>6, <1>f, <1>5, <1>7, InfosTyped, ZenonT(60) DEF IntoMain, next, QueueType, WorkType
  <2>2. /\ p \notin {b.prev.name, b.tail.name, b.next.name} /\ ~ (Above(b.prev, n) /\ Above(n, b.tail))
        /\ ~ (Above(b.tail, n) /\ Above(n, b.next)) /\ Above(n, b.tail) /\ ~ AtLeast(o, b.tail)
    BY <1>0, <1>2, <1>f, SMTT(30) DEF Around, Above, AtLeast, SameRank, Comparable
  <2>3. Ends(U, v.b, A \cup {p})
    BY <1>0, <2>1, <2>2, QueueUnmoved DEF A
  <2>4. Cardinality(A \cup {p}) = MainCount + v.b.count
    BY <1>3, <1>5, <2>1, <2>2, FS_AddElement DEF Members
  <2>5. Turns(AddChange(w.bc, m.tail), K, SB, (A \ M) \cup {m.tail.name})
    BY <1>3, <1>5, <2>2, TurnAdd DEF Members
  <2>6. Turns(v.bc, K, SB, (A \cup {p}) \ X)
    <3>1. (A \ M) \cup {m.tail.name} = (A \cup {p}) \ X
      BY <1>3, <1>5, <2>2 DEF Members, X
    <3> QED  BY <3>1, <2>1, <2>5 DEF Members
  <2>7. v.ok /\ v.b.count \in MinBackup .. maxBackup
    BY <1>z, <1>f, <2>1 DEF Keeps, HasRoom
  <2>8. v \in WorkType
    BY <1>0, <1>4, <1>6, <1>f, <1>5, <1>7, <2>1, ZenonT(60) DEF IntoMain, next, WorkType
  <2> QED  BY <1>4, <2>8, <2>1, <2>3, <2>4, <2>6, <2>7, Fits
<1> QED  BY <1>a, <1>b, <1>c, <1>d, <1>e, <1>f

\* It was in the backup queue and stays below the main queue.
LEMMA BackupMoved ==
  ASSUME NEW T, NEW U, NEW p, NEW w, NEW K, NEW SM, NEW SB, Steps(T, U, p, w, K, SM, SB),
         ~ AtLeast(Info(T, p), w.m.tail), ~ Above(Info(U, p), w.m.tail), AtLeast(Info(T, p), w.b.tail),
         NEW v, v = MoveInBackup(w, Info(T, p), Info(U, p))
  PROVE  Fitting(U, v, K, SM, SB)
<1> DEFINE o == Info(T, p)
           n == Info(U, p)
           m == w.m
           b == w.b
           M == Top(T, m.tail)
           A == Top(T, b.tail)
           X == M
           next == IF AtLeast(n, m.next) THEN n ELSE IF SameRank(o, m.next) THEN Refetch ELSE m.next
<1>0. /\ w \in WorkType /\ n.name = p /\ o.name = p /\ Moves(T, U, p) /\ p \in Rows(U) /\ n.key = o.key
      /\ m \in QueueType /\ b \in QueueType /\ PlacedQueue(T, m) /\ PlacedQueue(T, b) /\ n \in InfoType
  BY StepLayout, LayoutRows DEF Layout
<1>2. /\ Around(o, n, m) /\ Around(o, n, b) /\ Above(m.next, b.prev)
      /\ Above(m.tail, o) /\ Above(m.tail, n) /\ AtLeast(o, b.tail)
      /\ p \notin {m.prev.name, m.tail.name, b.next.name}
      /\ SameRank(o, m.next) => ~ SameRank(o, b.prev) /\ ~ SameRank(o, b.tail)
      /\ SameRank(o, b.prev) => ~ SameRank(o, b.tail)
  <2>1. Around(o, n, m) /\ Around(o, n, b) /\ Above(m.next, b.prev)
    BY StepLayout, LayoutOrder
  <2> QED  BY <1>0, <2>1 DEF Around, Above, AtLeast, SameRank, Comparable
<1>1. /\ n.key = o.key
      /\ SameRank(o, m.next) => ~ SameRank(o, b.prev) /\ ~ SameRank(o, b.tail)
      /\ SameRank(o, b.prev) => ~ SameRank(o, b.tail)
  BY <1>0, <1>2
<1>3. Members(o, n, w, K, SM, SB, M, A)
  BY StepMembers
<1>z. /\ w.ok /\ MinBackup \in Nat /\ maxBackup \in Nat
      /\ b.count \in Nat /\ b.count >= MinBackup /\ b.count <= maxBackup
  BY <1>3 DEF Members
<1>7. SameRank(n, b.prev) /\ SameRank(o, b.prev) => n = b.prev
  <2>1. SameRank(n, b.prev) /\ SameRank(o, b.prev) => n.votes = o.votes /\ o = b.prev
    BY <1>0, <1>2 DEF Around, SameRank
  <2>2. n.votes = o.votes => n = o
    BY <1>0 DEF Info
  <2> QED  BY <2>1, <2>2, SMTT(30)
<1>8. \E c \in Rows(U) : Above(Info(U, c), b.prev) /\ Above(Info(U, c), b.tail)
  <2>1. m.tail.name \in Rows(U) /\ Info(U, m.tail.name) = m.tail
    BY <1>0, <1>2, StepLayout, LayoutRows, RowInfo, MovedCompare
  <2>2. Above(m.tail, b.prev) /\ Above(m.tail, b.tail)
    BY <1>2 DEF Around, Above, Comparable
  <2> QED  BY <2>1, <2>2
<1>4. ASSUME v.m \in QueueType, v.m.prev = m.prev, v.m.tail = m.tail, v.m.next = next
      PROVE  Ends(U, v.m, M)
  <2>1. CASE AtLeast(n, m.next)
    <3>1. /\ v.m.next = n
          /\ \/ p = m.next.name /\ ~ Above(o, n)
             \/ p # m.next.name /\ Above(n, m.next)
      BY <1>0, <1>2, <1>4, <2>1, SMTT(30) DEF Around, Above, AtLeast, SameRank, Comparable
    <3>2. Ends(U, v.m, M \ {p})
      BY <1>0, <1>2, <1>4, <3>1, NextIsMoved
    <3> QED  BY <1>0, <1>2, <1>3, <3>2 DEF Members
  <2>2. CASE ~ AtLeast(n, m.next) /\ SameRank(o, m.next)
    <3>1. ~ (Above(m.prev, n) /\ Above(n, m.tail)) /\ ~ Above(n, m.tail)
      BY <1>2 DEF Around, Above, Comparable
    <3>2. FromBelow(U, m.tail, v.m.next)
      BY <1>0, <1>2, <1>4, <2>2 DEF FromBelow
    <3>3. Ends(U, v.m, M \ {p})
      BY <1>0, <1>2, <1>4, <3>1, <3>2, NextIsRead
    <3> QED  BY <1>0, <1>2, <1>3, <3>3 DEF Members
  <2>3. CASE ~ AtLeast(n, m.next) /\ ~ SameRank(o, m.next)
    <3>1. /\ ~ (Above(m.prev, n) /\ Above(n, m.tail)) /\ ~ (Above(m.tail, n) /\ Above(n, m.next))
          /\ ~ Above(n, m.tail) /\ p # m.next.name
      BY <1>0, <1>2, <2>3, SMTT(30) DEF Around, Above, AtLeast, SameRank, Comparable
    <3>2. Ends(U, v.m, M \ {p})
      BY <1>0, <1>2, <1>4, <2>3, <3>1, QueueUnmoved
    <3> QED  BY <1>0, <1>2, <1>3, <3>2 DEF Members
  <2> QED  BY <2>1, <2>2, <2>3
<1> HIDE DEF M, A, X
<1>5. /\ n.name = p /\ p \notin M /\ p \in A /\ w.ok = TRUE
      /\ Cardinality(A \ {p}) = MainCount + (b.count - 1)
  <2>1. n.name = p /\ p \notin M /\ p \in A /\ w.ok = TRUE
    BY <1>0, <1>3, InfosTyped DEF Members
  <2>2. Cardinality(A \ {p}) = Cardinality(A) - 1
    BY <1>3, <2>1, FS_RemoveElement DEF Members
  <2> QED  BY <1>3, <2>1, <2>2 DEF Members
<1>6. /\ DelChange(w.bc, n) \in Entries /\ AddChange(DelChange(w.bc, n), b.next) \in Entries
  BY <1>0, InfosTyped, EntriesKept
<1>a. CASE AtLeast(n, m.next) /\ SameRank(o, b.tail)
  <2>1. /\ v.b \in QueueType /\ v.b.prev = Refetch /\ v.b.tail = b.prev /\ v.b.next = b.next
        /\ v.b.count = b.count /\ v.bc = w.bc /\ v.ok = w.ok /\ v.m \in QueueType /\ v.m.prev = m.prev
        /\ v.m.tail = m.tail /\ v.m.next = next /\ v.m.count = m.count /\ v.mc = w.mc
    BY <1>0, <1>6, <1>a, <1>1, InfosTyped DEF MoveInBackup, next, QueueType, WorkType
  <2>m. /\ v.m.count = MainCount /\ Ends(U, v.m, X) /\ Cardinality(X) = MainCount /\ Turns(v.mc, K, SM, X)
        /\ v.m \in QueueType /\ v.mc \in Entries
    BY <1>0, <1>3, <1>4, <2>1, InfosTyped DEF Members, X
  <2>2. /\ p = b.tail.name /\ ~ (Above(b.prev, n) /\ Above(n, b.next)) /\ Above(n, b.prev)
    BY <1>0, <1>2, <1>a, SMTT(30) DEF Around, Above, AtLeast, SameRank, Comparable
  <2>3. \E c \in Rows(U) : Above(Info(U, c), b.prev)
    BY <1>0, <2>2
  <2>4. Ends(U, v.b, A)
    BY <1>0, <2>1, <2>2, <2>3, TailLeft DEF A
  <2>5. Cardinality(A) = MainCount + v.b.count
    BY <1>3, <1>5, <2>1, <2>2, FS_AddElement DEF Members
  <2>6. Turns(v.bc, K, SB, (A) \ X)
    <3>1. A \ M = (A) \ X
      BY <1>3, <1>5, <2>2 DEF Members, X
    <3> QED  BY <1>3, <3>1, <2>1 DEF Members
  <2>7. v.ok /\ v.b.count \in MinBackup .. maxBackup
    BY <1>z, <1>a, <2>1 DEF Keeps, HasRoom
  <2>8. v \in WorkType
    BY <1>0, <2>m, <1>6, <1>a, <1>1, <2>1, Zenon DEF MoveInBackup, next, WorkType
  <2> QED  BY <2>m, <2>8, <2>1, <2>4, <2>5, <2>6, <2>7, Fits
<1>b. CASE AtLeast(n, m.next) /\ ~ SameRank(o, b.tail) /\ SameRank(o, b.prev)
  <2>1. /\ v.b \in QueueType /\ v.b.prev = Refetch /\ v.b.tail = b.tail /\ v.b.next = b.next
        /\ v.b.count = b.count /\ v.bc = w.bc /\ v.ok = w.ok /\ v.m \in QueueType /\ v.m.prev = m.prev
        /\ v.m.tail = m.tail /\ v.m.next = next /\ v.m.count = m.count /\ v.mc = w.mc
    BY <1>0, <1>6, <1>b, <1>1, InfosTyped DEF MoveInBackup, next, QueueType, WorkType
  <2>m. /\ v.m.count = MainCount /\ Ends(U, v.m, X) /\ Cardinality(X) = MainCount /\ Turns(v.mc, K, SM, X)
        /\ v.m \in QueueType /\ v.mc \in Entries
    BY <1>0, <1>3, <1>4, <2>1, InfosTyped DEF Members, X
  <2>2. /\ p \notin {b.tail.name, b.next.name} /\ ~ (Above(b.tail, n) /\ Above(n, b.next))
        /\ Above(n, b.tail)
    BY <1>0, <1>2, <1>b, SMTT(30) DEF Around, Above, AtLeast, SameRank, Comparable
  <2>3. \E c \in Rows(U) : Above(Info(U, c), b.tail)
    BY <1>0, <2>2
  <2>4. Ends(U, v.b, A \cup {p})
    BY <1>0, <2>1, <2>2, <2>3, PrevIsRead DEF A
  <2>5. /\ A \cup {p} = A /\ Cardinality(A) = MainCount + v.b.count
    BY <1>3, <1>5, <2>1, <2>2, FS_AddElement DEF Members
  <2>6. Turns(v.bc, K, SB, (A) \ X)
    <3>1. A \ M = (A) \ X
      BY <1>3, <1>5, <2>2 DEF Members, X
    <3> QED  BY <1>3, <3>1, <2>1 DEF Members
  <2>7. Ends(U, v.b, A)
    BY <2>4, <2>5
  <2>8. v.ok /\ v.b.count \in MinBackup .. maxBackup
    BY <1>z, <1>b, <2>1 DEF Keeps, HasRoom
  <2>9. v \in WorkType
    BY <1>0, <2>m, <1>6, <1>b, <1>1, <2>1, Zenon DEF MoveInBackup, next, WorkType
  <2> QED  BY <2>m, <2>9, <2>1, <2>7, <2>5, <2>6, <2>8, Fits
<1>c. CASE AtLeast(n, m.next) /\ ~ SameRank(o, b.tail) /\ ~ SameRank(o, b.prev)
  <2>1. /\ v.b \in QueueType /\ v.b.prev = b.prev /\ v.b.tail = b.tail /\ v.b.next = b.next
        /\ v.b.count = b.count /\ v.bc = w.bc /\ v.ok = w.ok /\ v.m \in QueueType /\ v.m.prev = m.prev
        /\ v.m.tail = m.tail /\ v.m.next = next /\ v.m.count = m.count /\ v.mc = w.mc
    BY <1>0, <1>6, <1>c, <1>1, InfosTyped DEF MoveInBackup, next, QueueType, WorkType
  <2>m. /\ v.m.count = MainCount /\ Ends(U, v.m, X) /\ Cardinality(X) = MainCount /\ Turns(v.mc, K, SM, X)
        /\ v.m \in QueueType /\ v.mc \in Entries
    BY <1>0, <1>3, <1>4, <2>1, InfosTyped DEF Members, X
  <2>2. /\ p \notin {b.prev.name, b.tail.name, b.next.name} /\ ~ (Above(b.prev, n) /\ Above(n, b.tail))
        /\ ~ (Above(b.tail, n) /\ Above(n, b.next)) /\ Above(n, b.tail)
    BY <1>0, <1>2, <1>c, SMTT(30) DEF Around, Above, AtLeast, SameRank, Comparable
  <2>3. Ends(U, v.b, A \cup {p})
    BY <1>0, <2>1, <2>2, QueueUnmoved DEF A
  <2>4. /\ A \cup {p} = A /\ Cardinality(A) = MainCount + v.b.count
    BY <1>3, <1>5, <2>1, <2>2, FS_AddElement DEF Members
  <2>5. Turns(v.bc, K, SB, (A) \ X)
    <3>1. A \ M = (A) \ X
      BY <1>3, <1>5, <2>2 DEF Members, X
    <3> QED  BY <1>3, <3>1, <2>1 DEF Members
  <2>6. Ends(U, v.b, A)
    BY <2>3, <2>4
  <2>7. v.ok /\ v.b.count \in MinBackup .. maxBackup
    BY <1>z, <1>c, <2>1 DEF Keeps, HasRoom
  <2>8. v \in WorkType
    BY <1>0, <2>m, <1>6, <1>c, <1>1, <2>1, Zenon DEF MoveInBackup, next, WorkType
  <2> QED  BY <2>m, <2>8, <2>1, <2>6, <2>4, <2>5, <2>7, Fits
<1>d. CASE ~ AtLeast(n, m.next) /\ AtLeast(n, b.prev) /\ SameRank(o, b.tail)
  <2>1. /\ v.b \in QueueType /\ v.b.prev = Refetch /\ v.b.tail = b.prev /\ v.b.next = b.next
        /\ v.b.count = b.count /\ v.bc = w.bc /\ v.ok = w.ok /\ v.m \in QueueType /\ v.m.prev = m.prev
        /\ v.m.tail = m.tail /\ v.m.next = next /\ v.m.count = m.count /\ v.mc = w.mc
    BY <1>0, <1>6, <1>d, <1>1, InfosTyped DEF MoveInBackup, next, QueueType, WorkType
  <2>m. /\ v.m.count = MainCount /\ Ends(U, v.m, X) /\ Cardinality(X) = MainCount /\ Turns(v.mc, K, SM, X)
        /\ v.m \in QueueType /\ v.mc \in Entries
    BY <1>0, <1>3, <1>4, <2>1, InfosTyped DEF Members, X
  <2>2. /\ p = b.tail.name /\ ~ (Above(b.prev, n) /\ Above(n, b.next)) /\ Above(n, b.prev)
    BY <1>0, <1>2, <1>d, SMTT(30) DEF Around, Above, AtLeast, SameRank, Comparable
  <2>3. \E c \in Rows(U) : Above(Info(U, c), b.prev)
    BY <1>0, <2>2
  <2>4. Ends(U, v.b, A)
    BY <1>0, <2>1, <2>2, <2>3, TailLeft DEF A
  <2>5. Cardinality(A) = MainCount + v.b.count
    BY <1>3, <1>5, <2>1, <2>2, FS_AddElement DEF Members
  <2>6. Turns(v.bc, K, SB, (A) \ X)
    <3>1. A \ M = (A) \ X
      BY <1>3, <1>5, <2>2 DEF Members, X
    <3> QED  BY <1>3, <3>1, <2>1 DEF Members
  <2>7. v.ok /\ v.b.count \in MinBackup .. maxBackup
    BY <1>z, <1>d, <2>1 DEF Keeps, HasRoom
  <2>8. v \in WorkType
    BY <1>0, <2>m, <1>6, <1>d, <1>1, <2>1, Zenon DEF MoveInBackup, next, WorkType
  <2> QED  BY <2>m, <2>8, <2>1, <2>4, <2>5, <2>6, <2>7, Fits
<1>e. CASE ~ AtLeast(n, m.next) /\ AtLeast(n, b.prev) /\ ~ SameRank(o, b.tail) /\ SameRank(o, b.prev) /\ SameRank(n, b.prev)
  <2>1. /\ v.b \in QueueType /\ v.b.prev = n /\ v.b.tail = b.tail /\ v.b.next = b.next
        /\ v.b.count = b.count /\ v.bc = w.bc /\ v.ok = w.ok /\ v.m \in QueueType /\ v.m.prev = m.prev
        /\ v.m.tail = m.tail /\ v.m.next = next /\ v.m.count = m.count /\ v.mc = w.mc
    BY <1>0, <1>6, <1>e, <1>7, <1>1, InfosTyped DEF MoveInBackup, next, QueueType, WorkType
  <2>m. /\ v.m.count = MainCount /\ Ends(U, v.m, X) /\ Cardinality(X) = MainCount /\ Turns(v.mc, K, SM, X)
        /\ v.m \in QueueType /\ v.mc \in Entries
    BY <1>0, <1>3, <1>4, <2>1, InfosTyped DEF Members, X
  <2>2. /\ p \notin {b.tail.name, b.next.name} /\ Above(n, b.tail)
        /\ \/ p = b.prev.name /\ ~ Above(n, o)
           \/ p # b.prev.name /\ Above(b.prev, n)
    BY <1>0, <1>2, <1>e, SMTT(30) DEF Around, Above, AtLeast, SameRank, Comparable
  <2>3. Ends(U, v.b, A \cup {p})
    BY <1>0, <2>1, <2>2, PrevIsMoved DEF A
  <2>4. /\ A \cup {p} = A /\ Cardinality(A) = MainCount + v.b.count
    BY <1>3, <1>5, <2>1, <2>2, FS_AddElement DEF Members
  <2>5. Turns(v.bc, K, SB, (A) \ X)
    <3>1. A \ M = (A) \ X
      BY <1>3, <1>5, <2>2 DEF Members, X
    <3> QED  BY <1>3, <3>1, <2>1 DEF Members
  <2>6. Ends(U, v.b, A)
    BY <2>3, <2>4
  <2>7. v.ok /\ v.b.count \in MinBackup .. maxBackup
    BY <1>z, <1>e, <2>1 DEF Keeps, HasRoom
  <2>8. v \in WorkType
    BY <1>0, <2>m, <1>6, <1>e, <1>7, <1>1, <2>1, Zenon DEF MoveInBackup, next, WorkType
  <2> QED  BY <2>m, <2>8, <2>1, <2>6, <2>4, <2>5, <2>7, Fits
<1>f. CASE ~ AtLeast(n, m.next) /\ AtLeast(n, b.prev) /\ ~ SameRank(o, b.tail) /\ SameRank(o, b.prev) /\ ~ SameRank(n, b.prev)
  <2>1. /\ v.b \in QueueType /\ v.b.prev = Refetch /\ v.b.tail = b.tail /\ v.b.next = b.next
        /\ v.b.count = b.count /\ v.bc = w.bc /\ v.ok = w.ok /\ v.m \in QueueType /\ v.m.prev = m.prev
        /\ v.m.tail = m.tail /\ v.m.next = next /\ v.m.count = m.count /\ v.mc = w.mc
    BY <1>0, <1>6, <1>f, <1>1, InfosTyped DEF MoveInBackup, next, QueueType, WorkType
  <2>m. /\ v.m.count = MainCount /\ Ends(U, v.m, X) /\ Cardinality(X) = MainCount /\ Turns(v.mc, K, SM, X)
        /\ v.m \in QueueType /\ v.mc \in Entries
    BY <1>0, <1>3, <1>4, <2>1, InfosTyped DEF Members, X
  <2>2. /\ p \notin {b.tail.name, b.next.name} /\ ~ (Above(b.tail, n) /\ Above(n, b.next))
        /\ Above(n, b.tail)
    BY <1>0, <1>2, <1>f, SMTT(30) DEF Around, Above, AtLeast, SameRank, Comparable
  <2>3. \E c \in Rows(U) : Above(Info(U, c), b.tail)
    BY <1>0, <2>2
  <2>4. Ends(U, v.b, A \cup {p})
    BY <1>0, <2>1, <2>2, <2>3, PrevIsRead DEF A
  <2>5. /\ A \cup {p} = A /\ Cardinality(A) = MainCount + v.b.count
    BY <1>3, <1>5, <2>1, <2>2, FS_AddElement DEF Members
  <2>6. Turns(v.bc, K, SB, (A) \ X)
    <3>1. A \ M = (A) \ X
      BY <1>3, <1>5, <2>2 DEF Members, X
    <3> QED  BY <1>3, <3>1, <2>1 DEF Members
  <2>7. Ends(U, v.b, A)
    BY <2>4, <2>5
  <2>8. v.ok /\ v.b.count \in MinBackup .. maxBackup
    BY <1>z, <1>f, <2>1 DEF Keeps, HasRoom
  <2>9. v \in WorkType
    BY <1>0, <2>m, <1>6, <1>f, <1>1, <2>1, Zenon DEF MoveInBackup, next, WorkType
  <2> QED  BY <2>m, <2>9, <2>1, <2>7, <2>5, <2>6, <2>8, Fits
<1>g. CASE ~ AtLeast(n, m.next) /\ AtLeast(n, b.prev) /\ ~ SameRank(o, b.tail) /\ ~ SameRank(o, b.prev)
  <2>1. /\ v.b \in QueueType /\ v.b.prev = b.prev /\ v.b.tail = b.tail /\ v.b.next = b.next
        /\ v.b.count = b.count /\ v.bc = w.bc /\ v.ok = w.ok /\ v.m \in QueueType /\ v.m.prev = m.prev
        /\ v.m.tail = m.tail /\ v.m.next = next /\ v.m.count = m.count /\ v.mc = w.mc
    BY <1>0, <1>6, <1>g, <1>1, InfosTyped DEF MoveInBackup, next, QueueType, WorkType
  <2>m. /\ v.m.count = MainCount /\ Ends(U, v.m, X) /\ Cardinality(X) = MainCount /\ Turns(v.mc, K, SM, X)
        /\ v.m \in QueueType /\ v.mc \in Entries
    BY <1>0, <1>3, <1>4, <2>1, InfosTyped DEF Members, X
  <2>2. /\ p \notin {b.prev.name, b.tail.name, b.next.name} /\ ~ (Above(b.prev, n) /\ Above(n, b.tail))
        /\ ~ (Above(b.tail, n) /\ Above(n, b.next)) /\ Above(n, b.tail)
    BY <1>0, <1>2, <1>g, SMTT(30) DEF Around, Above, AtLeast, SameRank, Comparable
  <2>3. Ends(U, v.b, A \cup {p})
    BY <1>0, <2>1, <2>2, QueueUnmoved DEF A
  <2>4. /\ A \cup {p} = A /\ Cardinality(A) = MainCount + v.b.count
    BY <1>3, <1>5, <2>1, <2>2, FS_AddElement DEF Members
  <2>5. Turns(v.bc, K, SB, (A) \ X)
    <3>1. A \ M = (A) \ X
      BY <1>3, <1>5, <2>2 DEF Members, X
    <3> QED  BY <1>3, <3>1, <2>1 DEF Members
  <2>6. Ends(U, v.b, A)
    BY <2>3, <2>4
  <2>7. v.ok /\ v.b.count \in MinBackup .. maxBackup
    BY <1>z, <1>g, <2>1 DEF Keeps, HasRoom
  <2>8. v \in WorkType
    BY <1>0, <2>m, <1>6, <1>g, <1>1, <2>1, Zenon DEF MoveInBackup, next, WorkType
  <2> QED  BY <2>m, <2>8, <2>1, <2>6, <2>4, <2>5, <2>7, Fits
<1>h. CASE ~ AtLeast(n, m.next) /\ ~ AtLeast(n, b.prev) /\ AtLeast(n, b.tail) /\ SameRank(o, b.tail)
  <2>1. /\ v.b \in QueueType /\ v.b.prev = b.prev /\ v.b.tail = n /\ v.b.next = b.next
        /\ v.b.count = b.count /\ v.bc = w.bc /\ v.ok = w.ok /\ v.m \in QueueType /\ v.m.prev = m.prev
        /\ v.m.tail = m.tail /\ v.m.next = next /\ v.m.count = m.count /\ v.mc = w.mc
    BY <1>0, <1>6, <1>h, <1>1, InfosTyped DEF MoveInBackup, next, QueueType, WorkType
  <2>m. /\ v.m.count = MainCount /\ Ends(U, v.m, X) /\ Cardinality(X) = MainCount /\ Turns(v.mc, K, SM, X)
        /\ v.m \in QueueType /\ v.mc \in Entries
    BY <1>0, <1>3, <1>4, <2>1, InfosTyped DEF Members, X
  <2>2. /\ p = b.tail.name /\ Above(b.prev, n) /\ Above(n, b.next)
    BY <1>0, <1>2, <1>h, SMTT(30) DEF Around, Above, AtLeast, SameRank, Comparable
  <2>3. Ends(U, v.b, A)
    BY <1>0, <2>1, <2>2, TailStays, SMTT(60) DEF A
  <2>4. Cardinality(A) = MainCount + v.b.count
    BY <1>3, <1>5, <2>1, <2>2, FS_AddElement DEF Members
  <2>5. Turns(v.bc, K, SB, (A) \ X)
    <3>1. A \ M = (A) \ X
      BY <1>3, <1>5, <2>2 DEF Members, X
    <3> QED  BY <1>3, <3>1, <2>1 DEF Members
  <2>6. v.ok /\ v.b.count \in MinBackup .. maxBackup
    BY <1>z, <1>h, <2>1 DEF Keeps, HasRoom
  <2>7. v \in WorkType
    BY <1>0, <2>m, <1>6, <1>h, <1>1, <2>1, Zenon DEF MoveInBackup, next, WorkType
  <2> QED  BY <2>m, <2>7, <2>1, <2>3, <2>4, <2>5, <2>6, Fits
<1>i. CASE ~ AtLeast(n, m.next) /\ ~ AtLeast(n, b.prev) /\ AtLeast(n, b.tail) /\ ~ SameRank(o, b.tail)
  <2>1. /\ v.b \in QueueType /\ v.b.prev = n /\ v.b.tail = b.tail /\ v.b.next = b.next
        /\ v.b.count = b.count /\ v.bc = w.bc /\ v.ok = w.ok /\ v.m \in QueueType /\ v.m.prev = m.prev
        /\ v.m.tail = m.tail /\ v.m.next = next /\ v.m.count = m.count /\ v.mc = w.mc
    BY <1>0, <1>6, <1>i, <1>1, InfosTyped DEF MoveInBackup, next, QueueType, WorkType
  <2>m. /\ v.m.count = MainCount /\ Ends(U, v.m, X) /\ Cardinality(X) = MainCount /\ Turns(v.mc, K, SM, X)
        /\ v.m \in QueueType /\ v.mc \in Entries
    BY <1>0, <1>3, <1>4, <2>1, InfosTyped DEF Members, X
  <2>2. /\ p \notin {b.tail.name, b.next.name} /\ Above(n, b.tail)
        /\ \/ p = b.prev.name /\ ~ Above(n, o)
           \/ p # b.prev.name /\ Above(b.prev, n)
    BY <1>0, <1>2, <1>i, SMTT(30) DEF Around, Above, AtLeast, SameRank, Comparable
  <2>3. Ends(U, v.b, A \cup {p})
    BY <1>0, <2>1, <2>2, PrevIsMoved DEF A
  <2>4. /\ A \cup {p} = A /\ Cardinality(A) = MainCount + v.b.count
    BY <1>3, <1>5, <2>1, <2>2, FS_AddElement DEF Members
  <2>5. Turns(v.bc, K, SB, (A) \ X)
    <3>1. A \ M = (A) \ X
      BY <1>3, <1>5, <2>2 DEF Members, X
    <3> QED  BY <1>3, <3>1, <2>1 DEF Members
  <2>6. Ends(U, v.b, A)
    BY <2>3, <2>4
  <2>7. v.ok /\ v.b.count \in MinBackup .. maxBackup
    BY <1>z, <1>i, <2>1 DEF Keeps, HasRoom
  <2>8. v \in WorkType
    BY <1>0, <2>m, <1>6, <1>i, <1>1, <2>1, Zenon DEF MoveInBackup, next, WorkType
  <2> QED  BY <2>m, <2>8, <2>1, <2>6, <2>4, <2>5, <2>7, Fits
<1>j. CASE ~ AtLeast(n, m.next) /\ ~ AtLeast(n, b.prev) /\ ~ AtLeast(n, b.tail) /\ Above(n, b.next) /\ Keeps(w, n) /\ SameRank(o, b.tail)
  <2>1. /\ v.b \in QueueType /\ v.b.prev = b.prev /\ v.b.tail = n /\ v.b.next = b.next
        /\ v.b.count = b.count /\ v.bc = w.bc /\ v.ok = w.ok /\ v.m \in QueueType /\ v.m.prev = m.prev
        /\ v.m.tail = m.tail /\ v.m.next = next /\ v.m.count = m.count /\ v.mc = w.mc
    BY <1>0, <1>6, <1>j, <1>1, InfosTyped DEF MoveInBackup, next, QueueType, WorkType
  <2>m. /\ v.m.count = MainCount /\ Ends(U, v.m, X) /\ Cardinality(X) = MainCount /\ Turns(v.mc, K, SM, X)
        /\ v.m \in QueueType /\ v.mc \in Entries
    BY <1>0, <1>3, <1>4, <2>1, InfosTyped DEF Members, X
  <2>2. /\ p = b.tail.name /\ Above(b.prev, n) /\ Above(n, b.next)
    BY <1>0, <1>2, <1>j, SMTT(30) DEF Around, Above, AtLeast, SameRank, Comparable
  <2>3. Ends(U, v.b, A)
    BY <1>0, <2>1, <2>2, TailStays DEF A
  <2>4. Cardinality(A) = MainCount + v.b.count
    BY <1>3, <1>5, <2>1, <2>2, FS_AddElement DEF Members
  <2>5. Turns(v.bc, K, SB, (A) \ X)
    <3>1. A \ M = (A) \ X
      BY <1>3, <1>5, <2>2 DEF Members, X
    <3> QED  BY <1>3, <3>1, <2>1 DEF Members
  <2>6. v.ok /\ v.b.count \in MinBackup .. maxBackup
    BY <1>z, <1>j, <2>1 DEF Keeps, HasRoom
  <2>7. v \in WorkType
    BY <1>0, <2>m, <1>6, <1>j, <1>1, <2>1, Zenon DEF MoveInBackup, next, WorkType
  <2> QED  BY <2>m, <2>7, <2>1, <2>3, <2>4, <2>5, <2>6, Fits
<1>k. CASE ~ AtLeast(n, m.next) /\ ~ AtLeast(n, b.prev) /\ ~ AtLeast(n, b.tail) /\ Above(n, b.next) /\ Keeps(w, n) /\ ~ SameRank(o, b.tail)
  <2>1. /\ v.b \in QueueType /\ v.b.prev = b.tail /\ v.b.tail = n /\ v.b.next = b.next
        /\ v.b.count = b.count /\ v.bc = w.bc /\ v.ok = w.ok /\ v.m \in QueueType /\ v.m.prev = m.prev
        /\ v.m.tail = m.tail /\ v.m.next = next /\ v.m.count = m.count /\ v.mc = w.mc
    BY <1>0, <1>6, <1>k, <1>1, InfosTyped DEF MoveInBackup, next, QueueType, WorkType
  <2>m. /\ v.m.count = MainCount /\ Ends(U, v.m, X) /\ Cardinality(X) = MainCount /\ Turns(v.mc, K, SM, X)
        /\ v.m \in QueueType /\ v.mc \in Entries
    BY <1>0, <1>3, <1>4, <2>1, InfosTyped DEF Members, X
  <2>2. /\ p \notin {b.tail.name, b.next.name} /\ Above(b.tail, n) /\ Above(n, b.next)
    BY <1>0, <1>2, <1>k, SMTT(30) DEF Around, Above, AtLeast, SameRank, Comparable
  <2>3. Ends(U, v.b, A \cup {p})
    BY <1>0, <2>1, <2>2, TailIsMoved DEF A
  <2>4. /\ A \cup {p} = A /\ Cardinality(A) = MainCount + v.b.count
    BY <1>3, <1>5, <2>1, <2>2, FS_AddElement DEF Members
  <2>5. Turns(v.bc, K, SB, (A) \ X)
    <3>1. A \ M = (A) \ X
      BY <1>3, <1>5, <2>2 DEF Members, X
    <3> QED  BY <1>3, <3>1, <2>1 DEF Members
  <2>6. Ends(U, v.b, A)
    BY <2>3, <2>4
  <2>7. v.ok /\ v.b.count \in MinBackup .. maxBackup
    BY <1>z, <1>k, <2>1 DEF Keeps, HasRoom
  <2>8. v \in WorkType
    BY <1>0, <2>m, <1>6, <1>k, <1>1, <2>1, Zenon DEF MoveInBackup, next, WorkType
  <2> QED  BY <2>m, <2>8, <2>1, <2>6, <2>4, <2>5, <2>7, Fits
<1>l. CASE ~ AtLeast(n, m.next) /\ ~ AtLeast(n, b.prev) /\ ~ AtLeast(n, b.tail) /\ Above(n, b.next) /\ ~ Keeps(w, n) /\ SameRank(o, b.tail)
  <2>1. /\ v.b \in QueueType /\ v.b.prev = Refetch /\ v.b.tail = b.prev /\ v.b.next = n
        /\ v.b.count = b.count - 1 /\ v.bc = DelChange(w.bc, n) /\ v.ok = w.ok /\ v.m \in QueueType
        /\ v.m.prev = m.prev /\ v.m.tail = m.tail /\ v.m.next = next /\ v.m.count = m.count /\ v.mc = w.mc
    BY <1>0, <1>6, <1>l, <1>1, InfosTyped, ZenonT(60) DEF MoveInBackup, LeavePlace, next, QueueType, WorkType
  <2>m. /\ v.m.count = MainCount /\ Ends(U, v.m, X) /\ Cardinality(X) = MainCount /\ Turns(v.mc, K, SM, X)
        /\ v.m \in QueueType /\ v.mc \in Entries
    BY <1>0, <1>3, <1>4, <2>1, InfosTyped DEF Members, X
  <2>2. /\ p = b.tail.name /\ Above(b.prev, n) /\ Above(n, b.next)
    BY <1>0, <1>2, <1>l, SMTT(30) DEF Around, Above, AtLeast, SameRank, Comparable
  <2>3. \E c \in Rows(U) : Above(Info(U, c), b.prev)
    BY <1>0, <2>2, <1>8
  <2>4. Ends(U, v.b, A \ {p})
    BY <1>0, <2>1, <2>2, <2>3, TailLeftNear, SMTT(60) DEF A
  <2>5. Cardinality(A \ {p}) = MainCount + v.b.count
    BY <1>3, <1>5, <2>1, <2>2, FS_AddElement DEF Members
  <2>6. Turns(DelChange(w.bc, n), K, SB, (A \ M) \ {p})
    BY <1>3, <1>5, <2>2, TurnDel DEF Members
  <2>7. Turns(v.bc, K, SB, (A \ {p}) \ X)
    <3>1. (A \ M) \ {p} = (A \ {p}) \ X
      BY <1>3, <1>5, <2>2 DEF Members, X
    <3> QED  BY <3>1, <2>1, <2>6 DEF Members
  <2>8. v.ok /\ v.b.count \in MinBackup .. maxBackup
    BY <1>z, <1>l, <2>1 DEF Keeps, HasRoom
  <2>9. v \in WorkType
    BY <1>0, <2>m, <1>6, <1>l, <1>1, <2>1, ZenonT(60) DEF MoveInBackup, LeavePlace, next, WorkType
  <2> QED  BY <2>m, <2>9, <2>1, <2>4, <2>5, <2>7, <2>8, Fits
<1>m. CASE ~ AtLeast(n, m.next) /\ ~ AtLeast(n, b.prev) /\ ~ AtLeast(n, b.tail) /\ Above(n, b.next) /\ ~ Keeps(w, n) /\ ~ SameRank(o, b.tail) /\ SameRank(o, b.prev)
  <2>1. /\ v.b \in QueueType /\ v.b.prev = Refetch /\ v.b.tail = b.tail /\ v.b.next = n
        /\ v.b.count = b.count - 1 /\ v.bc = DelChange(w.bc, n) /\ v.ok = w.ok /\ v.m \in QueueType
        /\ v.m.prev = m.prev /\ v.m.tail = m.tail /\ v.m.next = next /\ v.m.count = m.count /\ v.mc = w.mc
    BY <1>0, <1>6, <1>m, <1>1, InfosTyped, ZenonT(60) DEF MoveInBackup, LeavePlace, next, QueueType, WorkType
  <2>m. /\ v.m.count = MainCount /\ Ends(U, v.m, X) /\ Cardinality(X) = MainCount /\ Turns(v.mc, K, SM, X)
        /\ v.m \in QueueType /\ v.mc \in Entries
    BY <1>0, <1>3, <1>4, <2>1, InfosTyped DEF Members, X
  <2>2. /\ p # b.tail.name /\ Above(b.tail, n)
        /\ \/ p = b.next.name /\ ~ Above(o, n)
           \/ p # b.next.name /\ Above(n, b.next)
    BY <1>0, <1>2, <1>m, SMTT(30) DEF Around, Above, AtLeast, SameRank, Comparable
  <2>3. \E c \in Rows(U) : Above(Info(U, c), b.tail)
    BY <1>0, <2>2, <1>8
  <2>4. Ends(U, v.b, A \ {p})
    BY <1>0, <2>1, <2>2, <2>3, NextIsMoved DEF A
  <2>5. Cardinality(A \ {p}) = MainCount + v.b.count
    BY <1>3, <1>5, <2>1, <2>2, FS_AddElement DEF Members
  <2>6. Turns(DelChange(w.bc, n), K, SB, (A \ M) \ {p})
    BY <1>3, <1>5, <2>2, TurnDel DEF Members
  <2>7. Turns(v.bc, K, SB, (A \ {p}) \ X)
    <3>1. (A \ M) \ {p} = (A \ {p}) \ X
      BY <1>3, <1>5, <2>2 DEF Members, X
    <3> QED  BY <3>1, <2>1, <2>6 DEF Members
  <2>8. v.ok /\ v.b.count \in MinBackup .. maxBackup
    BY <1>z, <1>m, <2>1 DEF Keeps, HasRoom
  <2>9. v \in WorkType
    BY <1>0, <2>m, <1>6, <1>m, <1>1, <2>1, Zenon DEF MoveInBackup, LeavePlace, next, WorkType
  <2> QED  BY <2>m, <2>9, <2>1, <2>4, <2>5, <2>7, <2>8, Fits
<1>n. CASE ~ AtLeast(n, m.next) /\ ~ AtLeast(n, b.prev) /\ ~ AtLeast(n, b.tail) /\ Above(n, b.next) /\ ~ Keeps(w, n) /\ ~ SameRank(o, b.tail) /\ ~ SameRank(o, b.prev)
  <2>1. /\ v.b \in QueueType /\ v.b.prev = b.prev /\ v.b.tail = b.tail /\ v.b.next = n
        /\ v.b.count = b.count - 1 /\ v.bc = DelChange(w.bc, n) /\ v.ok = w.ok /\ v.m \in QueueType
        /\ v.m.prev = m.prev /\ v.m.tail = m.tail /\ v.m.next = next /\ v.m.count = m.count /\ v.mc = w.mc
    BY <1>0, <1>6, <1>n, <1>1, InfosTyped, ZenonT(60) DEF MoveInBackup, LeavePlace, next, QueueType, WorkType
  <2>m. /\ v.m.count = MainCount /\ Ends(U, v.m, X) /\ Cardinality(X) = MainCount /\ Turns(v.mc, K, SM, X)
        /\ v.m \in QueueType /\ v.mc \in Entries
    BY <1>0, <1>3, <1>4, <2>1, InfosTyped DEF Members, X
  <2>2. /\ p # b.tail.name /\ Above(b.tail, n)
        /\ \/ p = b.next.name /\ ~ Above(o, n)
           \/ p # b.next.name /\ Above(n, b.next)
        /\ p # b.prev.name
    BY <1>0, <1>2, <1>n, SMTT(30) DEF Around, Above, AtLeast, SameRank, Comparable
  <2>3. Ends(U, v.b, A \ {p})
    BY <1>0, <2>1, <2>2, NextIsMoved DEF A
  <2>4. Cardinality(A \ {p}) = MainCount + v.b.count
    BY <1>3, <1>5, <2>1, <2>2, FS_AddElement DEF Members
  <2>5. Turns(DelChange(w.bc, n), K, SB, (A \ M) \ {p})
    BY <1>3, <1>5, <2>2, TurnDel DEF Members
  <2>6. Turns(v.bc, K, SB, (A \ {p}) \ X)
    <3>1. (A \ M) \ {p} = (A \ {p}) \ X
      BY <1>3, <1>5, <2>2 DEF Members, X
    <3> QED  BY <3>1, <2>1, <2>5 DEF Members
  <2>7. v.ok /\ v.b.count \in MinBackup .. maxBackup
    BY <1>z, <1>n, <2>1 DEF Keeps, HasRoom
  <2>8. v \in WorkType
    BY <1>0, <2>m, <1>6, <1>n, <1>1, <2>1, ZenonT(60) DEF MoveInBackup, LeavePlace, next, WorkType
  <2> QED  BY <2>m, <2>8, <2>1, <2>3, <2>4, <2>6, <2>7, Fits
<1>p. CASE ~ AtLeast(n, m.next) /\ ~ AtLeast(n, b.prev) /\ ~ AtLeast(n, b.tail) /\ ~ Above(n, b.next) /\ Keeps(w, b.next) /\ SameRank(o, b.tail)
  <2>1. /\ v.b \in QueueType /\ v.b.prev = b.prev /\ v.b.tail = b.next /\ v.b.next = Refetch
        /\ v.b.count = b.count /\ v.bc = AddChange(DelChange(w.bc, n), b.next) /\ v.ok = w.ok
        /\ v.m \in QueueType /\ v.m.prev = m.prev /\ v.m.tail = m.tail /\ v.m.next = next
        /\ v.m.count = m.count /\ v.mc = w.mc
    BY <1>0, <1>6, <1>p, <1>1, InfosTyped DEF MoveInBackup, next, QueueType, WorkType
  <2>m. /\ v.m.count = MainCount /\ Ends(U, v.m, X) /\ Cardinality(X) = MainCount /\ Turns(v.mc, K, SM, X)
        /\ v.m \in QueueType /\ v.mc \in Entries
    BY <1>0, <1>3, <1>4, <2>1, InfosTyped DEF Members, X
  <2>2. /\ p = b.tail.name /\ Above(b.next, n)
    BY <1>0, <1>2, <1>p, SMTT(30) DEF Around, Above, AtLeast, SameRank, Comparable
  <2>3. Ends(U, v.b, (A \ {p}) \cup {b.next.name})
    BY <1>0, <2>1, <2>2, NextReplaces, SMTT(60) DEF A
  <2>4. Cardinality((A \ {p}) \cup {b.next.name}) = MainCount + v.b.count
    BY <1>3, <1>5, <2>1, <2>2, Exchanged, SMTT(30) DEF Members
  <2>5. Turns(DelChange(w.bc, n), K, SB, (A \ M) \ {p})
    BY <1>3, <1>5, <2>2, TurnDel DEF Members
  <2>6. Turns(AddChange(DelChange(w.bc, n), b.next), K, SB, ((A \ M) \ {p}) \cup {b.next.name})
    BY <1>3, <1>5, <2>2, <2>5, TurnAdd DEF Members
  <2>7. Turns(v.bc, K, SB, ((A \ {p}) \cup {b.next.name}) \ X)
    <3>1. ((A \ M) \ {p}) \cup {b.next.name} = ((A \ {p}) \cup {b.next.name}) \ X
      BY <1>3, <1>5, <2>2 DEF Members, X
    <3> QED  BY <3>1, <2>1, <2>6 DEF Members
  <2>8. v.ok /\ v.b.count \in MinBackup .. maxBackup
    BY <1>z, <1>p, <2>1 DEF Keeps, HasRoom
  <2>9. v \in WorkType
    BY <1>0, <2>m, <1>6, <1>p, <1>1, <2>1, ZenonT(60) DEF MoveInBackup, next, WorkType
  <2> QED  BY <2>m, <2>9, <2>1, <2>3, <2>4, <2>7, <2>8, Fits
<1>q. CASE ~ AtLeast(n, m.next) /\ ~ AtLeast(n, b.prev) /\ ~ AtLeast(n, b.tail) /\ ~ Above(n, b.next) /\ Keeps(w, b.next) /\ ~ SameRank(o, b.tail)
  <2>1. /\ v.b \in QueueType /\ v.b.prev = b.tail /\ v.b.tail = b.next /\ v.b.next = Refetch
        /\ v.b.count = b.count /\ v.bc = AddChange(DelChange(w.bc, n), b.next) /\ v.ok = w.ok
        /\ v.m \in QueueType /\ v.m.prev = m.prev /\ v.m.tail = m.tail /\ v.m.next = next
        /\ v.m.count = m.count /\ v.mc = w.mc
    BY <1>0, <1>6, <1>q, <1>1, InfosTyped DEF MoveInBackup, next, QueueType, WorkType
  <2>m. /\ v.m.count = MainCount /\ Ends(U, v.m, X) /\ Cardinality(X) = MainCount /\ Turns(v.mc, K, SM, X)
        /\ v.m \in QueueType /\ v.mc \in Entries
    BY <1>0, <1>3, <1>4, <2>1, InfosTyped DEF Members, X
  <2>2. /\ p \notin {b.tail.name, b.next.name} /\ Above(b.next, n)
    BY <1>0, <1>2, <1>q, SMTT(30) DEF Around, Above, AtLeast, SameRank, Comparable
  <2>3. Ends(U, v.b, (A \ {p}) \cup {b.next.name})
    BY <1>0, <2>1, <2>2, NextEnters DEF A
  <2>4. Cardinality((A \ {p}) \cup {b.next.name}) = MainCount + v.b.count
    BY <1>3, <1>5, <2>1, <2>2, Exchanged DEF Members
  <2>5. Turns(DelChange(w.bc, n), K, SB, (A \ M) \ {p})
    BY <1>3, <1>5, <2>2, TurnDel DEF Members
  <2>6. Turns(AddChange(DelChange(w.bc, n), b.next), K, SB, ((A \ M) \ {p}) \cup {b.next.name})
    BY <1>3, <1>5, <2>2, <2>5, TurnAdd DEF Members
  <2>7. Turns(v.bc, K, SB, ((A \ {p}) \cup {b.next.name}) \ X)
    <3>1. ((A \ M) \ {p}) \cup {b.next.name} = ((A \ {p}) \cup {b.next.name}) \ X
      BY <1>3, <1>5, <2>2 DEF Members, X
    <3> QED  BY <3>1, <2>1, <2>6 DEF Members
  <2>8. v.ok /\ v.b.count \in MinBackup .. maxBackup
    BY <1>z, <1>q, <2>1 DEF Keeps, HasRoom
  <2>9. v \in WorkType
    BY <1>0, <2>m, <1>6, <1>q, <1>1, <2>1, ZenonT(60) DEF MoveInBackup, next, WorkType
  <2> QED  BY <2>m, <2>9, <2>1, <2>3, <2>4, <2>7, <2>8, Fits
<1>r. CASE ~ AtLeast(n, m.next) /\ ~ AtLeast(n, b.prev) /\ ~ AtLeast(n, b.tail) /\ ~ Above(n, b.next) /\ ~ Keeps(w, b.next) /\ SameRank(o, b.tail)
  <2>1. /\ v.b \in QueueType /\ v.b.prev = Refetch /\ v.b.tail = b.prev /\ v.b.next = b.next
        /\ v.b.count = b.count - 1 /\ v.bc = DelChange(w.bc, n) /\ v.ok = w.ok /\ v.m \in QueueType
        /\ v.m.prev = m.prev /\ v.m.tail = m.tail /\ v.m.next = next /\ v.m.count = m.count /\ v.mc = w.mc
    BY <1>0, <1>6, <1>r, <1>1, InfosTyped DEF MoveInBackup, LeavePlace, next, QueueType, WorkType
  <2>m. /\ v.m.count = MainCount /\ Ends(U, v.m, X) /\ Cardinality(X) = MainCount /\ Turns(v.mc, K, SM, X)
        /\ v.m \in QueueType /\ v.mc \in Entries
    BY <1>0, <1>3, <1>4, <2>1, InfosTyped DEF Members, X
  <2>2. /\ p = b.tail.name /\ ~ (Above(b.prev, n) /\ Above(n, b.next)) /\ ~ Above(n, b.prev)
    BY <1>0, <1>2, <1>r, SMTT(30) DEF Around, Above, AtLeast, SameRank, Comparable
  <2>3. \E c \in Rows(U) : Above(Info(U, c), b.prev)
    BY <1>0, <2>2, <1>8, SMTT(30)
  <2>4. Ends(U, v.b, A \ {p})
    BY <1>0, <2>1, <2>2, <2>3, TailLeft DEF A
  <2>5. Cardinality(A \ {p}) = MainCount + v.b.count
    BY <1>3, <1>5, <2>1, <2>2, FS_AddElement DEF Members
  <2>6. Turns(DelChange(w.bc, n), K, SB, (A \ M) \ {p})
    BY <1>3, <1>5, <2>2, TurnDel DEF Members
  <2>7. Turns(v.bc, K, SB, (A \ {p}) \ X)
    <3>1. (A \ M) \ {p} = (A \ {p}) \ X
      BY <1>3, <1>5, <2>2 DEF Members, X
    <3> QED  BY <3>1, <2>1, <2>6 DEF Members
  <2>8. v.ok /\ v.b.count \in MinBackup .. maxBackup
    BY <1>z, <1>r, <2>1 DEF Keeps, HasRoom
  <2>9. v \in WorkType
    BY <1>0, <2>m, <1>6, <1>r, <1>1, <2>1, Zenon DEF MoveInBackup, LeavePlace, next, WorkType
  <2> QED  BY <2>m, <2>9, <2>1, <2>4, <2>5, <2>7, <2>8, Fits
<1>s. CASE ~ AtLeast(n, m.next) /\ ~ AtLeast(n, b.prev) /\ ~ AtLeast(n, b.tail) /\ ~ Above(n, b.next) /\ ~ Keeps(w, b.next) /\ ~ SameRank(o, b.tail) /\ SameRank(o, b.prev)
  <2>1. /\ v.b \in QueueType /\ v.b.prev = Refetch /\ v.b.tail = b.tail /\ v.b.next = b.next
        /\ v.b.count = b.count - 1 /\ v.bc = DelChange(w.bc, n) /\ v.ok = w.ok /\ v.m \in QueueType
        /\ v.m.prev = m.prev /\ v.m.tail = m.tail /\ v.m.next = next /\ v.m.count = m.count /\ v.mc = w.mc
    BY <1>0, <1>6, <1>s, <1>1, InfosTyped DEF MoveInBackup, LeavePlace, next, QueueType, WorkType
  <2>m. /\ v.m.count = MainCount /\ Ends(U, v.m, X) /\ Cardinality(X) = MainCount /\ Turns(v.mc, K, SM, X)
        /\ v.m \in QueueType /\ v.mc \in Entries
    BY <1>0, <1>3, <1>4, <2>1, InfosTyped DEF Members, X
  <2>2. /\ p \notin {b.tail.name, b.next.name} /\ ~ (Above(b.tail, n) /\ Above(n, b.next))
        /\ ~ Above(n, b.tail)
    BY <1>0, <1>2, <1>s, SMTT(30) DEF Around, Above, AtLeast, SameRank, Comparable
  <2>3. \E c \in Rows(U) : Above(Info(U, c), b.tail)
    BY <1>0, <2>2, <1>8
  <2>4. Ends(U, v.b, A \ {p})
    BY <1>0, <2>1, <2>2, <2>3, PrevIsRead DEF A
  <2>5. Cardinality(A \ {p}) = MainCount + v.b.count
    BY <1>3, <1>5, <2>1, <2>2, FS_AddElement DEF Members
  <2>6. Turns(DelChange(w.bc, n), K, SB, (A \ M) \ {p})
    BY <1>3, <1>5, <2>2, TurnDel DEF Members
  <2>7. Turns(v.bc, K, SB, (A \ {p}) \ X)
    <3>1. (A \ M) \ {p} = (A \ {p}) \ X
      BY <1>3, <1>5, <2>2 DEF Members, X
    <3> QED  BY <3>1, <2>1, <2>6 DEF Members
  <2>8. v.ok /\ v.b.count \in MinBackup .. maxBackup
    BY <1>z, <1>s, <2>1 DEF Keeps, HasRoom
  <2>9. v \in WorkType
    BY <1>0, <2>m, <1>6, <1>s, <1>1, <2>1, Zenon DEF MoveInBackup, LeavePlace, next, WorkType
  <2> QED  BY <2>m, <2>9, <2>1, <2>4, <2>5, <2>7, <2>8, Fits
<1>t. CASE ~ AtLeast(n, m.next) /\ ~ AtLeast(n, b.prev) /\ ~ AtLeast(n, b.tail) /\ ~ Above(n, b.next) /\ ~ Keeps(w, b.next) /\ ~ SameRank(o, b.tail) /\ ~ SameRank(o, b.prev)
  <2>1. /\ v.b \in QueueType /\ v.b.prev = b.prev /\ v.b.tail = b.tail /\ v.b.next = b.next
        /\ v.b.count = b.count - 1 /\ v.bc = DelChange(w.bc, n) /\ v.ok = w.ok /\ v.m \in QueueType
        /\ v.m.prev = m.prev /\ v.m.tail = m.tail /\ v.m.next = next /\ v.m.count = m.count /\ v.mc = w.mc
    BY <1>0, <1>6, <1>t, <1>1, InfosTyped DEF MoveInBackup, LeavePlace, next, QueueType, WorkType
  <2>m. /\ v.m.count = MainCount /\ Ends(U, v.m, X) /\ Cardinality(X) = MainCount /\ Turns(v.mc, K, SM, X)
        /\ v.m \in QueueType /\ v.mc \in Entries
    BY <1>0, <1>3, <1>4, <2>1, InfosTyped DEF Members, X
  <2>2. /\ p \notin {b.prev.name, b.tail.name, b.next.name} /\ ~ (Above(b.prev, n) /\ Above(n, b.tail))
        /\ ~ (Above(b.tail, n) /\ Above(n, b.next)) /\ ~ Above(n, b.tail)
    BY <1>0, <1>2, <1>t, SMTT(30) DEF Around, Above, AtLeast, SameRank, Comparable
  <2>3. Ends(U, v.b, A \ {p})
    BY <1>0, <2>1, <2>2, QueueUnmoved DEF A
  <2>4. Cardinality(A \ {p}) = MainCount + v.b.count
    BY <1>3, <1>5, <2>1, <2>2, FS_AddElement DEF Members
  <2>5. Turns(DelChange(w.bc, n), K, SB, (A \ M) \ {p})
    BY <1>3, <1>5, <2>2, TurnDel DEF Members
  <2>6. Turns(v.bc, K, SB, (A \ {p}) \ X)
    <3>1. (A \ M) \ {p} = (A \ {p}) \ X
      BY <1>3, <1>5, <2>2 DEF Members, X
    <3> QED  BY <3>1, <2>1, <2>5 DEF Members
  <2>7. v.ok /\ v.b.count \in MinBackup .. maxBackup
    BY <1>z, <1>t, <2>1 DEF Keeps, HasRoom
  <2>8. v \in WorkType
    BY <1>0, <2>m, <1>6, <1>t, <1>1, <2>1, Zenon DEF MoveInBackup, LeavePlace, next, WorkType
  <2> QED  BY <2>m, <2>8, <2>1, <2>3, <2>4, <2>6, <2>7, Fits
<1> QED  BY <1>a, <1>b, <1>c, <1>d, <1>e, <1>f, <1>g, <1>h, <1>i, <1>j, <1>k, <1>l, <1>m, <1>n, <1>p, <1>q, <1>r, <1>s, <1>t

\* It was below the backup queue and stays below the main queue.
LEMMA OutsideMoved ==
  ASSUME NEW T, NEW U, NEW p, NEW w, NEW K, NEW SM, NEW SB, Steps(T, U, p, w, K, SM, SB),
         ~ AtLeast(Info(T, p), w.m.tail), ~ Above(Info(U, p), w.m.tail), ~ AtLeast(Info(T, p), w.b.tail),
         NEW v, v = MoveOutside(w, Info(T, p), Info(U, p))
  PROVE  Fitting(U, v, K, SM, SB)
<1> DEFINE o == Info(T, p)
           n == Info(U, p)
           m == w.m
           b == w.b
           M == Top(T, m.tail)
           A == Top(T, b.tail)
           X == M
           next == IF Above(n, m.next) THEN n ELSE m.next
           grows(i) == HasRoom(w) /\ ~ SameRank(o, b.next) /\ Valid(i, minVotes)
<1>0. /\ w \in WorkType /\ n.name = p /\ o.name = p /\ Moves(T, U, p) /\ p \in Rows(U)
      /\ m \in QueueType /\ b \in QueueType /\ PlacedQueue(T, m) /\ PlacedQueue(T, b) /\ n \in InfoType
  BY StepLayout, LayoutRows DEF Layout
<1>2. /\ Around(o, n, m) /\ Around(o, n, b) /\ Above(m.next, b.prev)
      /\ Above(m.tail, n) /\ Above(b.tail, o) /\ o.name = p
      /\ p \notin {m.prev.name, m.tail.name, m.next.name, b.prev.name, b.tail.name}
  <2>1. Around(o, n, m) /\ Around(o, n, b) /\ Above(m.next, b.prev)
    BY StepLayout, LayoutOrder
  <2> QED  BY <1>0, <2>1 DEF Around, Above, AtLeast, SameRank, Comparable
<1>1. /\ Above(b.prev, n) => ~ Above(n, m.next)
      /\ ~ AtLeast(n, b.tail) => ~ Above(n, m.next)
      /\ ~ SameRank(n, b.tail)
  BY <1>0, <1>2, SMTT(30) DEF Around, Above, AtLeast, SameRank, Comparable
<1>3. Members(o, n, w, K, SM, SB, M, A)
  BY StepMembers
<1>z. /\ w.ok /\ MinBackup \in Nat /\ maxBackup \in Nat
      /\ b.count \in Nat /\ b.count >= MinBackup /\ b.count <= maxBackup
  BY <1>3 DEF Members
<1>4. ASSUME v.m \in QueueType, v.m.prev = m.prev, v.m.tail = m.tail, v.m.next = next
      PROVE  Ends(U, v.m, M)
  <2>1. CASE Above(n, m.next)
    <3>1. Ends(U, v.m, M \ {p})
      BY <1>0, <1>2, <1>4, <2>1, NextIsMoved
    <3> QED  BY <1>0, <1>2, <1>3, <3>1 DEF Members
  <2>2. CASE ~ Above(n, m.next)
    <3>1. /\ ~ (Above(m.prev, n) /\ Above(n, m.tail)) /\ ~ (Above(m.tail, n) /\ Above(n, m.next))
          /\ ~ Above(n, m.tail)
      BY <1>2, <2>2 DEF Around, Above, Comparable
    <3>2. Ends(U, v.m, M \ {p})
      BY <1>0, <1>2, <1>4, <2>2, <3>1, QueueUnmoved
    <3> QED  BY <1>0, <1>2, <1>3, <3>2 DEF Members
  <2> QED  BY <2>1, <2>2
<1> HIDE DEF M, A, X
<1>5. /\ n.name = p /\ p \notin M /\ p \notin A /\ w.ok = TRUE
      /\ Cardinality(A \cup {p}) = MainCount + (b.count + 1)
      /\ Cardinality(A \cup {b.next.name}) = MainCount + (b.count + 1)
  <2>1. n.name = p /\ p \notin M /\ p \notin A /\ w.ok = TRUE
    BY <1>0, <1>3, InfosTyped DEF Members
  <2>2. IsFiniteSet(A) /\ b.next.name \notin A /\ Cardinality(A) = MainCount + b.count /\ MainCount \in Nat /\ b.count \in Nat
    BY <1>3 DEF Members
  <2>3. Cardinality(A \cup {p}) = Cardinality(A) + 1
    BY <2>1, <2>2, FS_AddElement
  <2>4. Cardinality(A \cup {b.next.name}) = Cardinality(A) + 1
    BY <2>2, FS_AddElement
  <2> QED  BY <2>1, <2>2, <2>3, <2>4
<1>6. /\ AddChange(w.bc, n) \in Entries /\ AddChange(w.bc, b.next) \in Entries
      /\ DelChange(AddChange(w.bc, n), b.tail) \in Entries
  BY <1>0, InfosTyped, EntriesKept
<1>a. CASE AtLeast(n, b.tail) /\ grows(b.tail) /\ Above(b.prev, n)
  <2>1. /\ v.b \in QueueType /\ v.b.prev = n /\ v.b.tail = b.tail /\ v.b.next = b.next
        /\ v.b.count = b.count + 1 /\ v.bc = AddChange(w.bc, n) /\ v.ok /\ v.m \in QueueType
        /\ v.m.prev = m.prev /\ v.m.tail = m.tail /\ v.m.next = next /\ v.m.count = m.count /\ v.mc = w.mc
    BY <1>0, <1>6, <1>a, <1>1, <1>5, InfosTyped DEF MoveOutside, next, QueueType, WorkType
  <2>m. /\ v.m.count = MainCount /\ Ends(U, v.m, X) /\ Cardinality(X) = MainCount /\ Turns(v.mc, K, SM, X)
        /\ v.m \in QueueType /\ v.mc \in Entries
    BY <1>0, <1>3, <1>4, <2>1, InfosTyped DEF Members, X
  <2>2. /\ p \notin {b.tail.name, b.next.name} /\ Above(n, b.tail)
        /\ \/ p = b.prev.name /\ ~ Above(n, o)
           \/ p # b.prev.name /\ Above(b.prev, n)
    BY <1>0, <1>2, <1>a, SMTT(30) DEF Around, Above, AtLeast, SameRank, Comparable
  <2>3. Ends(U, v.b, A \cup {p})
    BY <1>0, <2>1, <2>2, PrevIsMoved DEF A
  <2>4. Cardinality(A \cup {p}) = MainCount + v.b.count
    BY <1>3, <1>5, <2>1, <2>2, FS_AddElement DEF Members
  <2>5. Turns(AddChange(w.bc, n), K, SB, (A \ M) \cup {p})
    BY <1>3, <1>5, <2>2, TurnAdd DEF Members
  <2>6. Turns(v.bc, K, SB, (A \cup {p}) \ X)
    <3>1. (A \ M) \cup {p} = (A \cup {p}) \ X
      BY <1>3, <1>5, <2>2 DEF Members, X
    <3> QED  BY <3>1, <2>1, <2>5 DEF Members
  <2>7. v.ok /\ v.b.count \in MinBackup .. maxBackup
    BY <1>z, <1>a, <2>1 DEF Keeps, HasRoom
  <2>8. v \in WorkType
    BY <1>0, <2>m, <1>6, <1>a, <1>1, <1>5, <2>1, Zenon DEF MoveOutside, next, WorkType
  <2> QED  BY <2>m, <2>8, <2>1, <2>3, <2>4, <2>6, <2>7, Fits
<1>b. CASE AtLeast(n, b.tail) /\ grows(b.tail) /\ ~ Above(b.prev, n)
  <2>1. /\ v.b \in QueueType /\ v.b.prev = b.prev /\ v.b.tail = b.tail /\ v.b.next = b.next
        /\ v.b.count = b.count + 1 /\ v.bc = AddChange(w.bc, n) /\ v.ok /\ v.m \in QueueType
        /\ v.m.prev = m.prev /\ v.m.tail = m.tail /\ v.m.next = next /\ v.m.count = m.count /\ v.mc = w.mc
    BY <1>0, <1>6, <1>b, <1>1, <1>5, InfosTyped DEF MoveOutside, next, QueueType, WorkType
  <2>m. /\ v.m.count = MainCount /\ Ends(U, v.m, X) /\ Cardinality(X) = MainCount /\ Turns(v.mc, K, SM, X)
        /\ v.m \in QueueType /\ v.mc \in Entries
    BY <1>0, <1>3, <1>4, <2>1, InfosTyped DEF Members, X
  <2>2. /\ p \notin {b.prev.name, b.tail.name, b.next.name} /\ ~ (Above(b.prev, n) /\ Above(n, b.tail))
        /\ ~ (Above(b.tail, n) /\ Above(n, b.next)) /\ Above(n, b.tail)
    BY <1>0, <1>2, <1>b, SMTT(30) DEF Around, Above, AtLeast, SameRank, Comparable
  <2>3. Ends(U, v.b, A \cup {p})
    BY <1>0, <2>1, <2>2, QueueUnmoved DEF A
  <2>4. Cardinality(A \cup {p}) = MainCount + v.b.count
    BY <1>3, <1>5, <2>1, <2>2, FS_AddElement DEF Members
  <2>5. Turns(AddChange(w.bc, n), K, SB, (A \ M) \cup {p})
    BY <1>3, <1>5, <2>2, TurnAdd DEF Members
  <2>6. Turns(v.bc, K, SB, (A \cup {p}) \ X)
    <3>1. (A \ M) \cup {p} = (A \cup {p}) \ X
      BY <1>3, <1>5, <2>2 DEF Members, X
    <3> QED  BY <3>1, <2>1, <2>5 DEF Members
  <2>7. v.ok /\ v.b.count \in MinBackup .. maxBackup
    BY <1>z, <1>b, <2>1 DEF Keeps, HasRoom
  <2>8. v \in WorkType
    BY <1>0, <2>m, <1>6, <1>b, <1>1, <1>5, <2>1, Zenon DEF MoveOutside, next, WorkType
  <2> QED  BY <2>m, <2>8, <2>1, <2>3, <2>4, <2>6, <2>7, Fits
<1>c. CASE AtLeast(n, b.tail) /\ ~ grows(b.tail) /\ Above(b.prev, n)
  <2>1. /\ v.b \in QueueType /\ v.b.prev = b.prev /\ v.b.tail = n /\ v.b.next = b.tail
        /\ v.b.count = b.count /\ v.bc = DelChange(AddChange(w.bc, n), b.tail) /\ v.ok /\ v.m \in QueueType
        /\ v.m.prev = m.prev /\ v.m.tail = m.tail /\ v.m.next = next /\ v.m.count = m.count /\ v.mc = w.mc
    BY <1>0, <1>6, <1>c, <1>1, <1>5, InfosTyped DEF MoveOutside, next, QueueType, WorkType
  <2>m. /\ v.m.count = MainCount /\ Ends(U, v.m, X) /\ Cardinality(X) = MainCount /\ Turns(v.mc, K, SM, X)
        /\ v.m \in QueueType /\ v.mc \in Entries
    BY <1>0, <1>3, <1>4, <2>1, InfosTyped DEF Members, X
  <2>2. /\ p \notin {b.prev.name, b.tail.name} /\ Above(b.prev, n) /\ Above(n, b.tail)
    BY <1>0, <1>2, <1>c, SMTT(30) DEF Around, Above, AtLeast, SameRank, Comparable
  <2>3. Ends(U, v.b, (A \ {b.tail.name}) \cup {p})
    BY <1>0, <2>1, <2>2, TailReplaced DEF A
  <2>4. Cardinality((A \ {b.tail.name}) \cup {p}) = MainCount + v.b.count
    BY <1>3, <1>5, <2>1, <2>2, Exchanged DEF Members
  <2>5. Turns(AddChange(w.bc, n), K, SB, (A \ M) \cup {p})
    BY <1>3, <1>5, <2>2, TurnAdd DEF Members
  <2>6. Turns(DelChange(AddChange(w.bc, n), b.tail), K, SB, ((A \ M) \cup {p}) \ {b.tail.name})
    BY <1>3, <1>5, <2>2, <2>5, TurnDel DEF Members
  <2>7. Turns(v.bc, K, SB, ((A \ {b.tail.name}) \cup {p}) \ X)
    <3>1. ((A \ M) \cup {p}) \ {b.tail.name} = ((A \ {b.tail.name}) \cup {p}) \ X
      BY <1>3, <1>5, <2>2 DEF Members, X
    <3> QED  BY <3>1, <2>1, <2>6 DEF Members
  <2>8. v.ok /\ v.b.count \in MinBackup .. maxBackup
    BY <1>z, <1>c, <2>1 DEF Keeps, HasRoom
  <2>9. v \in WorkType
    BY <1>0, <2>m, <1>6, <1>c, <1>1, <1>5, <2>1, Zenon DEF MoveOutside, next, WorkType
  <2> QED  BY <2>m, <2>9, <2>1, <2>3, <2>4, <2>7, <2>8, Fits
<1>d. CASE AtLeast(n, b.tail) /\ ~ grows(b.tail) /\ ~ Above(b.prev, n)
  <2>1. /\ v.b \in QueueType /\ v.b.prev = Refetch /\ v.b.tail = b.prev /\ v.b.next = b.tail
        /\ v.b.count = b.count /\ v.bc = DelChange(AddChange(w.bc, n), b.tail) /\ v.ok /\ v.m \in QueueType
        /\ v.m.prev = m.prev /\ v.m.tail = m.tail /\ v.m.next = next /\ v.m.count = m.count /\ v.mc = w.mc
    BY <1>0, <1>6, <1>d, <1>1, <1>5, InfosTyped DEF MoveOutside, next, QueueType, WorkType
  <2>m. /\ v.m.count = MainCount /\ Ends(U, v.m, X) /\ Cardinality(X) = MainCount /\ Turns(v.mc, K, SM, X)
        /\ v.m \in QueueType /\ v.mc \in Entries
    BY <1>0, <1>3, <1>4, <2>1, InfosTyped DEF Members, X
  <2>2. /\ p \notin {b.prev.name, b.tail.name} /\ Above(n, b.prev)
    BY <1>0, <1>2, <1>d, SMTT(30) DEF Around, Above, AtLeast, SameRank, Comparable
  <2>3. Ends(U, v.b, (A \ {b.tail.name}) \cup {p})
    BY <1>0, <2>1, <2>2, TailPopped DEF A
  <2>4. Cardinality((A \ {b.tail.name}) \cup {p}) = MainCount + v.b.count
    BY <1>3, <1>5, <2>1, <2>2, Exchanged DEF Members
  <2>5. Turns(AddChange(w.bc, n), K, SB, (A \ M) \cup {p})
    BY <1>3, <1>5, <2>2, TurnAdd DEF Members
  <2>6. Turns(DelChange(AddChange(w.bc, n), b.tail), K, SB, ((A \ M) \cup {p}) \ {b.tail.name})
    BY <1>3, <1>5, <2>2, <2>5, TurnDel DEF Members
  <2>7. Turns(v.bc, K, SB, ((A \ {b.tail.name}) \cup {p}) \ X)
    <3>1. ((A \ M) \cup {p}) \ {b.tail.name} = ((A \ {b.tail.name}) \cup {p}) \ X
      BY <1>3, <1>5, <2>2 DEF Members, X
    <3> QED  BY <3>1, <2>1, <2>6 DEF Members
  <2>8. v.ok /\ v.b.count \in MinBackup .. maxBackup
    BY <1>z, <1>d, <2>1 DEF Keeps, HasRoom
  <2>9. v \in WorkType
    BY <1>0, <2>m, <1>6, <1>d, <1>1, <1>5, <2>1, Zenon DEF MoveOutside, next, WorkType
  <2> QED  BY <2>m, <2>9, <2>1, <2>3, <2>4, <2>7, <2>8, Fits
<1>e. CASE ~ AtLeast(n, b.tail) /\ AtLeast(n, b.next) /\ grows(n)
  <2>1. /\ v.b \in QueueType /\ v.b.prev = b.tail /\ v.b.tail = n /\ v.b.next = b.next
        /\ v.b.count = b.count + 1 /\ v.bc = AddChange(w.bc, n) /\ v.ok /\ v.m \in QueueType
        /\ v.m.prev = m.prev /\ v.m.tail = m.tail /\ v.m.next = next /\ v.m.count = m.count /\ v.mc = w.mc
    BY <1>0, <1>6, <1>e, <1>1, <1>5, InfosTyped DEF MoveOutside, next, QueueType, WorkType
  <2>m. /\ v.m.count = MainCount /\ Ends(U, v.m, X) /\ Cardinality(X) = MainCount /\ Turns(v.mc, K, SM, X)
        /\ v.m \in QueueType /\ v.mc \in Entries
    BY <1>0, <1>3, <1>4, <2>1, InfosTyped DEF Members, X
  <2>2. /\ p \notin {b.tail.name, b.next.name} /\ Above(b.tail, n) /\ Above(n, b.next)
    BY <1>0, <1>2, <1>e, SMTT(30) DEF Around, Above, AtLeast, SameRank, Comparable
  <2>3. Ends(U, v.b, A \cup {p})
    BY <1>0, <2>1, <2>2, TailIsMoved DEF A
  <2>4. Cardinality(A \cup {p}) = MainCount + v.b.count
    BY <1>3, <1>5, <2>1, <2>2, FS_AddElement DEF Members
  <2>5. Turns(AddChange(w.bc, n), K, SB, (A \ M) \cup {p})
    BY <1>3, <1>5, <2>2, TurnAdd DEF Members
  <2>6. Turns(v.bc, K, SB, (A \cup {p}) \ X)
    <3>1. (A \ M) \cup {p} = (A \cup {p}) \ X
      BY <1>3, <1>5, <2>2 DEF Members, X
    <3> QED  BY <3>1, <2>1, <2>5 DEF Members
  <2>7. v.ok /\ v.b.count \in MinBackup .. maxBackup
    BY <1>z, <1>e, <2>1 DEF Keeps, HasRoom
  <2>8. v \in WorkType
    BY <1>0, <2>m, <1>6, <1>e, <1>1, <1>5, <2>1, Zenon DEF MoveOutside, next, WorkType
  <2> QED  BY <2>m, <2>8, <2>1, <2>3, <2>4, <2>6, <2>7, Fits
<1>f. CASE ~ AtLeast(n, b.tail) /\ AtLeast(n, b.next) /\ ~ grows(n)
  <2>1. /\ v.b \in QueueType /\ v.b.prev = b.prev /\ v.b.tail = b.tail /\ v.b.next = n
        /\ v.b.count = b.count /\ v.bc = w.bc /\ v.ok /\ v.m \in QueueType /\ v.m.prev = m.prev
        /\ v.m.tail = m.tail /\ v.m.next = next /\ v.m.count = m.count /\ v.mc = w.mc
    BY <1>0, <1>6, <1>f, <1>1, <1>5, InfosTyped DEF MoveOutside, next, QueueType, WorkType
  <2>m. /\ v.m.count = MainCount /\ Ends(U, v.m, X) /\ Cardinality(X) = MainCount /\ Turns(v.mc, K, SM, X)
        /\ v.m \in QueueType /\ v.mc \in Entries
    BY <1>0, <1>3, <1>4, <2>1, InfosTyped DEF Members, X
  <2>2. /\ p # b.tail.name /\ Above(b.tail, n)
        /\ \/ p = b.next.name /\ ~ Above(o, n)
           \/ p # b.next.name /\ Above(n, b.next)
        /\ p # b.prev.name
    BY <1>0, <1>2, <1>f, SMTT(30) DEF Around, Above, AtLeast, SameRank, Comparable
  <2>3. Ends(U, v.b, A \ {p})
    BY <1>0, <2>1, <2>2, NextIsMoved DEF A
  <2>4. /\ A \ {p} = A /\ Cardinality(A) = MainCount + v.b.count
    BY <1>3, <1>5, <2>1, <2>2, FS_AddElement DEF Members
  <2>5. Turns(v.bc, K, SB, (A) \ X)
    <3>1. A \ M = (A) \ X
      BY <1>3, <1>5, <2>2 DEF Members, X
    <3> QED  BY <1>3, <3>1, <2>1 DEF Members
  <2>6. Ends(U, v.b, A)
    BY <2>3, <2>4
  <2>7. v.ok /\ v.b.count \in MinBackup .. maxBackup
    BY <1>z, <1>f, <2>1 DEF Keeps, HasRoom
  <2>8. v \in WorkType
    BY <1>0, <2>m, <1>6, <1>f, <1>1, <1>5, <2>1, Zenon DEF MoveOutside, next, WorkType
  <2> QED  BY <2>m, <2>8, <2>1, <2>6, <2>4, <2>5, <2>7, Fits
<1>g. CASE ~ AtLeast(n, b.tail) /\ ~ AtLeast(n, b.next) /\ grows(b.next)
  <2>1. /\ v.b \in QueueType /\ v.b.prev = b.tail /\ v.b.tail = b.next /\ v.b.next = Refetch
        /\ v.b.count = b.count + 1 /\ v.bc = AddChange(w.bc, b.next) /\ v.ok /\ v.m \in QueueType
        /\ v.m.prev = m.prev /\ v.m.tail = m.tail /\ v.m.next = next /\ v.m.count = m.count /\ v.mc = w.mc
    BY <1>0, <1>6, <1>g, <1>1, <1>5, InfosTyped DEF MoveOutside, next, QueueType, WorkType
  <2>m. /\ v.m.count = MainCount /\ Ends(U, v.m, X) /\ Cardinality(X) = MainCount /\ Turns(v.mc, K, SM, X)
        /\ v.m \in QueueType /\ v.mc \in Entries
    BY <1>0, <1>3, <1>4, <2>1, InfosTyped DEF Members, X
  <2>2. /\ p \notin {b.tail.name, b.next.name} /\ Above(b.next, n)
    BY <1>0, <1>2, <1>g, SMTT(30) DEF Around, Above, AtLeast, SameRank, Comparable
  <2>3. Ends(U, v.b, (A \ {p}) \cup {b.next.name})
    BY <1>0, <2>1, <2>2, NextEnters DEF A
  <2>4. /\ (A \ {p}) \cup {b.next.name} = A \cup {b.next.name}
        /\ Cardinality(A \cup {b.next.name}) = MainCount + v.b.count
    BY <1>3, <1>5, <2>1, <2>2, FS_AddElement DEF Members
  <2>5. Turns(AddChange(w.bc, b.next), K, SB, (A \ M) \cup {b.next.name})
    BY <1>3, <1>5, <2>2, TurnAdd DEF Members
  <2>6. Turns(v.bc, K, SB, (A \cup {b.next.name}) \ X)
    <3>1. (A \ M) \cup {b.next.name} = (A \cup {b.next.name}) \ X
      BY <1>3, <1>5, <2>2 DEF Members, X
    <3> QED  BY <3>1, <2>1, <2>5 DEF Members
  <2>7. Ends(U, v.b, A \cup {b.next.name})
    BY <2>3, <2>4
  <2>8. v.ok /\ v.b.count \in MinBackup .. maxBackup
    BY <1>z, <1>g, <2>1 DEF Keeps, HasRoom
  <2>9. v \in WorkType
    BY <1>0, <2>m, <1>6, <1>g, <1>1, <1>5, <2>1, Zenon DEF MoveOutside, next, WorkType
  <2> QED  BY <2>m, <2>9, <2>1, <2>7, <2>4, <2>6, <2>8, Fits
<1>h. CASE ~ AtLeast(n, b.tail) /\ ~ AtLeast(n, b.next) /\ ~ grows(b.next) /\ SameRank(o, b.next)
  <2>1. /\ v.b \in QueueType /\ v.b.prev = b.prev /\ v.b.tail = b.tail /\ v.b.next = Refetch
        /\ v.b.count = b.count /\ v.bc = w.bc /\ v.ok /\ v.m \in QueueType /\ v.m.prev = m.prev
        /\ v.m.tail = m.tail /\ v.m.next = next /\ v.m.count = m.count /\ v.mc = w.mc
    BY <1>0, <1>6, <1>h, <1>1, <1>5, InfosTyped DEF MoveOutside, next, QueueType, WorkType
  <2>m. /\ v.m.count = MainCount /\ Ends(U, v.m, X) /\ Cardinality(X) = MainCount /\ Turns(v.mc, K, SM, X)
        /\ v.m \in QueueType /\ v.mc \in Entries
    BY <1>0, <1>3, <1>4, <2>1, InfosTyped, SMTT(30) DEF Members, X
  <2>2. /\ p \notin {b.prev.name, b.tail.name} /\ ~ (Above(b.prev, n) /\ Above(n, b.tail))
        /\ ~ Above(n, b.tail) /\ Above(b.tail, n)
    BY <1>0, <1>2, <1>h, SMTT(30) DEF Around, Above, AtLeast, SameRank, Comparable
  <2>3. FromBelow(U, b.tail, v.b.next)
    BY <2>1, <1>0, <2>2 DEF FromBelow
  <2>4. Ends(U, v.b, A \ {p})
    BY <1>0, <2>1, <2>2, <2>3, NextIsRead DEF A
  <2>5. /\ A \ {p} = A /\ Cardinality(A) = MainCount + v.b.count
    BY <1>3, <1>5, <2>1, <2>2, FS_AddElement DEF Members
  <2>6. Turns(v.bc, K, SB, (A) \ X)
    <3>1. A \ M = (A) \ X
      BY <1>3, <1>5, <2>2 DEF Members, X
    <3> QED  BY <1>3, <3>1, <2>1 DEF Members
  <2>7. Ends(U, v.b, A)
    BY <2>4, <2>5
  <2>8. v.ok /\ v.b.count \in MinBackup .. maxBackup
    BY <1>z, <1>h, <2>1 DEF Keeps, HasRoom
  <2>9. v \in WorkType
    BY <1>0, <2>m, <1>6, <1>h, <1>1, <1>5, <2>1, Zenon DEF MoveOutside, next, WorkType
  <2> QED  BY <2>m, <2>9, <2>1, <2>7, <2>5, <2>6, <2>8, Fits
<1>i. CASE ~ AtLeast(n, b.tail) /\ ~ AtLeast(n, b.next) /\ ~ grows(b.next) /\ ~ SameRank(o, b.next)
  <2>1. /\ v.b \in QueueType /\ v.b.prev = b.prev /\ v.b.tail = b.tail /\ v.b.next = b.next
        /\ v.b.count = b.count /\ v.bc = w.bc /\ v.ok /\ v.m \in QueueType /\ v.m.prev = m.prev
        /\ v.m.tail = m.tail /\ v.m.next = next /\ v.m.count = m.count /\ v.mc = w.mc
    BY <1>0, <1>6, <1>i, <1>1, <1>5, InfosTyped DEF MoveOutside, next, QueueType, WorkType
  <2>m. /\ v.m.count = MainCount /\ Ends(U, v.m, X) /\ Cardinality(X) = MainCount /\ Turns(v.mc, K, SM, X)
        /\ v.m \in QueueType /\ v.mc \in Entries
    BY <1>0, <1>3, <1>4, <2>1, InfosTyped DEF Members, X
  <2>2. /\ p \notin {b.prev.name, b.tail.name, b.next.name} /\ ~ (Above(b.prev, n) /\ Above(n, b.tail))
        /\ ~ (Above(b.tail, n) /\ Above(n, b.next)) /\ ~ Above(n, b.tail)
    BY <1>0, <1>2, <1>i, SMTT(30) DEF Around, Above, AtLeast, SameRank, Comparable
  <2>3. Ends(U, v.b, A \ {p})
    BY <1>0, <2>1, <2>2, QueueUnmoved DEF A
  <2>4. /\ A \ {p} = A /\ Cardinality(A) = MainCount + v.b.count
    BY <1>3, <1>5, <2>1, <2>2, FS_AddElement DEF Members
  <2>5. Turns(v.bc, K, SB, (A) \ X)
    <3>1. A \ M = (A) \ X
      BY <1>3, <1>5, <2>2 DEF Members, X
    <3> QED  BY <1>3, <3>1, <2>1 DEF Members
  <2>6. Ends(U, v.b, A)
    BY <2>3, <2>4
  <2>7. v.ok /\ v.b.count \in MinBackup .. maxBackup
    BY <1>z, <1>i, <2>1 DEF Keeps, HasRoom
  <2>8. v \in WorkType
    BY <1>0, <2>m, <1>6, <1>i, <1>1, <1>5, <2>1, Zenon DEF MoveOutside, next, WorkType
  <2> QED  BY <2>m, <2>8, <2>1, <2>6, <2>4, <2>5, <2>7, Fits
<1> QED  BY <1>a, <1>b, <1>c, <1>d, <1>e, <1>f, <1>g, <1>h, <1>i

\* All five branches.
LEMMA MovedFits ==
  ASSUME NEW T, NEW U, NEW p, NEW w, NEW K, NEW SM, NEW SB, Steps(T, U, p, w, K, SM, SB)
  PROVE  Fitting(U, Moved(w, U, Info(T, p), Info(U, p)), K, SM, SB)
<1> DEFINE o == Info(T, p)
           n == Info(U, p)
           v == Moved(w, U, o, n)
<1>1. CASE AtLeast(o, w.m.tail) /\ (AtLeast(n, w.m.tail) \/ Above(n, w.m.next))
  <2>1. v = StayInMain(w, o, n)
    BY <1>1 DEF Moved
  <2>2. Layout(T, U, p, w)
    BY StepLayout
  <2> HIDE DEF v, o, n
  <2>3. /\ v \in WorkType /\ v.ok = w.ok
        /\ v.mc = w.mc /\ v.bc = w.bc
        /\ v.m.count = w.m.count /\ v.b.count = w.b.count
        /\ Ends(U, v.m, Top(T, w.m.tail)) /\ Ends(U, v.b, Top(T, w.b.tail))
    BY <1>1, <2>1, <2>2, MainStays DEF o, n
  <2>4. /\ w.ok /\ w.m.count = MainCount /\ w.b.count \in MinBackup .. maxBackup
        /\ Cardinality(Top(T, w.m.tail)) = MainCount
        /\ Cardinality(Top(T, w.b.tail)) = MainCount + w.b.count
        /\ Turns(w.mc, K, SM, Top(T, w.m.tail))
        /\ Turns(w.bc, K, SB, Top(T, w.b.tail) \ Top(T, w.m.tail))
    BY DEF Steps, Fitting
  <2>5. Fitting(U, v, K, SM, SB)
    BY <2>3, <2>4, Fits
  <2> QED  BY <2>5 DEF v, o, n
<1>2. CASE AtLeast(o, w.m.tail) /\ ~ (AtLeast(n, w.m.tail) \/ Above(n, w.m.next))
  BY <1>2, MainFallen DEF Moved
<1>3. CASE ~ AtLeast(o, w.m.tail) /\ Above(n, w.m.tail)
  BY <1>3, MainEntered DEF Moved
<1>4. CASE ~ AtLeast(o, w.m.tail) /\ ~ Above(n, w.m.tail) /\ AtLeast(o, w.b.tail)
  BY <1>4, BackupMoved DEF Moved
<1>5. CASE ~ AtLeast(o, w.m.tail) /\ ~ Above(n, w.m.tail) /\ ~ AtLeast(o, w.b.tail)
  BY <1>5, OutsideMoved DEF Moved
<1> QED  BY <1>1, <1>2, <1>3, <1>4, <1>5

\* Changes that turn one set of members into another are not bad.
LEMMA TurnsNotBad ==
  ASSUME NEW c, NEW K, NEW S, NEW R, Turns(c, K, S, R)
  PROVE  ~ IsBad(c)
<1>1. ASSUME NEW x \in Producers PROVE c[x].op # "bad"
  <2>1. c[x] = None \/ c[x] = Add(K[x]) \/ c[x] = Modify(K[x]) \/ c[x] = Del
    BY DEF Turns
  <2> QED  BY <2>1, OpsOfChanges
<1> QED  BY <1>1 DEF IsBad

\* The ASSERTs at the head of the handler.
LEMMA StepsAreSound ==
  ASSUME NEW T, NEW U, NEW p, NEW w, NEW K, NEW SM, NEW SB, Steps(T, U, p, w, K, SM, SB)
  PROVE  w.ok /\ Sound(w)
<1>1. Layout(T, U, p, w)
  BY StepLayout
<1>2. /\ Settled(T) /\ Above(w.m.next, w.b.prev)
      /\ IsRow(T, w.m.prev) /\ IsRow(T, w.m.tail)
      /\ IsRow(T, w.b.prev) /\ IsRow(T, w.b.tail) /\ IsRow(T, w.b.next)
  BY <1>1, LayoutRows
<1>3. \A i : IsRow(T, i) => i # NoInfo
  BY <1>2, RowInfo
<1>4. w.ok /\ w.m.count = MainCount /\ MainCount \in Nat /\ MainCount >= 2
      /\ MinBackup \in Nat /\ maxBackup \in Nat /\ w.b.count \in MinBackup .. maxBackup
  BY QueueAssumption DEF Steps, Fitting, QueueAssumption
<1>5. w.m.count + w.b.count >= MainCount + MinBackup /\ w.m.count > 0
  BY <1>4
<1> QED  BY <1>2, <1>3, <1>4, <1>5 DEF Sound

\* process_elected_producer.
LEMMA ProcessKeeps ==
  ASSUME NEW T, NEW U, NEW p, NEW w, NEW K, NEW SM, NEW SB, Steps(T, U, p, w, K, SM, SB)
  PROVE  /\ Fitting(U, Process(w, U, Info(T, p), Info(U, p)), K, SM, SB)
         /\ Placed(U, Process(w, U, Info(T, p), Info(U, p)))
<1> DEFINE v == Moved(w, U, Info(T, p), Info(U, p))
           r == Process(w, U, Info(T, p), Info(U, p))
<1>1. r = Refetched(v, U)
  BY StepsAreSound DEF Process
<1>2. Fitting(U, v, K, SM, SB) /\ Settled(U)
  BY MovedFits DEF Steps, Moves
<1> HIDE DEF v, r
<1>3. /\ v \in WorkType /\ v.ok /\ Patched(U, v) /\ ~ IsBad(v.mc) /\ ~ IsBad(v.bc)
  BY <1>2, TurnsNotBad DEF Fitting, Patched
<1>4. /\ r \in WorkType /\ r.ok /\ Placed(U, r)
      /\ r.m.tail = v.m.tail /\ r.m.count = v.m.count
      /\ r.b.tail = v.b.tail /\ r.b.count = v.b.count
      /\ r.mc = v.mc /\ r.bc = v.bc
  BY <1>1, <1>2, <1>3, RefetchPlaces
<1>5. PatchedQueue(U, r.m) /\ PatchedQueue(U, r.b)
  BY <1>4 DEF Placed, PlacedQueue, PatchedQueue, FromAbove, FromBelow, NextTo
<1>6. Fitting(U, r, K, SM, SB)
  BY <1>2, <1>4, <1>5 DEF Fitting
<1> QED  BY <1>4, <1>6 DEF r

-----------------------------------------------------------------------------
(* One producer of a voter's list, and the whole list.                     *)

\* What holds of the table and the work between two producers of a list, from
\* the members SM and SB at the beginning of the transaction; nothing is said
\* of the queues once a check has failed or while they are not kept.
UnderWay(st, K, SM, SB) ==
  /\ Settled(st.tbl) /\ Under(st.tbl, K)
  /\ "ok" \in DOMAIN st.w /\ st.w.ok \in BOOLEAN
  /\ st.w.ok =>
       /\ \A c \in Rows(st.tbl) : st.tbl[c].votes >= 0
       /\ IF version = Enabled
          THEN Fitting(st.tbl, st.w, K, SM, SB) /\ Placed(st.tbl, st.w)
          ELSE st.w.mc = NoChanges /\ st.w.bc = NoChanges

\* The table after p was given d votes.
Voted(T, p, d) == [T EXCEPT ![p].votes = @ + d]

\* Giving votes moves one producer and changes no key.
LEMMA VotesChanged ==
  ASSUME NEW T, Settled(T), NEW p \in Producers, NEW d \in Int, NEW K, Under(T, K)
  PROVE  LET U == Voted(T, p, d) IN
         /\ Settled(U) /\ Under(U, K) /\ Rows(U) = Rows(T)
         /\ U[p].votes = T[p].votes + d
         /\ \A c \in Producers : c # p => U[c] = T[c]
         /\ p \in Rows(T) => Moves(T, U, p)
<1> DEFINE U == Voted(T, p, d)
<1>1. /\ U \in [Producers -> RowType] /\ U[p].votes = T[p].votes + d
      /\ U[p].registered = T[p].registered /\ U[p].active = T[p].active /\ U[p].key = T[p].key
      /\ \A c \in Producers : c # p => U[c] = T[c]
  <2>1. T \in [Producers -> RowType] /\ T[p] \in RowType
    BY DEF Settled
  <2>2. U[p] = [T[p] EXCEPT !.votes = T[p].votes + d] /\ \A c \in Producers : c # p => U[c] = T[c]
    BY <2>1 DEF Voted
  <2>3. [T[p] EXCEPT !.votes = T[p].votes + d] \in RowType
    BY <2>1 DEF RowType
  <2>4. U \in [Producers -> RowType]
    BY <2>1, <2>2, <2>3 DEF Voted
  <2> HIDE DEF U
  <2>5. /\ U[p].votes = T[p].votes + d
        /\ U[p].registered = T[p].registered /\ U[p].active = T[p].active /\ U[p].key = T[p].key
    BY <2>1, <2>2 DEF RowType
  <2> QED  BY <2>2, <2>4, <2>5
<1> HIDE DEF U
<1>2. \A c \in Producers : U[c].registered = T[c].registered /\ U[c].active = T[c].active /\ U[c].key = T[c].key
  BY <1>1
<1>3. Rows(U) = Rows(T) /\ Rows(T) \subseteq Producers
  BY <1>2 DEF Rows
<1>4. Settled(U) /\ Under(U, K)
  BY <1>1, <1>2, <1>3 DEF Settled, Under
<1>5. \A c \in Rows(T) : c # p => Info(U, c) = Info(T, c)
  BY <1>1, <1>3 DEF Info
<1> QED  BY <1>1, <1>3, <1>4, <1>5 DEF Moves, U

\* One producer of the list: the transaction is still under way, or refused.
LEMMA OneKeepsUnderWay ==
  ASSUME NEW st, NEW p \in Producers, NEW d \in Int, NEW K, NEW SM, NEW SB,
         UnderWay(st, K, SM, SB), maxBackup \in Nat
  PROVE  UnderWay(UpdateOne(st, p, d), K, SM, SB)
<1> DEFINE T == st.tbl
           U == Voted(T, p, d)
           w == st.w
           v == IF ~ VotesAllowed(U[p]) THEN [w EXCEPT !.ok = FALSE]
                ELSE IF version = Enabled THEN Process(w, U, Info(T, p), Info(U, p)) ELSE w
<1>1. UpdateOne(st, p, d) = [tbl |-> U, w |-> v]
  BY DEF UpdateOne, Voted
<1>t. Settled(T) /\ Under(T, K)
  BY DEF UnderWay
<1>2. /\ Settled(U) /\ Under(U, K) /\ Rows(U) = Rows(T)
      /\ U[p].votes = T[p].votes + d
      /\ \A c \in Producers : c # p => U[c] = T[c]
      /\ p \in Rows(T) => Moves(T, U, p)
  <2> HIDE DEF T
  <2> QED  BY <1>t, VotesChanged
<1>3. "ok" \in DOMAIN w /\ w.ok \in BOOLEAN
  BY DEF UnderWay
<1>4. [w EXCEPT !.ok = FALSE].ok = FALSE /\ "ok" \in DOMAIN [w EXCEPT !.ok = FALSE]
  BY <1>3
<1> HIDE DEF U
<1>5. ASSUME "ok" \in DOMAIN v, v.ok = FALSE
      PROVE  UnderWay([tbl |-> U, w |-> v], K, SM, SB)
  <2> HIDE DEF v
  <2> QED  BY <1>2, <1>5 DEF UnderWay
<1>a. CASE ~ VotesAllowed(U[p])
  <2>1. v = [w EXCEPT !.ok = FALSE]
    BY <1>a
  <2> HIDE DEF v, w
  <2> QED  BY <1>1, <1>4, <1>5, <2>1
<1>b. CASE VotesAllowed(U[p]) /\ ~ w.ok
  <2>1. v = [w EXCEPT !.ok = FALSE] \/ v = w
    BY <1>b DEF Process
  <2>2. "ok" \in DOMAIN v /\ v.ok = FALSE
    <3> HIDE DEF v
    <3> QED  BY <1>3, <1>4, <1>b, <2>1
  <2> HIDE DEF v
  <2> QED  BY <1>1, <1>5, <2>2
<1>c. CASE VotesAllowed(U[p]) /\ w.ok
  <2>1. p \in Rows(T) /\ U[p].votes >= 0
    BY <1>2, <1>c DEF VotesAllowed, Rows
  <2>2. \A c \in Rows(U) : U[c].votes >= 0
    BY <1>2, <1>c, <2>1 DEF UnderWay, Rows
  <2>3. CASE version = Enabled
    <3>1. Steps(T, U, p, w, K, SM, SB)
      BY <1>2, <1>c, <2>1, <2>3 DEF Steps, UnderWay
    <3>2. v = Process(w, U, Info(T, p), Info(U, p))
      BY <1>c, <2>3
    <3> HIDE DEF v, w, T
    <3>3. Fitting(U, v, K, SM, SB) /\ Placed(U, v)
      BY <3>1, <3>2, ProcessKeeps
    <3>4. "ok" \in DOMAIN v /\ v.ok = TRUE
      BY <3>3 DEF Fitting, WorkType
    <3>5. UnderWay([tbl |-> U, w |-> v], K, SM, SB)
      BY <1>2, <2>2, <2>3, <3>3, <3>4 DEF UnderWay
    <3> QED  BY <1>1, <3>5
  <2>4. CASE version # Enabled
    <3>1. v = w /\ w.mc = NoChanges /\ w.bc = NoChanges
      BY <1>c, <2>4 DEF UnderWay
    <3> HIDE DEF v, w, T
    <3>2. UnderWay([tbl |-> U, w |-> v], K, SM, SB)
      BY <1>2, <1>3, <1>c, <2>2, <2>4, <3>1 DEF UnderWay
    <3> QED  BY <1>1, <3>2
  <2> QED  BY <2>3, <2>4
<1> QED  BY <1>3, <1>a, <1>b, <1>c

\* The last name of a list is one of the list: a least set without a greatest
\* name would have a smaller one.
LEMMA LastNameIsIn ==
  ASSUME NEW S, IsFiniteSet(S), S \subseteq Nat, S # {}
  PROVE  LastName(S) \in S
<1> DEFINE Wrong == {T \in SUBSET S : T # {} /\ ~ \E p \in T : \A q \in T : q <= p}
<1>1. Wrong = {}
  <2> SUFFICES ASSUME Wrong # {} PROVE FALSE
    OBVIOUS
  <2>1. Wrong \in SUBSET (SUBSET S)
    OBVIOUS
  <2>2. PICK T \in Wrong : \A U \in SUBSET T : U # T => U \notin Wrong
    <3> HIDE DEF Wrong
    <3> QED  BY <2>1, SmallestSubset
  <2>3. PICK x \in T : TRUE
    OBVIOUS
  <2>4. T \ {x} \in SUBSET T /\ T \ {x} # T /\ T \ {x} \in SUBSET S
    BY <2>3
  <2>5. T \ {x} = {} \/ \E p \in T \ {x} : \A q \in T \ {x} : q <= p
    BY <2>2, <2>4
  <2>6. x \in Nat
    BY <2>3
  <2>7. CASE T \ {x} = {}
    <3>1. \A q \in T : q <= x
      BY <2>3, <2>6, <2>7
    <3> QED  BY <2>3, <3>1
  <2>8. ASSUME NEW p \in T \ {x}, \A q \in T \ {x} : q <= p PROVE FALSE
    <3>1. p \in Nat
      OBVIOUS
    <3>2. CASE x <= p
      <4>1. \A q \in T : q <= p
        BY <2>8, <3>2
      <4> QED  BY <4>1
    <3>3. CASE ~ (x <= p)
      <4>1. \A q \in T : q \in Nat
        OBVIOUS
      <4>2. \A q \in T : q <= x
        BY <2>6, <2>8, <3>1, <3>3, <4>1
      <4> QED  BY <2>3, <4>2
    <3> QED  BY <3>2, <3>3
  <2> QED  BY <2>5, <2>7, <2>8
<1>2. \E p \in S : \A q \in S : q <= p
  <2>1. S \in SUBSET S /\ S \notin Wrong
    BY <1>1
  <2> QED  BY <2>1
<1> QED  BY <1>2 DEF LastName

\* The recursive function of UpdateVotes, and that there is one.
IsUpdated(g, st, d, S) ==
  g = [T \in SUBSET S |-> IF T = {} THEN st ELSE UpdateOne(g[T \ {LastName(T)}], LastName(T), d)]

\* Two such functions differ nowhere: take a least set where they do.
LEMMA UpdatedIsUnique ==
  ASSUME NEW S \in SUBSET Producers, NEW st, NEW d, NEW g, NEW h,
         IsUpdated(g, st, d, S), IsUpdated(h, st, d, S)
  PROVE  g = h
<1> DEFINE Wrong == {T \in SUBSET S : g[T] # h[T]}
<1>0. IsFiniteSet(S) /\ S \subseteq Nat
  BY QueueAssumption, FS_Subset DEF QueueAssumption
<1>a. /\ g = [T \in SUBSET S |-> g[T]] /\ g[{}] = st
      /\ \A T \in SUBSET S : T # {} => g[T] = UpdateOne(g[T \ {LastName(T)}], LastName(T), d)
  BY DEF IsUpdated
<1>b. /\ h = [T \in SUBSET S |-> h[T]] /\ h[{}] = st
      /\ \A T \in SUBSET S : T # {} => h[T] = UpdateOne(h[T \ {LastName(T)}], LastName(T), d)
  BY DEF IsUpdated
<1>1. Wrong = {}
  <2> SUFFICES ASSUME Wrong # {} PROVE FALSE
    OBVIOUS
  <2>0. Wrong \in SUBSET (SUBSET S)
    OBVIOUS
  <2>1. PICK T \in Wrong : \A U \in SUBSET T : U # T => U \notin Wrong
    <3> HIDE DEF Wrong
    <3> QED  BY <1>0, <2>0, SmallestSubset
  <2>2. T # {}
    BY <1>a, <1>b
  <2>3. LastName(T) \in T
    <3>1. IsFiniteSet(T) /\ T \subseteq Nat
      BY <1>0, FS_Subset
    <3> QED  BY <2>2, <3>1, LastNameIsIn
  <2>4. g[T \ {LastName(T)}] = h[T \ {LastName(T)}]
    BY <2>1, <2>3
  <2> QED  BY <1>a, <1>b, <2>1, <2>2, <2>4
<1>2. \A T \in SUBSET S : g[T] = h[T]
  BY <1>1
<1>3. [T \in SUBSET S |-> g[T]] = [T \in SUBSET S |-> h[T]]
  BY <1>2
<1> QED  BY <1>3, <1>a, <1>b, Zenon

\* There is one: a least set without one would get it from the set without its
\* last name.
LEMMA UpdatedExists ==
  ASSUME NEW S \in SUBSET Producers, NEW st, NEW d
  PROVE  \E g : IsUpdated(g, st, d, S)
<1> DEFINE Wrong == {T \in SUBSET S : ~ \E g : IsUpdated(g, st, d, T)}
<1> SUFFICES ASSUME Wrong # {} PROVE FALSE
  OBVIOUS
<1>0. Wrong \in SUBSET (SUBSET S)
  OBVIOUS
<1>f. IsFiniteSet(S) /\ S \subseteq Nat
  BY QueueAssumption, FS_Subset DEF QueueAssumption
<1>1. PICK T \in Wrong : \A U \in SUBSET T : U # T => U \notin Wrong
  <2> HIDE DEF Wrong
  <2> QED  BY <1>0, <1>f, SmallestSubset
<1> DEFINE G(V) == CHOOSE g : IsUpdated(g, st, d, V)
           less(V) == V \ {LastName(V)}
           h == [V \in SUBSET T |-> IF V = {} THEN st ELSE UpdateOne(G(less(V))[less(V)], LastName(V), d)]
<1> HIDE DEF G
<1>2. ASSUME NEW V \in SUBSET T, V # T PROVE IsUpdated(G(V), st, d, V)
  BY <1>1, <1>2 DEF G
<1>3. ASSUME NEW V \in SUBSET T, V # {}
      PROVE  less(V) \in SUBSET T /\ less(V) # T /\ less(V) \in SUBSET S
  <2>1. IsFiniteSet(V) /\ V \subseteq Nat
    BY <1>f, FS_Subset
  <2> QED  BY <1>3, <2>1, LastNameIsIn
<1>4. ASSUME NEW V \in SUBSET T, V # {}
      PROVE  h[less(V)] = G(less(V))[less(V)]
  <2> DEFINE X == less(V)
  <2>1. X \in SUBSET T /\ X # T /\ IsUpdated(G(X), st, d, X)
    BY <1>2, <1>3, <1>4
  <2>x. PICK x : x = G(X) /\ IsUpdated(x, st, d, X)
    BY <2>1
  <2>2. CASE X = {}
    <3>1. x[{}] = st
      BY <2>x DEF IsUpdated
    <3>2. h[{}] = st
      OBVIOUS
    <3> HIDE DEF h
    <3> QED  BY <2>x, <2>2, <3>1, <3>2
  <2>3. CASE X # {}
    <3> DEFINE W == less(X)
    <3>1. W \in SUBSET T /\ W # T /\ W \in SUBSET X /\ W \in SUBSET S
      BY <2>1, <2>3, <1>3
    <3>2. IsUpdated(G(W), st, d, W)
      BY <1>2, <3>1
    <3>3. IsUpdated([Y \in SUBSET W |-> G(X)[Y]], st, d, W)
      <4>1. IsUpdated([Y \in SUBSET W |-> x[Y]], st, d, W)
        <5> HIDE DEF X, W
        <5>1. ASSUME NEW Y \in SUBSET W, Y # {}
              PROVE  Y \ {LastName(Y)} \in SUBSET W
          OBVIOUS
        <5> QED  BY <2>x, <3>1, <5>1 DEF IsUpdated
      <4> QED  BY <2>x, <4>1, Zenon
    <3>4. W \in SUBSET Producers
      BY <3>1
    <3>5. G(W) = [Y \in SUBSET W |-> G(X)[Y]]
      BY <3>2, <3>3, <3>4, UpdatedIsUnique
    <3>6. G(X)[X] = UpdateOne(G(X)[W], LastName(X), d)
      <4> HIDE DEF X
      <4>1. x[X] = UpdateOne(x[X \ {LastName(X)}], LastName(X), d)
        BY <2>3, <2>x DEF IsUpdated
      <4> QED  BY <2>x, <4>1
    <3> QED  BY <2>1, <2>3, <3>5, <3>6
  <2> QED  BY <2>2, <2>3
<1>5. IsUpdated(h, st, d, T)
  <2>1. ASSUME NEW V \in SUBSET T
        PROVE  h[V] = IF V = {} THEN st ELSE UpdateOne(h[less(V)], LastName(V), d)
    BY <1>4
  <2>2. h = [V \in SUBSET T |-> h[V]]
    OBVIOUS
  <2> HIDE DEF h
  <2> QED  BY <2>1, <2>2 DEF IsUpdated
<1> QED  BY <1>1, <1>5

\* The whole list.
LEMMA ListKeepsUnderWay ==
  ASSUME NEW st, NEW L \in SUBSET Producers, NEW d \in Int, NEW K, NEW SM, NEW SB,
         UnderWay(st, K, SM, SB), maxBackup \in Nat
  PROVE  UnderWay(UpdateVotes(st, L, d), K, SM, SB)
<1>1. PICK g : UpdateVotes(st, L, d) = g[L] /\ g = CHOOSE f : IsUpdated(f, st, d, L)
  BY DEF UpdateVotes, IsUpdated
<1>2. IsUpdated(g, st, d, L)
  BY <1>1, UpdatedExists
<1>3. /\ g[{}] = st
      /\ \A T \in SUBSET L : T # {} => g[T] = UpdateOne(g[T \ {LastName(T)}], LastName(T), d)
  BY <1>2 DEF IsUpdated
<1> DEFINE Wrong == {T \in SUBSET L : ~ UnderWay(g[T], K, SM, SB)}
<1>4. Wrong = {}
  <2> SUFFICES ASSUME Wrong # {} PROVE FALSE
    OBVIOUS
  <2>1. Wrong \in SUBSET (SUBSET L) /\ IsFiniteSet(L) /\ L \subseteq Nat
    BY QueueAssumption, FS_Subset DEF QueueAssumption
  <2>2. PICK T \in Wrong : \A U \in SUBSET T : U # T => U \notin Wrong
    <3> HIDE DEF Wrong
    <3> QED  BY <2>1, SmallestSubset
  <2>3. T # {}
    BY <1>3
  <2>4. LastName(T) \in T
    <3>1. IsFiniteSet(T) /\ T \subseteq Nat
      BY <2>1, FS_Subset
    <3> QED  BY <2>3, <3>1, LastNameIsIn
  <2>5. UnderWay(g[T \ {LastName(T)}], K, SM, SB)
    BY <2>2, <2>4
  <2>6. LastName(T) \in Producers
    BY <2>4
  <2>7. UnderWay(UpdateOne(g[T \ {LastName(T)}], LastName(T), d), K, SM, SB)
    BY <2>5, <2>6, OneKeepsUnderWay, Zenon
  <2>8. T \in SUBSET L /\ ~ UnderWay(g[T], K, SM, SB)
    OBVIOUS
  <2> QED  BY <1>3, <2>3, <2>7, <2>8, Zenon
<1>5. L \notin Wrong
  BY <1>4
<1> QED  BY <1>1, <1>5

-----------------------------------------------------------------------------
(* Between transactions.                                                   *)

\* The queues m and b, of at most max backups, are right for the table T.
QueuesFit(T, m, b, max) ==
  /\ m \in QueueType /\ b \in QueueType /\ PlacedQueue(T, m) /\ PlacedQueue(T, b)
  /\ m.count = MainCount /\ b.count \in MinBackup .. max
  /\ Cardinality(Top(T, m.tail)) = MainCount
  /\ Cardinality(Top(T, b.tail)) = MainCount + b.count

\* The schedule s has their members, under the keys of their rows.
Follows(s, T, m, b) ==
  /\ s.fit
  /\ s.main = [p \in Top(T, m.tail) |-> T[p].key]
  /\ s.backup = [p \in Top(T, b.tail) \ Top(T, m.tail) |-> T[p].key]

\* The members of the two queues.
Mains == Top(table, meq.tail)
Backups == Top(table, beq.tail) \ Mains
\* The keys of the rows.
KeysOf(T) == [p \in Producers |-> T[p].key]

\* The inductive invariant: while elections are enabled the queues are placed in
\* the index and sized as the settings say, and unless the changes are interrupted
\* the schedule they come to has the members of the queues.
ElectionInv ==
  /\ Settled(table) /\ \A p \in Rows(table) : table[p].votes >= 0
  /\ version \in {Uninit, Disabled, Enabled}
  /\ minVotes \in Nat \ {0} /\ maxBackup \in Nat /\ maxBackup >= MinBackup
  /\ interrupted \in BOOLEAN
  /\ sched.fit /\ DOMAIN sched.main \cap DOMAIN sched.backup = {}
  /\ version = Enabled =>
       /\ QueuesFit(table, meq, beq, maxBackup)
       /\ ~ interrupted => Follows(sched, table, meq, beq)

\* A transaction begins with the queues as stored and no changes.
LEMMA WorkIs ==
  /\ Work.m = meq /\ Work.b = beq /\ Work.mc = NoChanges /\ Work.bc = NoChanges /\ Work.ok = TRUE
  /\ "ok" \in DOMAIN Work
  /\ NoChanges \in Entries
  /\ meq \in QueueType /\ beq \in QueueType => Work \in WorkType
<1>1. NoChanges \in Entries
  BY ChangesTyped DEF NoChanges, Entries
<1> QED  BY <1>1 DEF Work, WorkType

\* A table is under its own keys.
LEMMA KeysUnder ==
  ASSUME NEW T, Settled(T)
  PROVE  Under(T, KeysOf(T))
<1>1. \A p \in Producers : T[p].key \in Keys \cup {NoKey}
  BY DEF Settled, RowType
<1>2. Rows(T) \subseteq Producers
  BY RowsAreFinite
<1> QED  BY <1>1, <1>2 DEF Under, KeysOf

\* A transaction that begins is under way.
LEMMA StartUnderWay ==
  ASSUME ElectionInv
  PROVE  UnderWay(Start, KeysOf(table), Mains, Backups)
<1>1. Start.tbl = table /\ Start.w = Work
  BY DEF Start
<1>2. Settled(table) /\ Under(table, KeysOf(table)) /\ \A p \in Rows(table) : table[p].votes >= 0
  BY KeysUnder DEF ElectionInv
<1>3. ASSUME version = Enabled
      PROVE  Fitting(table, Work, KeysOf(table), Mains, Backups) /\ Placed(table, Work)
  <2>1. QueuesFit(table, meq, beq, maxBackup)
    BY <1>3 DEF ElectionInv
  <2>2. Work \in WorkType /\ Placed(table, Work)
    BY <2>1, WorkIs DEF QueuesFit, Placed
  <2>3. PatchedQueue(table, meq) /\ PatchedQueue(table, beq)
    BY <2>1 DEF QueuesFit, PlacedQueue, PatchedQueue, FromAbove, FromBelow, NextTo
  <2>4. Turns(NoChanges, KeysOf(table), Mains, Mains) /\ Turns(NoChanges, KeysOf(table), Backups, Backups)
    BY NothingTurns
  <2> QED  BY <2>1, <2>2, <2>3, <2>4, WorkIs DEF QueuesFit, Fitting, Mains, Backups
<1> QED  BY <1>1, <1>2, <1>3, WorkIs DEF UnderWay

\* What a vote comes to: some work on a table, saved.
LEMMA VotesUnderWay ==
  ASSUME ElectionInv, Voting
  PROVE  \E st : /\ UnderWay(st, KeysOf(table), Mains, Backups)
                 /\ st.w.ok /\ Save(st.w, st.tbl)
<1>1. UnderWay(Start, KeysOf(table), Mains, Backups) /\ maxBackup \in Nat
  BY StartUnderWay DEF ElectionInv
<1>2. PICK list \in Lists, n \in 1 .. MaxVotes :
        \/ AddVote(list, n) \/ SubVote(list, n) \/ \E new \in Lists : Vote(list, new, n)
  BY DEF Voting
<1>3. list \in SUBSET Producers /\ n \in Int /\ -n \in Int
  BY QueueAssumption DEF Lists, QueueAssumption
<1>4. UnderWay(UpdateVotes(Start, list, n), KeysOf(table), Mains, Backups)
  BY <1>1, <1>3, ListKeepsUnderWay
<1>5. UnderWay(UpdateVotes(Start, list, -n), KeysOf(table), Mains, Backups)
  BY <1>1, <1>3, ListKeepsUnderWay
<1>6. CASE AddVote(list, n)
  BY <1>4, <1>6 DEF AddVote
<1>7. CASE SubVote(list, n)
  BY <1>5, <1>7 DEF SubVote
<1>8. ASSUME NEW new \in Lists, Vote(list, new, n)
      PROVE  \E st : /\ UnderWay(st, KeysOf(table), Mains, Backups)
                     /\ st.w.ok /\ Save(st.w, st.tbl)
  <2>1. new \in SUBSET Producers
    BY DEF Lists
  <2>2. UnderWay(UpdateVotes(UpdateVotes(Start, list, -n), new, n), KeysOf(table), Mains, Backups)
    BY <1>1, <1>3, <1>5, <2>1, ListKeepsUnderWay
  <2> QED  BY <1>8, <2>2 DEF Vote
<1> QED  BY <1>2, <1>6, <1>7, <1>8

\* The main producers are among the backup producers and those above them.
LEMMA TopsNest ==
  ASSUME NEW T, Settled(T), NEW m, NEW b, NEW max \in Nat, QueuesFit(T, m, b, max)
  PROVE  /\ IsRow(T, m.tail) /\ IsRow(T, b.tail)
         /\ Top(T, m.tail) \subseteq Top(T, b.tail) /\ Top(T, b.tail) \subseteq Rows(T)
         /\ IsFiniteSet(Top(T, m.tail)) /\ IsFiniteSet(Top(T, b.tail)) /\ IsFiniteSet(Rows(T))
         /\ Cardinality(Top(T, b.tail) \ Top(T, m.tail)) = b.count
<1>1. IsRow(T, m.tail) /\ IsRow(T, b.tail)
  BY DEF QueuesFit, PlacedQueue, NextTo
<1>2. /\ m.tail.name \in Rows(T) /\ m.tail = Info(T, m.tail.name) /\ Comparable(m.tail)
      /\ b.tail.name \in Rows(T) /\ b.tail = Info(T, b.tail.name) /\ Comparable(b.tail)
  BY <1>1, RowCompares
<1>3. /\ IsFiniteSet(Top(T, m.tail)) /\ IsFiniteSet(Top(T, b.tail)) /\ Top(T, b.tail) \subseteq Rows(T)
      /\ Top(T, m.tail) \subseteq Rows(T)
  BY TopIsFinite
<1>4. b.count \in Int /\ b.count >= 3 /\ MainCount \in Nat
  BY QueueAssumption DEF QueuesFit, QueueAssumption
<1>5. /\ RankOf(T, m.tail.name) = MainCount /\ RankOf(T, b.tail.name) = MainCount + b.count
      /\ Cardinality(Top(T, m.tail)) = MainCount /\ Cardinality(Top(T, b.tail)) = MainCount + b.count
  BY <1>1, TopIsUpTo DEF QueuesFit
<1>6. ~ Above(b.tail, m.tail) /\ m.tail.name # b.tail.name
  BY <1>2, <1>4, <1>5, HigherRank
<1>7. Above(m.tail, b.tail)
  BY <1>2, <1>6 DEF Above, Comparable
<1>8. \A c \in Rows(T) : Comparable(Info(T, c))
  BY InfosCompare
<1>9. Top(T, m.tail) \subseteq Top(T, b.tail)
  BY <1>2, <1>7, <1>8 DEF Top, AtLeast, SameRank, Above, Comparable
<1>10. Top(T, b.tail) \cap Top(T, m.tail) = Top(T, m.tail)
  BY <1>9
<1>11. Cardinality(Top(T, b.tail) \ Top(T, m.tail)) = b.count
  <2>1. PICK A, M : A = Top(T, b.tail) /\ M = Top(T, m.tail)
    OBVIOUS
  <2>2. IsFiniteSet(A) /\ A \cap M = M /\ Cardinality(A) = MainCount + b.count /\ Cardinality(M) = MainCount
    BY <1>3, <1>5, <1>10, <2>1
  <2>3. Cardinality(A \ M) = Cardinality(A) - Cardinality(A \cap M)
    BY <2>2, FS_Difference
  <2>4. Cardinality(A \cap M) = Cardinality(M)
    BY <2>2, Zenon
  <2>5. Cardinality(A \ M) = b.count
    BY <1>4, <2>2, <2>3, <2>4
  <2> QED  BY <2>1, <2>5
<1> QED  BY <1>1, <1>3, <1>9, <1>11, RowsAreFinite

\* The work on a table leaves queues that are right for it.
LEMMA WorkFits ==
  ASSUME NEW T, NEW w, NEW K, NEW SM, NEW SB, Fitting(T, w, K, SM, SB), Placed(T, w)
  PROVE  QueuesFit(T, w.m, w.b, maxBackup)
BY DEF Fitting, Placed, QueuesFit, WorkType

\* Applied to the schedule they were computed from, its changes lead to the one
\* of the new queues.
LEMMA AppliedFollows ==
  ASSUME NEW T, Settled(T), NEW w, NEW K, NEW s, NEW SM \in SUBSET Producers, NEW SB \in SUBSET Producers,
         Under(T, K), maxBackup \in Nat, Fitting(T, w, K, SM, SB), Placed(T, w),
         s.fit, s.main = [p \in SM |-> K[p]], s.backup = [p \in SB |-> K[p]]
  PROVE  /\ Follows(AppliedTo(s, w), T, w.m, w.b)
         /\ IsEmpty(w.mc) /\ IsEmpty(w.bc) => Follows(s, T, w.m, w.b)
<1> DEFINE M == Top(T, w.m.tail)
           B == Top(T, w.b.tail) \ M
<1>1. QueuesFit(T, w.m, w.b, maxBackup)
  BY WorkFits
<1>2. /\ M \in SUBSET Producers /\ B \in SUBSET Producers /\ M \subseteq Rows(T) /\ B \subseteq Rows(T)
      /\ Cardinality(M) = w.m.count /\ Cardinality(B) = w.b.count
  BY <1>1, TopsNest, RowsAreFinite DEF QueuesFit
<1>3. K \in [Producers -> Keys \cup {NoKey}] /\ \A c \in Rows(T) : T[c].key = K[c]
  BY DEF Under
<1>k. K \in [Producers -> Keys \cup {NoKey}]
  BY <1>3
<1>m. M \in SUBSET Producers /\ B \in SUBSET Producers
  BY <1>2
<1>4. Turns(w.mc, K, SM, M) /\ Turns(w.bc, K, SB, B)
  BY DEF Fitting
<1> HIDE DEF M, B
<1>5. /\ FitsIn([p \in SM |-> K[p]], w.mc, Cardinality(M))
      /\ Apply([p \in SM |-> K[p]], w.mc) = [p \in M |-> K[p]]
      /\ IsEmpty(w.mc) => SM = M
  <2>1. PICK c : c = w.mc
    OBVIOUS
  <2>2. Turns(c, K, SM, M)
    BY <1>4, <2>1
  <2>3. /\ FitsIn([p \in SM |-> K[p]], c, Cardinality(M))
        /\ Apply([p \in SM |-> K[p]], c) = [p \in M |-> K[p]]
        /\ IsEmpty(c) => SM = M
    BY ONLY <1>k, <1>m, <2>2, TurnsFit, SM \in SUBSET Producers, SB \in SUBSET Producers, Zenon
  <2> QED  BY <2>1, <2>3
<1>6. /\ FitsIn([p \in SB |-> K[p]], w.bc, Cardinality(B))
      /\ Apply([p \in SB |-> K[p]], w.bc) = [p \in B |-> K[p]]
      /\ IsEmpty(w.bc) => SB = B
  <2>1. PICK c : c = w.bc
    OBVIOUS
  <2>2. Turns(c, K, SB, B)
    BY <1>4, <2>1
  <2>3. /\ FitsIn([p \in SB |-> K[p]], c, Cardinality(B))
        /\ Apply([p \in SB |-> K[p]], c) = [p \in B |-> K[p]]
        /\ IsEmpty(c) => SB = B
    BY ONLY <1>k, <1>m, <2>2, TurnsFit, SM \in SUBSET Producers, SB \in SUBSET Producers, Zenon
  <2> QED  BY <2>1, <2>3
<1>7. [p \in M |-> K[p]] = [p \in M |-> T[p].key] /\ [p \in B |-> K[p]] = [p \in B |-> T[p].key]
  BY <1>2, <1>3
<1>8. /\ AppliedTo(s, w).main = [p \in M |-> T[p].key]
      /\ AppliedTo(s, w).backup = [p \in B |-> T[p].key]
      /\ AppliedTo(s, w).fit
  BY <1>2, <1>5, <1>6, <1>7 DEF AppliedTo
<1>9. ASSUME IsEmpty(w.mc), IsEmpty(w.bc)
      PROVE  s.main = [p \in M |-> T[p].key] /\ s.backup = [p \in B |-> T[p].key]
  BY <1>5, <1>6, <1>7, <1>9
<1> QED  BY <1>8, <1>9 DEF Follows, M, B

\* A schedule that follows two queues has no producer in both.
LEMMA FollowingIsApart ==
  ASSUME NEW s, NEW T, NEW m, NEW b, Follows(s, T, m, b)
  PROVE  s.fit /\ DOMAIN s.main \cap DOMAIN s.backup = {}
BY DEF Follows

\* reinit_elected_producers reads queues and a schedule that are right.
LEMMA ReinitFits ==
  ASSUME NEW T, Settled(T), CanReinit(T)
  PROVE  /\ QueuesFit(T, InitialMain(T), InitialBackup(T), MinBackup)
         /\ Follows(InitialSchedule(T), T, InitialMain(T), InitialBackup(T))
<1> DEFINE N == MainCount + MinBackup
<1>1. MainCount \in Nat /\ MinBackup \in Nat /\ MainCount >= 2 /\ MinBackup >= 3 /\ N \in Nat
  BY QueueAssumption DEF QueueAssumption
<1>2. Cardinality(Rows(T)) \in Nat /\ Cardinality(Rows(T)) >= N + 1
  <2>1. Leading(T) \subseteq Rows(T)
    BY DEF Leading
  <2>2. IsFiniteSet(Rows(T)) /\ Cardinality(Rows(T)) \in Nat /\ Cardinality(Leading(T)) \in Nat
        /\ Cardinality(Leading(T)) <= Cardinality(Rows(T))
    BY <2>1, RowsAreFinite, FS_Subset, FS_CardinalityType
  <2> QED  BY <1>1, <2>2 DEF CanReinit
<1>3. ASSUME NEW n \in 1 .. N + 1
      PROVE  /\ IsRow(T, InfoAt(T, n)) /\ RankOf(T, InfoAt(T, n).name) = n
             /\ InfoAt(T, n) \in InfoType
  <2>1. PICK p \in Rows(T) : RankOf(T, p) = n
    BY <1>1, <1>2, EveryRank
  <2>2. InfoAt(T, n) = Info(T, p) /\ Info(T, p).name = p
    BY <2>1, InfoAtRank, InfoIs
  <2> QED  BY <2>1, <2>2, RowOf, RowsAreInfos
<1>4. ASSUME NEW n \in 1 .. N
      PROVE  NextTo(T, InfoAt(T, n), InfoAt(T, n + 1))
  <2>1. n \in 1 .. N + 1 /\ n + 1 \in 1 .. N + 1
    BY <1>1
  <2>2. /\ IsRow(T, InfoAt(T, n)) /\ RankOf(T, InfoAt(T, n).name) = n
        /\ IsRow(T, InfoAt(T, n + 1)) /\ RankOf(T, InfoAt(T, n + 1).name) = n + 1
    BY <1>3, <2>1
  <2> QED  BY <2>2, RanksAreNext DEF IsRow
<1>5. ASSUME NEW n \in 1 .. N + 1
      PROVE  /\ Cardinality(Top(T, InfoAt(T, n))) = n
             /\ {q \in Rows(T) : RankOf(T, q) \in 1 .. n} = Top(T, InfoAt(T, n))
  <2>1. IsRow(T, InfoAt(T, n)) /\ RankOf(T, InfoAt(T, n).name) = n
    BY <1>3
  <2>2. /\ UpTo(T, Top(T, InfoAt(T, n)), InfoAt(T, n).name)
        /\ Cardinality(Top(T, InfoAt(T, n))) = n
    BY <2>1, TopIsUpTo
  <2> QED  BY <2>2, TopRanks
<1>6. /\ InitialMain(T) \in QueueType /\ InitialMain(T).count = MainCount
      /\ InitialMain(T).tail = InfoAt(T, MainCount)
      /\ InitialMain(T).prev = InfoAt(T, MainCount - 1) /\ InitialMain(T).next = InfoAt(T, MainCount + 1)
  <2>1. MainCount - 1 \in 1 .. N + 1 /\ MainCount \in 1 .. N + 1 /\ MainCount + 1 \in 1 .. N + 1
        /\ MainCount - 1 + 1 = MainCount
    BY <1>1
  <2>2. /\ InfoAt(T, MainCount) \in InfoType /\ InfoAt(T, MainCount - 1) \in InfoType
        /\ InfoAt(T, MainCount + 1) \in InfoType
    BY <1>3, <2>1
  <2> QED  BY <1>1, <2>1, <2>2 DEF InitialMain, QueueAt, QueueType
<1>7. /\ InitialBackup(T) \in QueueType /\ InitialBackup(T).count = MinBackup
      /\ InitialBackup(T).tail = InfoAt(T, N)
      /\ InitialBackup(T).prev = InfoAt(T, N - 1) /\ InitialBackup(T).next = InfoAt(T, N + 1)
  <2>1. N - 1 \in 1 .. N + 1 /\ N \in 1 .. N + 1 /\ N + 1 \in 1 .. N + 1
        /\ N - (MainCount + 1) + 1 = MinBackup
    BY <1>1
  <2>2. InfoAt(T, N) \in InfoType /\ InfoAt(T, N - 1) \in InfoType /\ InfoAt(T, N + 1) \in InfoType
    BY <1>3, <2>1
  <2> QED  BY <1>1, <2>1, <2>2 DEF InitialBackup, QueueAt, QueueType
<1>8. PlacedQueue(T, InitialMain(T)) /\ PlacedQueue(T, InitialBackup(T))
  <2>1. /\ MainCount - 1 \in 1 .. N /\ MainCount \in 1 .. N /\ N - 1 \in 1 .. N /\ N \in 1 .. N
        /\ MainCount - 1 + 1 = MainCount /\ N - 1 + 1 = N
    BY <1>1
  <2>2. /\ NextTo(T, InfoAt(T, MainCount - 1), InfoAt(T, MainCount))
        /\ NextTo(T, InfoAt(T, MainCount), InfoAt(T, MainCount + 1))
        /\ NextTo(T, InfoAt(T, N - 1), InfoAt(T, N))
        /\ NextTo(T, InfoAt(T, N), InfoAt(T, N + 1))
    <3> HIDE DEF N
    <3>1. /\ NextTo(T, InfoAt(T, MainCount - 1), InfoAt(T, MainCount - 1 + 1))
          /\ NextTo(T, InfoAt(T, MainCount), InfoAt(T, MainCount + 1))
          /\ NextTo(T, InfoAt(T, N - 1), InfoAt(T, N - 1 + 1))
          /\ NextTo(T, InfoAt(T, N), InfoAt(T, N + 1))
      BY <1>4, <2>1
    <3> QED  BY <2>1, <3>1
  <2> QED  BY <1>6, <1>7, <2>2 DEF PlacedQueue
<1>9. /\ MainCount \in 1 .. N + 1 /\ N \in 1 .. N + 1
      /\ Cardinality(Top(T, InfoAt(T, MainCount))) = MainCount
      /\ Cardinality(Top(T, InfoAt(T, N))) = MainCount + MinBackup
  <2>1. MainCount \in 1 .. N + 1 /\ N \in 1 .. N + 1
    BY <1>1
  <2> QED  BY <1>5, <2>1
<1>10. QueuesFit(T, InitialMain(T), InitialBackup(T), MinBackup)
  <2>1. InitialBackup(T).count \in MinBackup .. MinBackup
    BY <1>1, <1>7
  <2> HIDE DEF N
  <2> QED  BY <1>6, <1>7, <1>8, <1>9, <2>1 DEF QueuesFit
<1>11. {q \in Rows(T) : RankOf(T, q) \in 1 .. MainCount} = Top(T, InitialMain(T).tail)
  BY <1>5, <1>6, <1>9
<1>12. {q \in Rows(T) : RankOf(T, q) \in 1 .. N} = Top(T, InitialBackup(T).tail)
  BY <1>5, <1>7, <1>9
<1>13. {q \in Rows(T) : RankOf(T, q) \in MainCount + 1 .. N}
         = Top(T, InitialBackup(T).tail) \ Top(T, InitialMain(T).tail)
  <2>1. \A q \in Rows(T) : RankOf(T, q) \in Nat \ {0}
    BY RankType
  <2>2. \A q \in Rows(T) : RankOf(T, q) \in MainCount + 1 .. N <=>
                             RankOf(T, q) \in 1 .. N /\ ~ (RankOf(T, q) \in 1 .. MainCount)
    BY <1>1, <2>1
  <2> HIDE DEF N
  <2> QED  BY <1>11, <1>12, <2>2
<1>14. Follows(InitialSchedule(T), T, InitialMain(T), InitialBackup(T))
  BY <1>11, <1>13 DEF Follows, InitialSchedule, RankedKeys
<1> QED  BY <1>10, <1>14

\* The queues, the schedule and its interruption once a handler has saved its
\* work: right again if the work was.
LEMMA SaveKeeps ==
  ASSUME ElectionInv, NEW st, UnderWay(st, KeysOf(table), Mains, Backups), st.w.ok, Save(st.w, st.tbl)
  PROVE  /\ interrupted' \in BOOLEAN
         /\ sched'.fit /\ DOMAIN sched'.main \cap DOMAIN sched'.backup = {}
         /\ version = Enabled =>
              /\ QueuesFit(st.tbl, meq', beq', maxBackup)
              /\ ~ interrupted' => Follows(sched', st.tbl, meq', beq')
<1> DEFINE T == st.tbl
           w == st.w
           K == KeysOf(table)
<1>1. /\ Settled(T) /\ Under(T, K) /\ maxBackup \in Nat /\ maxBackup >= MinBackup /\ MinBackup \in Nat
      /\ interrupted \in BOOLEAN /\ sched.fit /\ DOMAIN sched.main \cap DOMAIN sched.backup = {}
      /\ version \in {Uninit, Disabled, Enabled}
  BY QueueAssumption DEF ElectionInv, UnderWay, QueueAssumption
<1>2. ASSUME version = Enabled
      PROVE  Fitting(T, w, K, Mains, Backups) /\ Placed(T, w) /\ QueuesFit(T, w.m, w.b, maxBackup)
  <2>1. Fitting(T, w, K, Mains, Backups) /\ Placed(T, w)
    BY <1>2 DEF UnderWay
  <2> HIDE DEF T, w, K
  <2> QED  BY <2>1, WorkFits
<1>3. ASSUME version # Enabled
      PROVE  IsEmpty(w.mc) /\ IsEmpty(w.bc)
  BY <1>3 DEF UnderWay, IsEmpty
<1>u. Uninit # Enabled
  BY DEF Uninit, Enabled
<1>4. CASE version = Uninit
  <2>1. UNCHANGED <<meq, beq, interrupted, sched>>
    BY <1>4 DEF Save
  <2> QED  BY <1>1, <1>4, <1>u, <2>1
<1>5. CASE version # Uninit /\ Restart(w, T)
  <2>1. /\ CanReinit(T) /\ meq' = InitialMain(T) /\ beq' = InitialBackup(T)
        /\ sched' = InitialSchedule(T) /\ interrupted' = FALSE
    BY <1>5 DEF Restart
  <2> HIDE DEF T, w, K
  <2>2. QueuesFit(T, meq', beq', MinBackup) /\ Follows(sched', T, meq', beq')
    BY <1>1, <2>1, ReinitFits
  <2>3. QueuesFit(T, meq', beq', maxBackup)
    BY <1>1, <2>2 DEF QueuesFit
  <2>4. sched'.fit /\ DOMAIN sched'.main \cap DOMAIN sched'.backup = {}
    BY <2>2, FollowingIsApart
  <2> QED  BY <2>1, <2>2, <2>3, <2>4 DEF T
<1>6. CASE version # Uninit /\ Drop(w, T)
  <2>1. meq' = w.m /\ beq' = w.b /\ sched' = NoSchedule /\ interrupted' = TRUE
    BY <1>6 DEF Drop
  <2>2. sched'.fit /\ DOMAIN sched'.main \cap DOMAIN sched'.backup = {}
    BY <2>1 DEF NoSchedule
  <2> QED  BY <1>2, <2>1, <2>2
<1>7. CASE version # Uninit /\ Emit(w)
  <2>1. /\ ~ interrupted /\ meq' = w.m /\ beq' = w.b /\ interrupted' = interrupted
        /\ sched' = IF IsEmpty(w.mc) /\ IsEmpty(w.bc) THEN sched ELSE AppliedTo(sched, w)
    BY <1>7 DEF Emit
  <2>2. CASE version # Enabled
    <3>1. sched' = sched
      BY <1>3, <2>1, <2>2
    <3> QED  BY <1>1, <2>1, <2>2, <3>1
  <2>3. CASE version = Enabled
    <3>1. QueuesFit(table, meq, beq, maxBackup) /\ Follows(sched, table, meq, beq) /\ Settled(table)
      BY <2>1, <2>3 DEF ElectionInv
    <3>2. Mains \in SUBSET Producers /\ Backups \in SUBSET Producers
      BY TopIsFinite DEF Mains, Backups
    <3>3. [p \in Mains |-> table[p].key] = [p \in Mains |-> K[p]]
          /\ [p \in Backups |-> table[p].key] = [p \in Backups |-> K[p]]
      BY <3>2 DEF KeysOf
    <3>4. sched.fit /\ sched.main = [p \in Mains |-> K[p]] /\ sched.backup = [p \in Backups |-> K[p]]
      BY <3>1, <3>3 DEF Follows, Mains, Backups
    <3> HIDE DEF T, w, K
    <3>5. /\ Follows(AppliedTo(sched, w), T, w.m, w.b)
          /\ IsEmpty(w.mc) /\ IsEmpty(w.bc) => Follows(sched, T, w.m, w.b)
      BY ONLY <1>1, <1>2, <2>3, <3>2, <3>4, AppliedFollows, Zenon
    <3>6. Follows(sched', T, meq', beq')
      BY <2>1, <3>5
    <3>7. sched'.fit /\ DOMAIN sched'.main \cap DOMAIN sched'.backup = {}
      BY <3>6, FollowingIsApart
    <3> QED  BY <1>1, <1>2, <2>1, <2>3, <3>6, <3>7 DEF T
  <2> QED  BY <2>2, <2>3
<1>8. version = Uninit \/ Restart(w, T) \/ Drop(w, T) \/ Emit(w)
  BY DEF Save
<1> QED  BY <1>4, <1>5, <1>6, <1>7, <1>8

\* Votes, settings and the enabling of elections keep the queues placed and sized,
\* and the emitted changes in step with them (voting.cpp, elected_producer).
THEOREM ElectionInvHolds == ElectionSpec => []ElectionInv
<1>1. Init => ElectionInv
  <2> SUFFICES ASSUME Init PROVE ElectionInv
    OBVIOUS
  <2>1. PICK k \in Keys : table = [p \in Producers |->
                                     IF p \in DOMAIN InitialVotes THEN Row(InitialVotes[p], k) ELSE NoRow]
    BY DEF Init
  <2>2. ASSUME NEW p \in Producers
        PROVE  /\ table[p] \in RowType
               /\ table[p].registered => table[p].active /\ table[p].votes >= 0
    <3>1. CASE p \in DOMAIN InitialVotes
      <4>1. InitialVotes[p] \in Int /\ InitialVotes[p] >= 0 /\ table[p] = Row(InitialVotes[p], k)
        BY <2>1, <3>1, QueueAssumption DEF QueueAssumption
      <4> QED  BY <4>1 DEF Row, RowType
    <3>2. CASE p \notin DOMAIN InitialVotes
      <4>1. table[p] = NoRow
        BY <2>1, <3>2
      <4> QED  BY <4>1 DEF NoRow, RowType
    <3> QED  BY <3>1, <3>2
  <2>3. table \in [Producers -> RowType]
    BY <2>1, <2>2
  <2>4. Settled(table) /\ \A p \in Rows(table) : table[p].votes >= 0
    BY <2>2, <2>3 DEF Settled, Rows
  <2>5. /\ version = Uninit /\ version # Enabled /\ minVotes \in Nat \ {0}
        /\ maxBackup \in Nat /\ maxBackup >= MinBackup /\ interrupted = FALSE /\ sched = NoSchedule
    BY QueueAssumption DEF Init, QueueAssumption, Uninit, Enabled
  <2>6. sched.fit /\ DOMAIN sched.main \cap DOMAIN sched.backup = {}
    BY <2>5 DEF NoSchedule
  <2> QED  BY <2>4, <2>5, <2>6 DEF ElectionInv
<1>2. ElectionInv /\ [Voting \/ Configuring]_vars => ElectionInv'
  <2> SUFFICES ASSUME ElectionInv, [Voting \/ Configuring]_vars PROVE ElectionInv'
    OBVIOUS
  <2>1. CASE Voting
    <3>1. PICK st : UnderWay(st, KeysOf(table), Mains, Backups) /\ st.w.ok /\ Save(st.w, st.tbl)
      BY <2>1, VotesUnderWay
    <3>2. table' = st.tbl /\ version' = version /\ maxBackup' = maxBackup /\ minVotes' = minVotes
      BY <3>1 DEF Save, config
    <3>3. Settled(table') /\ \A p \in Rows(table') : table'[p].votes >= 0
      BY <3>1, <3>2 DEF UnderWay
    <3>4. /\ interrupted' \in BOOLEAN
          /\ sched'.fit /\ DOMAIN sched'.main \cap DOMAIN sched'.backup = {}
          /\ version' = Enabled =>
               /\ QueuesFit(table', meq', beq', maxBackup')
               /\ ~ interrupted' => Follows(sched', table', meq', beq')
      BY <3>1, <3>2, SaveKeeps
    <3> QED  BY <3>2, <3>3, <3>4 DEF ElectionInv
  <2>2. CASE UpgradeVote
    BY <2>2 DEF UpgradeVote, ElectionInv, Disabled, Enabled
  <2>3. ASSUME NEW n \in MinVotes, SetMinProducerVotes(n)
        PROVE  ElectionInv'
    <3>1. n \in Nat \ {0}
      BY QueueAssumption DEF QueueAssumption
    <3> QED  BY <2>3, <3>1 DEF SetMinProducerVotes, ElectionInv
  <2>4. ASSUME NEW max \in MaxBackups, InitBbpElect(max)
        PROVE  ElectionInv'
    <3>1. max \in Nat /\ max >= MinBackup /\ MinBackup \in Nat
      BY QueueAssumption DEF QueueAssumption
    <3>2. /\ table' = table /\ minVotes' = minVotes /\ interrupted' = interrupted
          /\ version' = Enabled /\ maxBackup' = max
      BY <2>4 DEF InitBbpElect
    <3>3. CASE NeedReinit(max)
      <4>1. /\ CanReinit(table) /\ Settled(table)
            /\ meq' = InitialMain(table) /\ beq' = InitialBackup(table) /\ sched' = InitialSchedule(table)
        BY <2>4, <3>3 DEF InitBbpElect, ElectionInv
      <4>2. QueuesFit(table, meq', beq', MinBackup) /\ Follows(sched', table, meq', beq')
        BY <4>1, ReinitFits
      <4>3. QueuesFit(table', meq', beq', maxBackup')
        BY <3>1, <3>2, <4>2 DEF QueuesFit
      <4>4. sched'.fit /\ DOMAIN sched'.main \cap DOMAIN sched'.backup = {}
        BY <4>2, FollowingIsApart
      <4> QED  BY <3>1, <3>2, <4>2, <4>3, <4>4 DEF ElectionInv
    <3>4. CASE ~ NeedReinit(max)
      <4>1. meq' = meq /\ beq' = beq /\ sched' = sched
        BY <2>4, <3>4 DEF InitBbpElect
      <4>2. version = Enabled /\ ~ (max < maxBackup)
        BY <3>4 DEF NeedReinit, ElectionInv, Uninit, Disabled, Enabled
      <4>3. QueuesFit(table, meq, beq, maxBackup) /\ (~ interrupted => Follows(sched, table, meq, beq))
            /\ maxBackup \in Nat
        BY <4>2 DEF ElectionInv
      <4>4. QueuesFit(table', meq', beq', maxBackup')
        BY <3>1, <3>2, <4>1, <4>2, <4>3 DEF QueuesFit
      <4> QED  BY <3>1, <3>2, <4>1, <4>3, <4>4 DEF ElectionInv
    <3> QED  BY <3>3, <3>4
  <2>5. CASE UNCHANGED vars
    BY <2>5 DEF vars, ElectionInv
  <2> QED  BY <2>1, <2>2, <2>3, <2>4, <2>5 DEF Configuring
<1> QED  BY <1>1, <1>2, PTL DEF ElectionSpec

\* Where the tail of a queue is, and who is above it.
LEMMA TailRank ==
  ASSUME NEW T, Settled(T), NEW q, PlacedQueue(T, q)
  PROVE  LET n == Cardinality(Top(T, q.tail)) IN
         /\ n \in Nat
         /\ q.tail = InfoAt(T, n) /\ q.prev = InfoAt(T, n - 1) /\ q.next = InfoAt(T, n + 1)
         /\ {p \in Rows(T) : RankOf(T, p) \in 1 .. n} = Top(T, q.tail)
<1> DEFINE n == Cardinality(Top(T, q.tail))
<1>1. NextTo(T, q.prev, q.tail) /\ NextTo(T, q.tail, q.next) /\ IsRow(T, q.tail)
  BY DEF PlacedQueue, NextTo
<1>2. UpTo(T, Top(T, q.tail), q.tail.name) /\ RankOf(T, q.tail.name) = n
  BY <1>1, TopIsUpTo
<1>3. n \in Nat
  BY TopIsFinite
<1>4. q.tail.name \in Rows(T) /\ q.tail = Info(T, q.tail.name)
  BY <1>1 DEF IsRow
<1>5. InfoAt(T, n) = q.tail
  BY <1>2, <1>4, InfoAtRank
<1>6. q.prev = InfoAt(T, n - 1) /\ q.next = InfoAt(T, n + 1)
  BY <1>1, <1>2, NextInfosRank
<1>7. {p \in Rows(T) : RankOf(T, p) \in 1 .. n} = Top(T, q.tail)
  BY <1>2, TopRanks
<1> QED  BY <1>3, <1>5, <1>6, <1>7

\* The copies that process_elected_producer patches together are those a fresh
\* scan of the index would read.
THEOREM QueuesHoldTheBoundaries == ElectionSpec => []QueuePositions
<1>1. ElectionInv => QueuePositions
  <2> SUFFICES ASSUME ElectionInv, BbpEnabled PROVE
        /\ meq.count = MainCount
        /\ meq.prev = InfoAt(table, MainLast - 1)
        /\ meq.tail = InfoAt(table, MainLast)
        /\ meq.next = InfoAt(table, MainLast + 1)
        /\ beq.prev = InfoAt(table, BackupLast - 1)
        /\ beq.tail = InfoAt(table, BackupLast)
        /\ beq.next = InfoAt(table, BackupLast + 1)
    BY DEF QueuePositions
  <2>1. Settled(table) /\ QueuesFit(table, meq, beq, maxBackup)
    BY DEF ElectionInv, BbpEnabled
  <2>2. /\ PlacedQueue(table, meq) /\ PlacedQueue(table, beq) /\ meq.count = MainCount
        /\ Cardinality(Top(table, meq.tail)) = MainLast
        /\ Cardinality(Top(table, beq.tail)) = BackupLast
    BY <2>1 DEF QueuesFit, MainLast, BackupLast
  <2>3. /\ meq.tail = InfoAt(table, MainLast) /\ meq.prev = InfoAt(table, MainLast - 1)
        /\ meq.next = InfoAt(table, MainLast + 1)
    BY <2>1, <2>2, TailRank
  <2>4. /\ beq.tail = InfoAt(table, BackupLast) /\ beq.prev = InfoAt(table, BackupLast - 1)
        /\ beq.next = InfoAt(table, BackupLast + 1)
    BY <2>1, <2>2, TailRank
  <2> QED  BY <2>2, <2>3, <2>4
<1> QED  BY <1>1, ElectionInvHolds, PTL

\* The emitted changes add up to the top of the index.
THEOREM ScheduleHasTheTop == ElectionSpec => []ScheduleIsTop
<1>1. ElectionInv => ScheduleIsTop
  <2> SUFFICES ASSUME ElectionInv, BbpEnabled, ~ interrupted PROVE
        /\ sched.fit
        /\ sched.main = RankedKeys(table, 1, MainLast)
        /\ sched.backup = RankedKeys(table, MainLast + 1, BackupLast)
    BY DEF ScheduleIsTop
  <2>1. /\ Settled(table) /\ QueuesFit(table, meq, beq, maxBackup) /\ Follows(sched, table, meq, beq)
        /\ maxBackup \in Nat
    BY DEF ElectionInv, BbpEnabled
  <2>2. /\ PlacedQueue(table, meq) /\ PlacedQueue(table, beq)
        /\ Cardinality(Top(table, meq.tail)) = MainLast
        /\ Cardinality(Top(table, beq.tail)) = BackupLast
    BY <2>1 DEF QueuesFit, MainLast, BackupLast
  <2>3. {p \in Rows(table) : RankOf(table, p) \in 1 .. MainLast} = Top(table, meq.tail)
    BY <2>1, <2>2, TailRank
  <2>4. {p \in Rows(table) : RankOf(table, p) \in 1 .. BackupLast} = Top(table, beq.tail)
    BY <2>1, <2>2, TailRank
  <2>5. {p \in Rows(table) : RankOf(table, p) \in MainLast + 1 .. BackupLast}
          = Top(table, beq.tail) \ Top(table, meq.tail)
    <3>1. \A p \in Rows(table) : RankOf(table, p) \in Nat \ {0}
      BY RankType
    <3>2. MainLast \in Nat /\ BackupLast \in Nat
      BY <2>2, TopIsFinite
    <3>3. \A p \in Rows(table) : RankOf(table, p) \in MainLast + 1 .. BackupLast <=>
            RankOf(table, p) \in 1 .. BackupLast /\ ~ (RankOf(table, p) \in 1 .. MainLast)
      BY <3>1, <3>2
    <3> QED  BY <2>3, <2>4, <3>3
  <2> QED  BY <2>1, <2>3, <2>5 DEF Follows, RankedKeys
<1> QED  BY <1>1, ElectionInvHolds, PTL

\* While the last backup lacks votes, those who have enough are above it.
LEMMA ShortOfVotes ==
  ASSUME NEW T, Settled(T), NEW m, NEW b, NEW max \in Nat, QueuesFit(T, m, b, max),
         minVotes \in Nat \ {0}, ~ Valid(b.tail, minVotes)
  PROVE  /\ Cardinality(Leading(T)) \in Nat
         /\ Cardinality(Leading(T)) < MainCount + b.count
<1>1. /\ IsRow(T, b.tail) /\ IsFiniteSet(Top(T, b.tail)) /\ Settled(T)
      /\ Cardinality(Top(T, b.tail)) = MainCount + b.count
  BY TopsNest DEF QueuesFit
<1>2. /\ b.tail.name \in Rows(T) /\ b.tail = Info(T, b.tail.name) /\ Comparable(b.tail)
  BY <1>1, RowCompares
<1>3. b.tail.name \in Top(T, b.tail)
  BY <1>2 DEF Top, AtLeast, SameRank
<1>4. ASSUME NEW c \in Leading(T)
      PROVE  c \in Top(T, b.tail) /\ c # b.tail.name
  <2>1. c \in Rows(T) /\ Valid(Info(T, c), minVotes)
    BY DEF Leading
  <2>2. Comparable(Info(T, c))
    BY <2>1, InfosCompare
  <2>3. c # b.tail.name
    BY <1>2, <2>1
  <2>4. Above(Info(T, c), b.tail)
    BY <1>2, <2>1, <2>2 DEF Valid, Above, Comparable
  <2> QED  BY <2>1, <2>3, <2>4 DEF Top, AtLeast
<1>5. Leading(T) \subseteq Top(T, b.tail) \ {b.tail.name}
  BY <1>4
<1>6. PICK A, x, L : A = Top(T, b.tail) /\ x = b.tail.name /\ L = Leading(T)
  OBVIOUS
<1>7. IsFiniteSet(A) /\ x \in A /\ L \subseteq A \ {x} /\ Cardinality(A) = MainCount + b.count
  BY <1>1, <1>3, <1>5, <1>6
<1>8. IsFiniteSet(A \ {x}) /\ Cardinality(A \ {x}) = Cardinality(A) - 1 /\ Cardinality(A) \in Nat
  BY <1>7, FS_RemoveElement, FS_CardinalityType
<1>9. Cardinality(L) \in Nat /\ Cardinality(L) <= Cardinality(A \ {x})
  BY <1>7, <1>8, FS_Subset, FS_CardinalityType
<1>10. Cardinality(L) < MainCount + b.count
  BY <1>7, <1>8, <1>9
<1> QED  BY <1>6, <1>9, <1>10

\* The changes are interrupted, and stay so, only for a lack of votes.
THEOREM InterruptionsAreDue == ElectionSpec => InterruptedOnlyWhenShort
<1> DEFINE Due ==
      BbpEnabled /\ table' # table /\ interrupted' =>
        \/ Cardinality(Leading(table')) < MainCount + MinBackup
        \/ /\ interrupted
           /\ \/ Cardinality(Leading(table')) = MainCount + MinBackup
              \/ Cardinality(Leading(table')) < MainCount + beq'.count
<1>1. ElectionInv /\ [Voting \/ Configuring]_vars => [Due]_vars
  <2> SUFFICES ASSUME ElectionInv, [Voting \/ Configuring]_vars,
                      version = Enabled, table' # table, interrupted'
               PROVE  \/ Cardinality(Leading(table')) < MainCount + MinBackup
                      \/ /\ interrupted
                         /\ \/ Cardinality(Leading(table')) = MainCount + MinBackup
                            \/ Cardinality(Leading(table')) < MainCount + beq'.count
    BY DEF BbpEnabled
  <2>1. Voting
    BY DEF Configuring, UpgradeVote, SetMinProducerVotes, InitBbpElect, vars
  <2>2. PICK st : UnderWay(st, KeysOf(table), Mains, Backups) /\ st.w.ok /\ Save(st.w, st.tbl)
    BY <2>1, VotesUnderWay
  <2>3. table' = st.tbl
    BY <2>2 DEF Save
  <2>4. /\ Settled(st.tbl) /\ QueuesFit(st.tbl, st.w.m, st.w.b, maxBackup)
        /\ maxBackup \in Nat /\ minVotes \in Nat \ {0}
    <3>1. Fitting(st.tbl, st.w, KeysOf(table), Mains, Backups) /\ Placed(st.tbl, st.w)
      BY <2>2 DEF UnderWay
    <3>2. QueuesFit(st.tbl, st.w.m, st.w.b, maxBackup)
      BY <3>1, WorkFits
    <3> QED  BY <2>2, <3>2 DEF UnderWay, ElectionInv
  <2>5. Drop(st.w, st.tbl)
    <3>1. Restart(st.w, st.tbl) => interrupted' = FALSE
      BY DEF Restart
    <3>2. Emit(st.w) => ~ interrupted'
      BY DEF Emit
    <3>3. Uninit # Enabled
      BY DEF Uninit, Enabled
    <3> QED  BY <2>2, <3>1, <3>2, <3>3 DEF Save
  <2>6. /\ IF interrupted THEN ~ (Enough(st.w) /\ CanReinit(st.tbl)) ELSE Lacking(st.w)
        /\ beq' = st.w.b
    BY <2>5 DEF Drop
  <2>7. st.w.b.count \in MinBackup .. maxBackup /\ MinBackup \in Nat /\ MainCount \in Nat
    BY <2>4, QueueAssumption DEF QueuesFit, QueueAssumption
  <2>8. ASSUME ~ Valid(st.w.b.tail, minVotes)
        PROVE  Cardinality(Leading(st.tbl)) \in Nat
               /\ Cardinality(Leading(st.tbl)) < MainCount + st.w.b.count
    BY <2>4, <2>8, ShortOfVotes
  <2>9. CASE ~ interrupted
    <3>1. st.w.b.count <= MinBackup /\ ~ Valid(st.w.b.tail, minVotes)
      BY <2>6, <2>9 DEF Lacking
    <3> QED  BY <2>3, <2>4, <2>7, <2>8, <3>1
  <2>10. CASE interrupted /\ ~ Valid(st.w.b.tail, minVotes)
    BY <2>3, <2>6, <2>8, <2>10
  <2>11. CASE interrupted /\ Valid(st.w.b.tail, minVotes)
    <3>1. ~ CanReinit(st.tbl)
      BY <2>4, <2>6, <2>7, <2>11 DEF Enough
    <3>2. Cardinality(Leading(st.tbl)) \in Nat
      <4>1. Leading(st.tbl) \subseteq Rows(st.tbl)
        BY DEF Leading
      <4> QED  BY <4>1, RowsAreFinite, FS_Subset, FS_CardinalityType
    <3>3. \/ Cardinality(Leading(st.tbl)) < MainCount + MinBackup
          \/ Cardinality(Leading(st.tbl)) = MainCount + MinBackup
      BY <2>7, <3>1, <3>2 DEF CanReinit
    <3> QED  BY <2>3, <2>11, <3>3
  <2> QED  BY <2>9, <2>10, <2>11
<1>2. ElectionSpec => [][Due]_vars
  BY <1>1, ElectionInvHolds, PTL DEF ElectionSpec
<1> QED  BY <1>2 DEF InterruptedOnlyWhenShort

-----------------------------------------------------------------------------
(* The sizes of the queues, whatever happens to the producers table.       *)

\* A queue and a work whose infos are in X and whose changes are in Y, where
\* changes of these infos can be recorded.
QueueIn(X) == [count : Int, tail : X, prev : X, next : X]
WorkIn(X, Y) == [m : QueueIn(X), b : QueueIn(X), mc : Y, bc : Y, ok : BOOLEAN]
Recorded(X, Y) ==
  /\ Refetch \in X
  /\ \A c \in Y, i \in X : AddChange(c, i) \in Y /\ DelChange(c, i) \in Y /\ ModifyChange(c, i) \in Y

\* The main queue keeps its size, and the backup queue changes it by one at most,
\* and not beyond its bounds.
Resized(w, v) ==
  /\ v.m.count = w.m.count
  /\ \/ v.b.count = w.b.count
     \/ v.b.count = w.b.count + 1 /\ HasRoom(w)
     \/ v.b.count = w.b.count - 1 /\ w.b.count # MinBackup

\* What their members are.
LEMMA QueueInIs ==
  ASSUME NEW X, NEW q \in QueueIn(X)
  PROVE  /\ q.next \in X /\ q.tail \in X /\ q.prev \in X
         /\ q.count \in Int /\ q.count - 1 \in Int /\ q.count + 1 \in Int
BY DEF QueueIn

LEMMA WorkInIs ==
  ASSUME NEW X, NEW Y, NEW w \in WorkIn(X, Y)
  PROVE  /\ w.m \in QueueIn(X) /\ w.b \in QueueIn(X) /\ w.mc \in Y /\ w.bc \in Y /\ w.ok \in BOOLEAN
BY DEF WorkIn

\* A producer of the main queue stays in it.
LEMMA StayResizes ==
  ASSUME NEW X, NEW Y, Recorded(X, Y), NEW w \in WorkIn(X, Y), NEW old, NEW new \in X
  PROVE  StayInMain(w, old, new) \in WorkIn(X, Y) /\ Resized(w, StayInMain(w, old, new))
<1> DEFINE m == w.m
           moved ==
             IF AtLeast(new, m.prev) THEN
               IF new.name = m.prev.name THEN [m EXCEPT !.prev = Refetch]
               ELSE IF new.name = m.tail.name
                 THEN [m EXCEPT !.tail = m.prev, !.prev = Refetch]
               ELSE m
             ELSE IF new.name = m.tail.name THEN [m EXCEPT !.tail = new]
             ELSE IF ~AtLeast(new, m.tail)
               THEN [m EXCEPT !.prev = m.tail, !.tail = new]
             ELSE IF new.name = m.prev.name THEN [m EXCEPT !.prev = new]
             ELSE [m EXCEPT !.prev = Refetch]
           v == StayInMain(w, old, new)
<1>1. m \in QueueIn(X) /\ m.prev \in X /\ m.tail \in X /\ w.mc \in Y /\ Refetch \in X
  BY WorkInIs, QueueInIs DEF Recorded
<1>2. v = [w EXCEPT !.m = moved, !.mc = IF new.key # old.key THEN ModifyChange(@, new) ELSE @]
  BY Zenon DEF StayInMain
<1>3. moved \in QueueIn(X) /\ moved.count = m.count
  BY <1>1 DEF QueueIn
<1> HIDE DEF moved
<1>4. (IF new.key # old.key THEN ModifyChange(w.mc, new) ELSE w.mc) \in Y
  BY <1>1 DEF Recorded
<1>5. v \in WorkIn(X, Y)
  BY <1>2, <1>3, <1>4 DEF WorkIn
<1>6. v.m = moved /\ v.b = w.b
  BY <1>2 DEF WorkIn
<1> QED  BY <1>3, <1>5, <1>6 DEF Resized

\* It falls into the backup queue or below it.
LEMMA FallResizes ==
  ASSUME NEW X, NEW Y, Recorded(X, Y), NEW w \in WorkIn(X, Y), NEW new \in X
  PROVE  FallFromMain(w, new) \in WorkIn(X, Y) /\ Resized(w, FallFromMain(w, new))
<1> DEFINE m == w.m
           b == w.b
           v == FallFromMain(w, new)
           c == DelChange(w.bc, m.next)
<1>1. /\ w \in WorkIn(X, Y) /\ m \in QueueIn(X) /\ b \in QueueIn(X) /\ w.mc \in Y /\ w.bc \in Y
  BY WorkInIs
<1>2. /\ m.tail \in X /\ m.next \in X /\ m.prev \in X /\ b.tail \in X /\ b.next \in X /\ b.prev \in X
      /\ new \in X /\ Refetch \in X
      /\ b.count \in Int /\ b.count - 1 \in Int /\ b.count + 1 \in Int /\ m.count \in Int
  BY <1>1, QueueInIs DEF Recorded
<1>3. AddChange(DelChange(w.mc, new), m.next) \in Y /\ c \in Y /\ AddChange(c, new) \in Y /\ AddChange(c, b.next) \in Y
  BY <1>1, <1>2 DEF Recorded
<1>a. CASE Above(new, b.tail)
  <2>1. v \in WorkIn(X, Y)
    BY ONLY <1>1, <1>2, <1>3, <1>a DEF FallFromMain, WorkIn, QueueIn
  <2>2. v.m.count = m.count /\ v.b.count = b.count
    BY ONLY <1>1, <1>2, <1>3, <1>a DEF FallFromMain, WorkIn, QueueIn
  <2> QED  BY <2>1, <2>2 DEF Resized
<1>b. CASE ~ Above(new, b.tail) /\ Above(new, b.next) /\ Keeps(w, new)
  <2>1. v \in WorkIn(X, Y)
    BY ONLY <1>1, <1>2, <1>3, <1>b DEF FallFromMain, WorkIn, QueueIn
  <2>2. v.m.count = m.count /\ v.b.count = b.count
    BY ONLY <1>1, <1>2, <1>3, <1>b DEF FallFromMain, WorkIn, QueueIn
  <2> QED  BY <2>1, <2>2 DEF Resized
<1>c. CASE ~ Above(new, b.tail) /\ Above(new, b.next) /\ ~ Keeps(w, new)
  <2>1. v \in WorkIn(X, Y)
    BY ONLY <1>1, <1>2, <1>3, <1>c DEF FallFromMain, WorkIn, QueueIn
  <2>2. v.m.count = m.count /\ v.b.count = b.count - 1
    BY ONLY <1>1, <1>2, <1>3, <1>c DEF FallFromMain, WorkIn, QueueIn
  <2> QED  BY <2>1, <2>2, <1>c DEF Resized, Keeps
<1>d. CASE ~ Above(new, b.tail) /\ ~ Above(new, b.next) /\ Keeps(w, b.next)
  <2>1. v \in WorkIn(X, Y)
    BY ONLY <1>1, <1>2, <1>3, <1>d, ZenonT(60) DEF FallFromMain, WorkIn, QueueIn
  <2>2. v.m.count = m.count /\ v.b.count = b.count
    BY ONLY <1>1, <1>2, <1>3, <1>d DEF FallFromMain, WorkIn, QueueIn
  <2> QED  BY <2>1, <2>2 DEF Resized
<1>e. CASE ~ Above(new, b.tail) /\ ~ Above(new, b.next) /\ ~ Keeps(w, b.next)
  <2>1. v \in WorkIn(X, Y)
    BY ONLY <1>1, <1>2, <1>3, <1>e DEF FallFromMain, WorkIn, QueueIn
  <2>2. v.m.count = m.count /\ v.b.count = b.count - 1
    BY ONLY <1>1, <1>2, <1>3, <1>e DEF FallFromMain, WorkIn, QueueIn
  <2> QED  BY <2>1, <2>2, <1>e DEF Resized, Keeps
<1> QED  BY <1>a, <1>b, <1>c, <1>d, <1>e

\* A producer of the backup queue stays below the main queue.
LEMMA BackupResizes ==
  ASSUME NEW X, NEW Y, Recorded(X, Y), NEW w \in WorkIn(X, Y), NEW old, NEW new \in X
  PROVE  MoveInBackup(w, old, new) \in WorkIn(X, Y) /\ Resized(w, MoveInBackup(w, old, new))
<1> DEFINE m == w.m
           b == w.b
           v == MoveInBackup(w, old, new)
           c == DelChange(w.bc, new)
<1>1. /\ w \in WorkIn(X, Y) /\ m \in QueueIn(X) /\ b \in QueueIn(X) /\ w.mc \in Y /\ w.bc \in Y
  BY WorkInIs
<1>2. /\ m.tail \in X /\ m.next \in X /\ m.prev \in X /\ b.tail \in X /\ b.next \in X /\ b.prev \in X
      /\ new \in X /\ Refetch \in X
      /\ b.count \in Int /\ b.count - 1 \in Int /\ b.count + 1 \in Int /\ m.count \in Int
  BY <1>1, QueueInIs DEF Recorded
<1>3. (IF new.key # old.key THEN ModifyChange(w.bc, new) ELSE w.bc) \in Y /\ c \in Y /\ AddChange(c, b.next) \in Y
  BY <1>1, <1>2 DEF Recorded
<1>a. CASE AtLeast(new, m.next)
  <2>1. v \in WorkIn(X, Y)
    BY ONLY <1>1, <1>2, <1>3, <1>a DEF MoveInBackup, LeavePlace, WorkIn, QueueIn
  <2>2. v.m.count = m.count /\ v.b.count = b.count
    BY ONLY <1>1, <1>2, <1>3, <1>a DEF MoveInBackup, LeavePlace, WorkIn, QueueIn
  <2> QED  BY <2>1, <2>2 DEF Resized
<1>b. CASE ~ AtLeast(new, m.next) /\ AtLeast(new, b.prev)
  <2>1. v \in WorkIn(X, Y)
    BY ONLY <1>1, <1>2, <1>3, <1>b DEF MoveInBackup, LeavePlace, WorkIn, QueueIn
  <2>2. v.m.count = m.count /\ v.b.count = b.count
    BY ONLY <1>1, <1>2, <1>3, <1>b DEF MoveInBackup, LeavePlace, WorkIn, QueueIn
  <2> QED  BY <2>1, <2>2 DEF Resized
<1>c. CASE ~ AtLeast(new, m.next) /\ ~ AtLeast(new, b.prev) /\ AtLeast(new, b.tail)
  <2>1. v \in WorkIn(X, Y)
    BY ONLY <1>1, <1>2, <1>3, <1>c DEF MoveInBackup, LeavePlace, WorkIn, QueueIn
  <2>2. v.m.count = m.count /\ v.b.count = b.count
    BY ONLY <1>1, <1>2, <1>3, <1>c DEF MoveInBackup, LeavePlace, WorkIn, QueueIn
  <2> QED  BY <2>1, <2>2 DEF Resized
<1>d. CASE ~ AtLeast(new, m.next) /\ ~ AtLeast(new, b.prev) /\ ~ AtLeast(new, b.tail) /\ Above(new, b.next) /\ Keeps(w, new)
  <2>1. v \in WorkIn(X, Y)
    BY ONLY <1>1, <1>2, <1>3, <1>d DEF MoveInBackup, LeavePlace, WorkIn, QueueIn
  <2>2. v.m.count = m.count /\ v.b.count = b.count
    BY ONLY <1>1, <1>2, <1>3, <1>d DEF MoveInBackup, LeavePlace, WorkIn, QueueIn
  <2> QED  BY <2>1, <2>2 DEF Resized
<1>e. CASE ~ AtLeast(new, m.next) /\ ~ AtLeast(new, b.prev) /\ ~ AtLeast(new, b.tail) /\ Above(new, b.next) /\ ~ Keeps(w, new)
  <2>1. v \in WorkIn(X, Y)
    BY ONLY <1>1, <1>2, <1>3, <1>e DEF MoveInBackup, LeavePlace, WorkIn, QueueIn
  <2>2. v.m.count = m.count /\ v.b.count = b.count - 1
    BY ONLY <1>1, <1>2, <1>3, <1>e DEF MoveInBackup, LeavePlace, WorkIn, QueueIn
  <2> QED  BY <2>1, <2>2, <1>e DEF Resized, Keeps
<1>f. CASE ~ AtLeast(new, m.next) /\ ~ AtLeast(new, b.prev) /\ ~ AtLeast(new, b.tail) /\ ~ Above(new, b.next) /\ Keeps(w, b.next)
  <2>1. v \in WorkIn(X, Y)
    BY ONLY <1>1, <1>2, <1>3, <1>f DEF MoveInBackup, LeavePlace, WorkIn, QueueIn
  <2>2. v.m.count = m.count /\ v.b.count = b.count
    BY ONLY <1>1, <1>2, <1>3, <1>f DEF MoveInBackup, LeavePlace, WorkIn, QueueIn
  <2> QED  BY <2>1, <2>2 DEF Resized
<1>g. CASE ~ AtLeast(new, m.next) /\ ~ AtLeast(new, b.prev) /\ ~ AtLeast(new, b.tail) /\ ~ Above(new, b.next) /\ ~ Keeps(w, b.next)
  <2>1. v \in WorkIn(X, Y)
    BY ONLY <1>1, <1>2, <1>3, <1>g DEF MoveInBackup, LeavePlace, WorkIn, QueueIn
  <2>2. v.m.count = m.count /\ v.b.count = b.count - 1
    BY ONLY <1>1, <1>2, <1>3, <1>g DEF MoveInBackup, LeavePlace, WorkIn, QueueIn
  <2> QED  BY <2>1, <2>2, <1>g DEF Resized, Keeps
<1> QED  BY <1>a, <1>b, <1>c, <1>d, <1>e, <1>f, <1>g

\* A producer below the backup queue stays below the main queue.
LEMMA OutsideResizes ==
  ASSUME NEW X, NEW Y, Recorded(X, Y), NEW w \in WorkIn(X, Y), NEW old, NEW new \in X
  PROVE  MoveOutside(w, old, new) \in WorkIn(X, Y) /\ Resized(w, MoveOutside(w, old, new))
<1> DEFINE m == w.m
           b == w.b
           v == MoveOutside(w, old, new)
           c == AddChange(w.bc, new)
<1>1. /\ w \in WorkIn(X, Y) /\ m \in QueueIn(X) /\ b \in QueueIn(X) /\ w.mc \in Y /\ w.bc \in Y
  BY WorkInIs
<1>2. /\ m.tail \in X /\ m.next \in X /\ m.prev \in X /\ b.tail \in X /\ b.next \in X /\ b.prev \in X
      /\ new \in X /\ Refetch \in X
      /\ b.count \in Int /\ b.count - 1 \in Int /\ b.count + 1 \in Int /\ m.count \in Int
  BY <1>1, QueueInIs DEF Recorded
<1>3. c \in Y /\ DelChange(c, b.tail) \in Y /\ AddChange(w.bc, b.next) \in Y
  BY <1>1, <1>2 DEF Recorded
<1>4. (w.ok /\ ~ SameRank(new, b.tail)) \in BOOLEAN
  BY Zenon
<1>a. CASE AtLeast(new, b.tail) /\ HasRoom(w) /\ ~ SameRank(old, b.next) /\ Valid(b.tail, minVotes)
  <2>1. v \in WorkIn(X, Y)
    BY ONLY <1>1, <1>2, <1>3, <1>4, <1>a DEF MoveOutside, WorkIn, QueueIn
  <2>2. v.m.count = m.count /\ v.b.count = b.count + 1
    BY ONLY <1>1, <1>2, <1>3, <1>4, <1>a DEF MoveOutside, WorkIn, QueueIn
  <2> QED  BY <2>1, <2>2, <1>a DEF Resized, HasRoom
<1>b. CASE AtLeast(new, b.tail) /\ ~ (HasRoom(w) /\ ~ SameRank(old, b.next) /\ Valid(b.tail, minVotes)) /\ Above(b.prev, new)
  <2>1. v \in WorkIn(X, Y)
    BY ONLY <1>1, <1>2, <1>3, <1>4, <1>b DEF MoveOutside, WorkIn, QueueIn
  <2>2. v.m.count = m.count /\ v.b.count = b.count
    BY ONLY <1>1, <1>2, <1>3, <1>4, <1>b DEF MoveOutside, WorkIn, QueueIn
  <2> QED  BY <2>1, <2>2 DEF Resized
<1>c. CASE AtLeast(new, b.tail) /\ ~ (HasRoom(w) /\ ~ SameRank(old, b.next) /\ Valid(b.tail, minVotes)) /\ ~ Above(b.prev, new)
  <2>1. v \in WorkIn(X, Y)
    BY ONLY <1>1, <1>2, <1>3, <1>4, <1>c DEF MoveOutside, WorkIn, QueueIn
  <2>2. v.m.count = m.count /\ v.b.count = b.count
    BY ONLY <1>1, <1>2, <1>3, <1>4, <1>c DEF MoveOutside, WorkIn, QueueIn
  <2> QED  BY <2>1, <2>2 DEF Resized
<1>d. CASE ~ AtLeast(new, b.tail) /\ AtLeast(new, b.next) /\ HasRoom(w) /\ ~ SameRank(old, b.next) /\ Valid(new, minVotes)
  <2>1. v \in WorkIn(X, Y)
    BY ONLY <1>1, <1>2, <1>3, <1>4, <1>d DEF MoveOutside, WorkIn, QueueIn
  <2>2. v.m.count = m.count /\ v.b.count = b.count + 1
    BY ONLY <1>1, <1>2, <1>3, <1>4, <1>d DEF MoveOutside, WorkIn, QueueIn
  <2> QED  BY <2>1, <2>2, <1>d DEF Resized, HasRoom
<1>e. CASE ~ AtLeast(new, b.tail) /\ AtLeast(new, b.next) /\ ~ (HasRoom(w) /\ ~ SameRank(old, b.next) /\ Valid(new, minVotes))
  <2>1. v \in WorkIn(X, Y)
    BY ONLY <1>1, <1>2, <1>3, <1>4, <1>e DEF MoveOutside, WorkIn, QueueIn
  <2>2. v.m.count = m.count /\ v.b.count = b.count
    BY ONLY <1>1, <1>2, <1>3, <1>4, <1>e DEF MoveOutside, WorkIn, QueueIn
  <2> QED  BY <2>1, <2>2 DEF Resized
<1>f. CASE ~ AtLeast(new, b.tail) /\ ~ AtLeast(new, b.next) /\ HasRoom(w) /\ ~ SameRank(old, b.next) /\ Valid(b.next, minVotes)
  <2>1. v \in WorkIn(X, Y)
    BY ONLY <1>1, <1>2, <1>3, <1>4, <1>f DEF MoveOutside, WorkIn, QueueIn
  <2>2. v.m.count = m.count /\ v.b.count = b.count + 1
    BY ONLY <1>1, <1>2, <1>3, <1>4, <1>f DEF MoveOutside, WorkIn, QueueIn
  <2> QED  BY <2>1, <2>2, <1>f DEF Resized, HasRoom
<1>g. CASE ~ AtLeast(new, b.tail) /\ ~ AtLeast(new, b.next) /\ ~ (HasRoom(w) /\ ~ SameRank(old, b.next) /\ Valid(b.next, minVotes))
  <2>1. v \in WorkIn(X, Y)
    BY ONLY <1>1, <1>2, <1>3, <1>4, <1>g DEF MoveOutside, WorkIn, QueueIn
  <2>2. v.m.count = m.count /\ v.b.count = b.count
    BY ONLY <1>1, <1>2, <1>3, <1>4, <1>g DEF MoveOutside, WorkIn, QueueIn
  <2> QED  BY <2>1, <2>2 DEF Resized
<1> QED  BY <1>a, <1>b, <1>c, <1>d, <1>e, <1>f, <1>g

\* A producer enters the main queue.
LEMMA IntoResizes ==
  ASSUME NEW X, NEW Y, Recorded(X, Y), NEW w \in WorkIn(X, Y), NEW U, NEW old, NEW new \in X,
         NextInfo(U, w.b.tail) \in X
  PROVE  IntoMain(w, U, old, new) \in WorkIn(X, Y) /\ Resized(w, IntoMain(w, U, old, new))
<1> DEFINE m == w.m
           b == w.b
           v == IntoMain(w, U, old, new)
           c == AddChange(w.bc, m.tail)
           next == IF HasRoom(w) /\ SameRank(old, b.next) THEN NextInfo(U, b.tail) ELSE b.next
           ok == HasRoom(w) /\ SameRank(old, b.next) =>
                   PositionFound(U, b.tail) /\ (next # NoInfo => Above(b.tail, next))
<1>1. /\ w \in WorkIn(X, Y) /\ m \in QueueIn(X) /\ b \in QueueIn(X) /\ w.mc \in Y /\ w.bc \in Y
  BY WorkInIs
<1>2. /\ m.tail \in X /\ m.next \in X /\ m.prev \in X /\ b.tail \in X /\ b.next \in X /\ b.prev \in X
      /\ new \in X /\ Refetch \in X
      /\ b.count \in Int /\ b.count - 1 \in Int /\ b.count + 1 \in Int /\ m.count \in Int
  BY <1>1, QueueInIs DEF Recorded
<1>3. AddChange(DelChange(w.mc, m.tail), new) \in Y /\ c \in Y /\ DelChange(c, new) \in Y /\ DelChange(c, b.tail) \in Y
  BY <1>1, <1>2 DEF Recorded
<1>4. (w.ok /\ ok) \in BOOLEAN /\ next \in X
  BY <1>2
<1>a. CASE AtLeast(old, b.tail)
  <2>1. v \in WorkIn(X, Y)
    BY ONLY <1>1, <1>2, <1>3, <1>4, <1>a DEF IntoMain, WorkIn, QueueIn
  <2>2. v.m.count = m.count /\ v.b.count = b.count
    BY ONLY <1>1, <1>2, <1>3, <1>4, <1>a DEF IntoMain, WorkIn, QueueIn
  <2> QED  BY <2>1, <2>2 DEF Resized
<1>b. CASE ~ AtLeast(old, b.tail) /\ (~ HasRoom(w) \/ next = NoInfo)
  <2>1. v \in WorkIn(X, Y)
    BY ONLY <1>1, <1>2, <1>3, <1>4, <1>b DEF IntoMain, WorkIn, QueueIn
  <2>2. v.m.count = m.count /\ v.b.count = b.count
    BY ONLY <1>1, <1>2, <1>3, <1>4, <1>b DEF IntoMain, WorkIn, QueueIn
  <2> QED  BY <2>1, <2>2 DEF Resized
<1>c. CASE ~ AtLeast(old, b.tail) /\ ~ (~ HasRoom(w) \/ next = NoInfo)
  <2>1. v \in WorkIn(X, Y)
    BY ONLY <1>1, <1>2, <1>3, <1>4, <1>c DEF IntoMain, WorkIn, QueueIn
  <2>2. v.m.count = m.count /\ v.b.count = b.count + 1
    BY ONLY <1>1, <1>2, <1>3, <1>4, <1>c DEF IntoMain, WorkIn, QueueIn
  <2> QED  BY <2>1, <2>2, <1>c DEF Resized, HasRoom
<1> QED  BY <1>a, <1>b, <1>c

\* The changes that can be recorded of infos in X.
ChangesOf(X) ==
  [Producers -> {None, Bad, Del} \cup {Add(i.key) : i \in X} \cup {Modify(i.key) : i \in X}]

\* A work of queues and changes, whatever infos they have.
Shaped(w) == \E X : Refetch \in X /\ w \in WorkIn(X, ChangesOf(X))

\* They are: a change of a recorded one is one of them.
LEMMA ChangesRecorded ==
  ASSUME NEW X, Refetch \in X
  PROVE  Recorded(X, ChangesOf(X))
<1> DEFINE F == {None, Bad, Del} \cup {Add(i.key) : i \in X} \cup {Modify(i.key) : i \in X}
<1>1. ASSUME NEW c \in [Producers -> F], NEW i \in X
      PROVE  /\ AddChange(c, i) \in [Producers -> F] /\ DelChange(c, i) \in [Producers -> F]
             /\ ModifyChange(c, i) \in [Producers -> F]
  <2>1. Add(i.key) \in F /\ Modify(i.key) \in F /\ None \in F /\ Del \in F /\ Bad \in F
    OBVIOUS
  <2> HIDE DEF F
  <2>2. \A e : Added(e, i.key) \in F /\ Deleted(e) \in F /\ Modified(e, i.key) \in F
    BY <2>1 DEF Added, Deleted, Modified
  <2> QED  BY <2>2 DEF AddChange, DelChange, ModifyChange
<1> QED  BY <1>1, Zenon DEF Recorded, ChangesOf

\* The infos may be more.
LEMMA ShapeWidens ==
  ASSUME NEW w, Shaped(w), NEW Z
  PROVE  \E X : Z \subseteq X /\ Refetch \in X /\ w \in WorkIn(X, ChangesOf(X))
<1>1. PICK X : Refetch \in X /\ w \in WorkIn(X, ChangesOf(X))
  BY DEF Shaped
<1>2. ChangesOf(X) \subseteq ChangesOf(X \cup Z)
  <2> DEFINE F(A) == {None, Bad, Del} \cup {Add(i.key) : i \in A} \cup {Modify(i.key) : i \in A}
  <2>1. F(X) \subseteq F(X \cup Z)
    OBVIOUS
  <2> HIDE DEF F
  <2>2. [Producers -> F(X)] \subseteq [Producers -> F(X \cup Z)]
    BY <2>1
  <2> QED  BY <2>2, Zenon DEF ChangesOf, F
<1>3. w.m \in QueueIn(X \cup Z) /\ w.b \in QueueIn(X \cup Z)
  <2>1. w.m \in QueueIn(X) /\ w.b \in QueueIn(X)
    BY <1>1, WorkInIs
  <2> QED  BY <2>1 DEF QueueIn
<1>4. w \in WorkIn(X \cup Z, ChangesOf(X \cup Z))
  <2> DEFINE C == ChangesOf(X)
             D == ChangesOf(X \cup Z)
  <2>1. w \in WorkIn(X, C) /\ C \subseteq D
    BY <1>1, <1>2
  <2> HIDE DEF C, D
  <2>2. w \in WorkIn(X \cup Z, D)
    BY <1>3, <2>1 DEF WorkIn
  <2> QED  BY <2>2 DEF D
<1> QED  BY <1>1, <1>4

\* So each branch of process_elected_producer resizes the queues as it may ...
LEMMA MoveResizes ==
  ASSUME NEW w, Shaped(w), NEW U, NEW old, NEW new
  PROVE  Shaped(Moved(w, U, old, new)) /\ Resized(w, Moved(w, U, old, new))
<1>1. PICK X : {new, NextInfo(U, w.b.tail)} \subseteq X /\ Refetch \in X /\ w \in WorkIn(X, ChangesOf(X))
  BY ShapeWidens
<1> DEFINE Y == ChangesOf(X)
           v == Moved(w, U, old, new)
<1>2. Recorded(X, Y) /\ w \in WorkIn(X, Y) /\ new \in X /\ NextInfo(U, w.b.tail) \in X
  BY <1>1, ChangesRecorded
<1> HIDE DEF Y
<1>3. v \in WorkIn(X, Y) /\ Resized(w, v)
  <2>1. \/ v = StayInMain(w, old, new) \/ v = FallFromMain(w, new) \/ v = IntoMain(w, U, old, new)
        \/ v = MoveInBackup(w, old, new) \/ v = MoveOutside(w, old, new)
    BY DEF Moved
  <2>2. CASE v = StayInMain(w, old, new)
    BY ONLY <1>2, <2>2, StayResizes
  <2>3. CASE v = FallFromMain(w, new)
    BY ONLY <1>2, <2>3, FallResizes
  <2>4. CASE v = IntoMain(w, U, old, new)
    BY ONLY <1>2, <2>4, IntoResizes
  <2>5. CASE v = MoveInBackup(w, old, new)
    BY ONLY <1>2, <2>5, BackupResizes
  <2>6. CASE v = MoveOutside(w, old, new)
    BY ONLY <1>2, <2>6, OutsideResizes
  <2> QED  BY <2>1, <2>2, <2>3, <2>4, <2>5, <2>6
<1> QED  BY <1>1, <1>3 DEF Shaped, Y

\* ... reading from the index again does not ...
LEMMA RefetchResizes ==
  ASSUME NEW w, Shaped(w), NEW U
  PROVE  /\ Shaped(Refetched(w, U))
         /\ Refetched(w, U).m.count = w.m.count /\ Refetched(w, U).b.count = w.b.count
<1>1. PICK X : /\ {PrevInfo(U, w.m.tail), NextInfo(U, w.m.tail), PrevInfo(U, w.b.tail), NextInfo(U, w.b.tail)} \subseteq X
               /\ Refetch \in X /\ w \in WorkIn(X, ChangesOf(X))
  BY ShapeWidens
<1> DEFINE Y == ChangesOf(X)
           v == Refetched(w, U)
           ok == /\ w.ok /\ RereadFound(w.m, U) /\ RereadFound(w.b, U)
                 /\ ~ IsBad(w.mc) /\ ~ IsBad(w.bc)
<1> HIDE DEF Y
<1>2. w \in WorkIn(X, Y) /\ w.m \in QueueIn(X) /\ w.b \in QueueIn(X)
  BY <1>1, WorkInIs DEF Y
<1>3. ASSUME NEW q \in QueueIn(X), PrevInfo(U, q.tail) \in X, NextInfo(U, q.tail) \in X
      PROVE  Reread(q, U) \in QueueIn(X) /\ Reread(q, U).count = q.count
  <2> DEFINE x == IF q.prev = Refetch THEN PrevInfo(U, q.tail) ELSE q.prev
             y == IF q.next = Refetch THEN NextInfo(U, q.tail) ELSE q.next
  <2>1. Reread(q, U) = [q EXCEPT !.prev = x, !.next = y]
    BY Zenon DEF Reread
  <2>2. x \in X /\ y \in X
    BY <1>3, QueueInIs
  <2> HIDE DEF x, y
  <2> QED  BY <2>1, <2>2 DEF QueueIn
<1>4. /\ Reread(w.m, U) \in QueueIn(X) /\ Reread(w.m, U).count = w.m.count
      /\ Reread(w.b, U) \in QueueIn(X) /\ Reread(w.b, U).count = w.b.count
  BY <1>1, <1>2, <1>3
<1>5. v = [w EXCEPT !.m = Reread(w.m, U), !.b = Reread(w.b, U), !.ok = ok]
  BY Zenon DEF Refetched
<1>6. ok \in BOOLEAN
  BY Zenon
<1> HIDE DEF ok, v
<1>7. v \in WorkIn(X, Y) /\ v.m = Reread(w.m, U) /\ v.b = Reread(w.b, U)
  BY <1>2, <1>4, <1>5, <1>6 DEF WorkIn
<1> QED  BY <1>1, <1>4, <1>7 DEF Shaped, Y, v

\* ... and a refusal neither.
LEMMA RefusedResizes ==
  ASSUME NEW w, Shaped(w)
  PROVE  Shaped([w EXCEPT !.ok = FALSE]) /\ Resized(w, [w EXCEPT !.ok = FALSE])
<1>1. PICK X : Refetch \in X /\ w \in WorkIn(X, ChangesOf(X))
  BY DEF Shaped
<1> DEFINE Y == ChangesOf(X)
           v == [w EXCEPT !.ok = FALSE]
<1> HIDE DEF Y
<1>2. w \in WorkIn(X, Y)
  BY <1>1 DEF Y
<1>3. v \in WorkIn(X, Y) /\ v.m = w.m /\ v.b = w.b
  BY <1>2 DEF WorkIn
<1> HIDE DEF v
<1> QED  BY <1>1, <1>3, Zenon DEF Shaped, Resized, Y, v

\* So process_elected_producer keeps the shape and resizes as it may.
LEMMA ProcessResizes ==
  ASSUME NEW w, Shaped(w), NEW U, NEW old, NEW new
  PROVE  Shaped(Process(w, U, old, new)) /\ Resized(w, Process(w, U, old, new))
<1>1. CASE w.ok /\ Sound(w)
  <2> DEFINE v == Moved(w, U, old, new)
  <2>1. Shaped(v) /\ Resized(w, v)
    BY MoveResizes
  <2> HIDE DEF v
  <2>2. Shaped(Refetched(v, U)) /\ Refetched(v, U).m.count = v.m.count /\ Refetched(v, U).b.count = v.b.count
    BY <2>1, RefetchResizes
  <2>3. Process(w, U, old, new) = Refetched(v, U)
    BY <1>1 DEF Process, v
  <2> QED  BY <2>1, <2>2, <2>3 DEF Resized
<1>2. CASE ~ (w.ok /\ Sound(w))
  <2>1. Process(w, U, old, new) = [w EXCEPT !.ok = FALSE]
    BY <1>2 DEF Process
  <2> QED  BY <2>1, RefusedResizes
<1> QED  BY <1>1, <1>2

\* A work within a transaction; the sizes are kept once the backup elections
\* are enabled.
Sized(w) ==
  /\ Shaped(w)
  /\ version = Enabled => w.m.count = MainCount /\ w.b.count \in MinBackup .. maxBackup

\* update_producer_votes keeps the sizes.
LEMMA OneKeepsSizes ==
  ASSUME NEW st, Sized(st.w), NEW p, NEW d, maxBackup \in Nat
  PROVE  Sized(UpdateOne(st, p, d).w)
<1> DEFINE U == [st.tbl EXCEPT ![p].votes = @ + d]
           w == st.w
           v == Process(w, U, Info(st.tbl, p), Info(U, p))
<1>1. UpdateOne(st, p, d).w = IF ~ VotesAllowed(U[p]) THEN [w EXCEPT !.ok = FALSE]
                              ELSE IF version = Enabled THEN v ELSE w
  BY DEF UpdateOne
<1>2. Shaped(w) /\ (version = Enabled => w.m.count = MainCount /\ w.b.count \in MinBackup .. maxBackup)
  BY DEF Sized
<1>3. Shaped(v) /\ Resized(w, v)
  BY <1>2, ProcessResizes
<1>4. Shaped([w EXCEPT !.ok = FALSE]) /\ Resized(w, [w EXCEPT !.ok = FALSE])
  BY <1>2, RefusedResizes
<1> HIDE DEF v, U
<1>5. ASSUME NEW x, Shaped(x), Resized(w, x)
      PROVE  Sized(x)
  BY <1>2, <1>5, QueueAssumption DEF Sized, Resized, HasRoom, QueueAssumption
<1>6. CASE ~ VotesAllowed(U[p])
  <2>1. UpdateOne(st, p, d).w = [w EXCEPT !.ok = FALSE]
    BY <1>1, <1>6
  <2> QED  BY <1>4, <1>5, <2>1, Zenon
<1>7. CASE VotesAllowed(U[p])
  BY <1>1, <1>3, <1>5, <1>7, Zenon
<1> QED  BY <1>6, <1>7

\* So does update_votes, whatever its list of producers.
LEMMA ListKeepsSizes ==
  ASSUME NEW st, Sized(st.w), NEW L \in SUBSET Producers, NEW d, maxBackup \in Nat
  PROVE  Sized(UpdateVotes(st, L, d).w)
<1>1. PICK g : UpdateVotes(st, L, d) = g[L] /\ g = CHOOSE f : IsUpdated(f, st, d, L)
  BY DEF UpdateVotes, IsUpdated
<1>2. IsUpdated(g, st, d, L)
  BY <1>1, UpdatedExists
<1>3. /\ g[{}] = st
      /\ \A T \in SUBSET L : T # {} => g[T] = UpdateOne(g[T \ {LastName(T)}], LastName(T), d)
  BY <1>2 DEF IsUpdated
<1> DEFINE Wrong == {T \in SUBSET L : ~ Sized(g[T].w)}
<1>4. Wrong = {}
  <2> SUFFICES ASSUME Wrong # {} PROVE FALSE
    OBVIOUS
  <2>1. Wrong \in SUBSET (SUBSET L) /\ IsFiniteSet(L) /\ L \subseteq Nat
    BY QueueAssumption, FS_Subset DEF QueueAssumption
  <2>2. PICK T \in Wrong : \A U \in SUBSET T : U # T => U \notin Wrong
    <3> HIDE DEF Wrong
    <3> QED  BY <2>1, SmallestSubset
  <2>3. T # {}
    BY <1>3
  <2>4. LastName(T) \in T
    <3>1. IsFiniteSet(T) /\ T \subseteq Nat
      BY <2>1, FS_Subset
    <3> QED  BY <2>3, <3>1, LastNameIsIn
  <2>5. Sized(g[T \ {LastName(T)}].w)
    BY <2>2, <2>4
  <2>6. Sized(UpdateOne(g[T \ {LastName(T)}], LastName(T), d).w)
    BY <2>5, OneKeepsSizes, Zenon
  <2>7. T \in SUBSET L /\ ~ Sized(g[T].w)
    OBVIOUS
  <2> QED  BY <1>3, <2>3, <2>6, <2>7, Zenon
<1>5. L \notin Wrong
  BY <1>4
<1> QED  BY <1>1, <1>5

\* The inductive invariant: the sizes of the queues, which are queues.
SizesInv ==
  /\ maxBackup \in Nat /\ maxBackup >= MinBackup /\ version \in {Uninit, Disabled, Enabled}
  /\ \E X : Refetch \in X /\ meq \in QueueIn(X) /\ beq \in QueueIn(X)
  /\ QueueCounts

\* A transaction starts with queues of the stored sizes.
LEMMA WorkIsSized ==
  ASSUME SizesInv
  PROVE  Sized(Work)
<1>1. PICK X : Refetch \in X /\ meq \in QueueIn(X) /\ beq \in QueueIn(X)
  BY DEF SizesInv
<1>2. NoChanges \in ChangesOf(X)
  BY DEF NoChanges, ChangesOf
<1>3. Work \in WorkIn(X, ChangesOf(X)) /\ Work.m = meq /\ Work.b = beq
  BY <1>1, <1>2 DEF Work, WorkIn
<1> QED  BY <1>1, <1>3 DEF SizesInv, Sized, Shaped, QueueCounts, BbpEnabled

\* The queues init_producers_elect_queue builds have their sizes.
LEMMA QueueAtIs ==
  ASSUME NEW T
  PROVE  /\ \E X : Refetch \in X /\ InitialMain(T) \in QueueIn(X) /\ InitialBackup(T) \in QueueIn(X)
         /\ InitialMain(T).count = MainCount /\ InitialBackup(T).count = MinBackup
<1>1. /\ MainCount \in Nat /\ MinBackup \in Nat
      /\ MainCount - 1 + 1 = MainCount
      /\ MainCount + MinBackup - (MainCount + 1) + 1 = MinBackup
  BY QueueAssumption DEF QueueAssumption
<1>2. PICK t, p, n : InitialMain(T) = [count |-> MainCount, tail |-> t, prev |-> p, next |-> n]
  <2>1. InitialMain(T) = [count |-> MainCount, tail |-> InfoAt(T, MainCount),
                          prev |-> InfoAt(T, MainCount - 1), next |-> InfoAt(T, MainCount + 1)]
    BY <1>1, Zenon DEF InitialMain, QueueAt
  <2> QED  BY <2>1, Zenon
<1>3. PICK u, q, o : InitialBackup(T) = [count |-> MinBackup, tail |-> u, prev |-> q, next |-> o]
  <2> DEFINE e == MainCount + MinBackup
  <2>1. InitialBackup(T) = [count |-> e - (MainCount + 1) + 1, tail |-> InfoAt(T, e),
                            prev |-> InfoAt(T, e - 1), next |-> InfoAt(T, e + 1)]
    BY Zenon DEF InitialBackup, QueueAt
  <2>2. e - (MainCount + 1) + 1 = MinBackup
    BY <1>1
  <2> HIDE DEF e
  <2> QED  BY <2>1, <2>2, Zenon
<1> DEFINE X == {Refetch, t, p, n, u, q, o}
<1>4. InitialMain(T) \in QueueIn(X) /\ InitialBackup(T) \in QueueIn(X) /\ Refetch \in X
  BY ONLY <1>1, <1>2, <1>3 DEF QueueIn
<1>5. InitialMain(T).count = MainCount /\ InitialBackup(T).count = MinBackup
  BY ONLY <1>2, <1>3
<1> HIDE DEF X
<1> QED  BY <1>4, <1>5

\* save_producer_changes stores queues of those sizes.
LEMMA SaveKeepsSizes ==
  ASSUME SizesInv, NEW w, Sized(w), NEW T, Save(w, T)
  PROVE  SizesInv'
<1>1. maxBackup' = maxBackup /\ version' = version
  BY DEF Save, config
<1>2. \/ meq' = meq /\ beq' = beq
      \/ meq' = w.m /\ beq' = w.b
      \/ meq' = InitialMain(T) /\ beq' = InitialBackup(T)
  BY DEF Save, Restart, Drop, Emit
<1>3. CASE meq' = meq /\ beq' = beq
  BY <1>1, <1>3 DEF SizesInv, QueueCounts, BbpEnabled
<1>4. CASE meq' = w.m /\ beq' = w.b
  <2>1. \E X : Refetch \in X /\ w.m \in QueueIn(X) /\ w.b \in QueueIn(X)
    BY WorkInIs DEF Sized, Shaped
  <2> QED  BY <1>1, <1>4, <2>1 DEF SizesInv, QueueCounts, BbpEnabled, Sized
<1>5. CASE meq' = InitialMain(T) /\ beq' = InitialBackup(T)
  <2>1. MinBackup \in MinBackup .. maxBackup
    BY QueueAssumption DEF SizesInv, QueueAssumption
  <2> QED  BY <1>1, <1>5, <2>1, QueueAtIs DEF SizesInv, QueueCounts, BbpEnabled
<1> QED  BY <1>2, <1>3, <1>4, <1>5

\* The main queue always has its size, and the backup queue one between the
\* least and the most allowed, whatever producers vote, register, change keys,
\* leave and return, and whatever is configured (voting.cpp:1104-1297).
THEOREM QueuesKeepTheirCounts == Spec => []QueueCounts
<1>1. Init => SizesInv
  <2> SUFFICES ASSUME Init PROVE SizesInv
    OBVIOUS
  <2>1. maxBackup \in Nat /\ maxBackup >= MinBackup
    BY QueueAssumption DEF Init, QueueAssumption
  <2>2. NoQueue \in QueueIn({Refetch, NoInfo})
    BY DEF NoQueue, QueueIn
  <2>3. version \in {Uninit, Disabled, Enabled} /\ ~ BbpEnabled
    BY DEF Init, BbpEnabled, Uninit, Enabled
  <2>4. meq = NoQueue /\ beq = NoQueue
    BY DEF Init
  <2>5. \E X : Refetch \in X /\ meq \in QueueIn(X) /\ beq \in QueueIn(X)
    BY <2>2, <2>4
  <2> QED  BY <2>1, <2>3, <2>5 DEF SizesInv, QueueCounts
<1>2. SizesInv /\ [Next]_vars => SizesInv'
  <2> SUFFICES ASSUME SizesInv, [Next]_vars PROVE SizesInv'
    OBVIOUS
  <2>1. maxBackup \in Nat /\ Sized(Work) /\ Start.w = Work
    BY WorkIsSized DEF SizesInv, Start
  <2>2. CASE Voting
    <3>1. PICK list \in Lists, n \in 1 .. MaxVotes :
            \/ AddVote(list, n) \/ SubVote(list, n) \/ \E new \in Lists : Vote(list, new, n)
      BY <2>2 DEF Voting
    <3>2. list \in SUBSET Producers
      BY DEF Lists
    <3>3. \A d : Sized(UpdateVotes(Start, list, d).w)
      BY <2>1, <3>2, ListKeepsSizes
    <3>4. CASE AddVote(list, n)
      <4>1. PICK st : st = UpdateVotes(Start, list, n) /\ Save(st.w, st.tbl)
        BY <3>4 DEF AddVote
      <4> QED  BY <3>3, <4>1, SaveKeepsSizes
    <3>5. CASE SubVote(list, n)
      <4>1. PICK st : st = UpdateVotes(Start, list, -n) /\ Save(st.w, st.tbl)
        BY <3>5 DEF SubVote
      <4> QED  BY <3>3, <4>1, SaveKeepsSizes
    <3>6. CASE \E new \in Lists : Vote(list, new, n)
      <4>1. PICK new \in Lists : Vote(list, new, n)
        BY <3>6
      <4>2. PICK st : st = UpdateVotes(UpdateVotes(Start, list, -n), new, n) /\ Save(st.w, st.tbl)
        BY <4>1 DEF Vote
      <4>3. new \in SUBSET Producers /\ Sized(UpdateVotes(Start, list, -n).w)
        BY <3>3 DEF Lists
      <4>4. Sized(UpdateVotes(UpdateVotes(Start, list, -n), new, n).w)
        BY <2>1, <4>3, ListKeepsSizes
      <4> QED  BY <4>2, <4>4, SaveKeepsSizes
    <3> QED  BY <3>1, <3>4, <3>5, <3>6
  <2>3. CASE Registering
    <3>1. PICK p \in Producers, k \in Keys : RegisterNew(p, k) \/ Reregister(p, k)
      BY <2>3 DEF Registering
    <3>2. CASE version = Enabled /\ Reregister(p, k)
      <4> DEFINE U == [table EXCEPT ![p] = Row(@.votes, k)]
                 w == Process(Work, U, Info(table, p), Info(U, p))
      <4>1. Save(w, U)
        BY <3>2 DEF Reregister
      <4>2. Shaped(w) /\ Resized(Work, w)
        BY <2>1, ProcessResizes DEF Sized
      <4> HIDE DEF w, U
      <4>3. Sized(w)
        BY <2>1, <4>2, QueueAssumption DEF Sized, Resized, HasRoom, QueueAssumption
      <4> QED  BY <4>1, <4>3, SaveKeepsSizes
    <3>3. CASE ~ (version = Enabled /\ Reregister(p, k))
      <4>1. UNCHANGED <<config, meq, beq>>
        BY <3>1, <3>3 DEF RegisterNew, Reregister
      <4> QED  BY <4>1 DEF config, SizesInv, QueueCounts, BbpEnabled
    <3> QED  BY <3>2, <3>3
  <2>4. CASE \E p \in Producers : Deactivate(p)
    BY <2>4 DEF Deactivate, config, SizesInv, QueueCounts, BbpEnabled
  <2>5. CASE UpgradeVote
    BY <2>5 DEF UpgradeVote, SizesInv, QueueCounts, BbpEnabled, Disabled, Enabled
  <2>6. CASE \E n \in MinVotes : SetMinProducerVotes(n)
    BY <2>6 DEF SetMinProducerVotes, SizesInv, QueueCounts, BbpEnabled
  <2>7. CASE \E max \in MaxBackups : InitBbpElect(max)
    <3>1. PICK max \in MaxBackups : InitBbpElect(max)
      BY <2>7
    <3>2. max \in Nat /\ max >= MinBackup /\ maxBackup' = max /\ version' = Enabled /\ MinBackup \in Nat
      BY <3>1, QueueAssumption DEF InitBbpElect, QueueAssumption
    <3>3. CASE NeedReinit(max)
      <4>1. meq' = InitialMain(table) /\ beq' = InitialBackup(table)
        BY <3>1, <3>3 DEF InitBbpElect
      <4> QED  BY <3>2, <4>1, QueueAtIs DEF SizesInv, QueueCounts, BbpEnabled
    <3>4. CASE ~ NeedReinit(max)
      <4>1. meq' = meq /\ beq' = beq /\ version = Enabled /\ max >= maxBackup
        BY <3>1, <3>2, <3>4 DEF InitBbpElect, NeedReinit, SizesInv, Uninit, Disabled, Enabled
      <4>2. \E X : Refetch \in X /\ meq' \in QueueIn(X) /\ beq' \in QueueIn(X)
        BY <4>1 DEF SizesInv
      <4>3. QueueCounts'
        BY <3>2, <4>1, <2>1 DEF SizesInv, QueueCounts, BbpEnabled
      <4> QED  BY <3>2, <4>2, <4>3 DEF SizesInv
    <3> QED  BY <3>3, <3>4
  <2>8. CASE UNCHANGED vars
    BY <2>8 DEF vars, SizesInv, QueueCounts, BbpEnabled
  <2> QED  BY <2>2, <2>3, <2>4, <2>5, <2>6, <2>7, <2>8 DEF Next, Configuring
<1>3. SizesInv => QueueCounts
  BY DEF SizesInv
<1> QED  BY <1>1, <1>2, <1>3, PTL DEF Spec

-----------------------------------------------------------------------------
(* Producers who register and who change their keys.                       *)

\* The same row, under a key that may be another; a mark is only like itself.
SameInfo(i, j) ==
  /\ i.name = j.name /\ i.votes = j.votes
  /\ i = Refetch <=> j = Refetch
  /\ i = NoInfo <=> j = NoInfo
\* So are the copies of two queues of one size.
SameQueue(q, r) ==
  /\ q.count = r.count
  /\ SameInfo(q.tail, r.tail) /\ SameInfo(q.prev, r.prev) /\ SameInfo(q.next, r.next)
\* The same operations on the same producers, perhaps with other keys.
SameOps(c, d) ==
  /\ DOMAIN c = Producers /\ DOMAIN d = Producers
  /\ \A p \in Producers : c[p].op = d[p].op

\* Ranks do not see the keys.
LEMMA SameRanks ==
  ASSUME NEW a, NEW b, NEW i, NEW j, SameInfo(a, i), SameInfo(b, j)
  PROVE  /\ Above(a, b) <=> Above(i, j)
         /\ AtLeast(a, b) <=> AtLeast(i, j)
         /\ SameRank(a, b) <=> SameRank(i, j)
         /\ \A n : Valid(a, n) <=> Valid(i, n)
BY DEF SameInfo, Above, AtLeast, SameRank, Valid

\* What is equal is the same.
LEMMA SameIsSame ==
  /\ \A i : SameInfo(i, i)
  /\ \A q : SameQueue(q, q)
BY DEF SameInfo, SameQueue

\* Recording a change of the same producer.
LEMMA SameOpsRecorded ==
  ASSUME NEW c, NEW d, SameOps(c, d), NEW i, NEW j, i.name = j.name
  PROVE  /\ SameOps(AddChange(c, i), AddChange(d, j))
         /\ SameOps(DelChange(c, i), DelChange(d, j))
         /\ SameOps(ModifyChange(c, i), ModifyChange(d, j))
<1>1. /\ DOMAIN c = Producers /\ DOMAIN d = Producers
      /\ \A p \in Producers : c[p].op = d[p].op
  BY DEF SameOps
<1>2. \A e, f, k, l : e.op = f.op => /\ Added(e, k).op = Added(f, l).op
                                    /\ Deleted(e).op = Deleted(f).op
                                    /\ Modified(e, k).op = Modified(f, l).op
  BY OpsOfChanges DEF Added, Deleted, Modified
<1>3. /\ DOMAIN AddChange(c, i) = Producers /\ DOMAIN AddChange(d, j) = Producers
      /\ DOMAIN DelChange(c, i) = Producers /\ DOMAIN DelChange(d, j) = Producers
      /\ DOMAIN ModifyChange(c, i) = Producers /\ DOMAIN ModifyChange(d, j) = Producers
  BY <1>1 DEF AddChange, DelChange, ModifyChange
<1>4. ASSUME NEW p \in Producers
      PROVE  /\ AddChange(c, i)[p] = IF p = i.name THEN Added(c[p], i.key) ELSE c[p]
             /\ AddChange(d, j)[p] = IF p = i.name THEN Added(d[p], j.key) ELSE d[p]
             /\ DelChange(c, i)[p] = IF p = i.name THEN Deleted(c[p]) ELSE c[p]
             /\ DelChange(d, j)[p] = IF p = i.name THEN Deleted(d[p]) ELSE d[p]
             /\ ModifyChange(c, i)[p] = IF p = i.name THEN Modified(c[p], i.key) ELSE c[p]
             /\ ModifyChange(d, j)[p] = IF p = i.name THEN Modified(d[p], j.key) ELSE d[p]
  BY <1>1 DEF AddChange, DelChange, ModifyChange
<1> QED  BY <1>1, <1>2, <1>3, <1>4 DEF SameOps

\* Two works that differ in the keys of what the backup queue holds.
Twins(w, x) ==
  /\ w.m = x.m /\ w.mc = x.mc /\ w.ok = x.ok
  /\ SameQueue(w.b, x.b) /\ SameOps(w.bc, x.bc)

\* A producer who stays in the main queue makes twins of twins.
LEMMA StayTwins ==
  ASSUME NEW X, NEW Y, NEW V, NEW Z, NEW w \in WorkIn(X, Y), NEW x \in WorkIn(V, Z), Twins(w, x),
         NEW old, NEW new
  PROVE  Twins(StayInMain(w, old, new), StayInMain(x, old, new))
<1> DEFINE v == StayInMain(w, old, new)
           y == StayInMain(x, old, new)
<1>1. w.m = x.m /\ w.mc = x.mc
  BY DEF Twins
<1>2. v.b = w.b /\ v.bc = w.bc /\ v.ok = w.ok /\ y.b = x.b /\ y.bc = x.bc /\ y.ok = x.ok
  BY DEF StayInMain, WorkIn
<1>3. PICK q, c : v = [w EXCEPT !.m = q, !.mc = c] /\ y = [x EXCEPT !.m = q, !.mc = c]
  BY <1>1, Zenon DEF StayInMain
<1>4. v.m = y.m /\ v.mc = y.mc
  BY <1>3 DEF WorkIn
<1> QED  BY <1>2, <1>4 DEF Twins

\* What each branch makes of a work, field by field.
FallIs(w, new, v) ==
  LET m == w.m
      b == w.b
      c == DelChange(w.bc, w.m.next)
  IN  /\ v.ok = w.ok
      /\ v.mc = AddChange(DelChange(w.mc, new), m.next)
      /\ v.m = [m EXCEPT !.prev = IF new.name # m.tail.name THEN m.tail ELSE @,
                         !.tail = m.next, !.next = Refetch]
      /\ Above(new, b.tail) =>
           /\ v.bc = AddChange(c, new) /\ v.b.count = b.count
           /\ v.b.tail = b.tail /\ v.b.next = b.next
           /\ v.b.prev = IF Above(b.prev, new) THEN new ELSE b.prev
      /\ ~ Above(new, b.tail) /\ Above(new, b.next) /\ Keeps(w, new) =>
           /\ v.bc = AddChange(c, new) /\ v.b.count = b.count
           /\ v.b.tail = new /\ v.b.next = b.next /\ v.b.prev = b.tail
      /\ ~ Above(new, b.tail) /\ Above(new, b.next) /\ ~ Keeps(w, new) =>
           /\ v.bc = c /\ v.b.count = b.count - 1
           /\ v.b.tail = b.tail /\ v.b.next = new /\ v.b.prev = b.prev
      /\ ~ Above(new, b.tail) /\ ~ Above(new, b.next) /\ Keeps(w, b.next) =>
           /\ v.bc = AddChange(c, b.next) /\ v.b.count = b.count
           /\ v.b.tail = b.next /\ v.b.next = Refetch /\ v.b.prev = b.tail
      /\ ~ Above(new, b.tail) /\ ~ Above(new, b.next) /\ ~ Keeps(w, b.next) =>
           /\ v.bc = c /\ v.b.count = b.count - 1
           /\ v.b.tail = b.tail /\ v.b.next = b.next /\ v.b.prev = b.prev

\* What a fall from the main queue writes is of that form.
LEMMA FallForm ==
  ASSUME NEW X, NEW Y, NEW w \in WorkIn(X, Y), NEW new
  PROVE  FallIs(w, new, FallFromMain(w, new))
<1>1. w \in WorkIn(X, Y) /\ w.m \in QueueIn(X) /\ w.b \in QueueIn(X)
  BY WorkInIs
<1> QED  BY ONLY <1>1, ZenonT(60) DEF FallIs, FallFromMain, WorkIn, QueueIn

\* It makes twins of twins.
LEMMA FallTwins ==
  ASSUME NEW X, NEW Y, NEW V, NEW Z, NEW w \in WorkIn(X, Y), NEW x \in WorkIn(V, Z),
         Twins(w, x), NEW new
  PROVE  Twins(FallFromMain(w, new), FallFromMain(x, new))
<1>0. PICK v, y, c, d : /\ v = FallFromMain(w, new) /\ y = FallFromMain(x, new)
                        /\ c = DelChange(w.bc, w.m.next) /\ d = DelChange(x.bc, x.m.next)
  OBVIOUS
<1>f. FallIs(w, new, v) /\ FallIs(x, new, y)
  BY <1>0, FallForm
<1>1. /\ w.m = x.m /\ w.mc = x.mc /\ w.ok = x.ok /\ w.b.count = x.b.count
      /\ SameInfo(w.b.tail, x.b.tail) /\ SameInfo(w.b.prev, x.b.prev) /\ SameInfo(w.b.next, x.b.next)
      /\ SameInfo(new, new) /\ SameInfo(Refetch, Refetch)
  BY SameIsSame DEF Twins, SameQueue
<1>2. /\ Above(new, w.b.tail) <=> Above(new, x.b.tail)
      /\ Above(new, w.b.next) <=> Above(new, x.b.next)
      /\ Above(w.b.prev, new) <=> Above(x.b.prev, new)
      /\ Keeps(w, new) <=> Keeps(x, new)
      /\ Keeps(w, w.b.next) <=> Keeps(x, x.b.next)
  BY ONLY <1>1, SameRanks DEF Keeps
<1>3. SameOps(w.bc, x.bc) /\ w.b.next.name = x.b.next.name
  BY <1>1 DEF Twins, SameInfo
<1>4. SameOps(c, d)
  BY <1>0, <1>1, <1>3, SameOpsRecorded
<1>5. SameOps(AddChange(c, new), AddChange(d, new)) /\ SameOps(AddChange(c, w.b.next), AddChange(d, x.b.next))
  BY <1>3, <1>4, SameOpsRecorded
<1>6. v.m = y.m /\ v.mc = y.mc /\ v.ok = y.ok
  BY <1>f, <1>1 DEF FallIs
<1>7. Twins(v, y)
  BY ONLY <1>0, <1>f, <1>1, <1>2, <1>4, <1>5, <1>6 DEF FallIs, Twins, SameQueue
<1> QED  BY <1>0, <1>7

\* What a move into the main queue makes of a work,
IntoIs(w, U, old, new, v) ==
  LET m == w.m
      b == w.b
      c == AddChange(w.bc, m.tail)
      wasNext == SameRank(old, b.next)
      next == IF HasRoom(w) /\ wasNext THEN NextInfo(U, b.tail) ELSE b.next
      nextOk == HasRoom(w) /\ wasNext =>
                  PositionFound(U, b.tail) /\ (next # NoInfo => Above(b.tail, next))
      popTail == ~ HasRoom(w) \/ next = NoInfo
  IN  /\ v.mc = AddChange(DelChange(w.mc, m.tail), new)
      /\ v.m = [m EXCEPT !.next = m.tail,
                         !.tail = IF Above(new, m.prev) THEN m.prev ELSE new,
                         !.prev = IF Above(new, m.prev) THEN Refetch ELSE @]
      /\ AtLeast(old, b.tail) =>
           /\ v.ok = w.ok /\ v.bc = DelChange(c, new) /\ v.b.count = b.count /\ v.b.next = b.next
           /\ v.b.tail = IF SameRank(old, b.tail) THEN b.prev ELSE b.tail
           /\ v.b.prev = IF SameRank(old, b.prev) \/ SameRank(old, b.tail) THEN Refetch ELSE b.prev
      /\ ~ AtLeast(old, b.tail) /\ popTail =>
           /\ v.ok = (w.ok /\ nextOk) /\ v.bc = DelChange(c, b.tail) /\ v.b.count = b.count
           /\ v.b.next = b.tail /\ v.b.tail = b.prev /\ v.b.prev = Refetch
      /\ ~ AtLeast(old, b.tail) /\ ~ popTail =>
           /\ v.ok = (w.ok /\ nextOk) /\ v.bc = c /\ v.b.count = b.count + 1
           /\ v.b.next = next /\ v.b.tail = b.tail /\ v.b.prev = b.prev

\* as the branch writes it.
LEMMA IntoForm ==
  ASSUME NEW X, NEW Y, NEW w \in WorkIn(X, Y), NEW U, NEW old, NEW new
  PROVE  IntoIs(w, U, old, new, IntoMain(w, U, old, new))
<1>1. w \in WorkIn(X, Y) /\ w.m \in QueueIn(X) /\ w.b \in QueueIn(X)
  BY WorkInIs
<1> QED  BY ONLY <1>1, ZenonT(60) DEF IntoIs, IntoMain, WorkIn, QueueIn

\* What a move within the backup queue makes of a work,
BackupIs(w, old, new, v) ==
  LET m == w.m
      b == w.b
      wasTail == SameRank(old, b.tail)
      wasPrev == SameRank(old, b.prev)
      wasMainNext == SameRank(old, m.next)
      keyed == IF new.key # old.key THEN ModifyChange(w.bc, new) ELSE w.bc
  IN  /\ v.ok = w.ok /\ v.mc = w.mc
      /\ AtLeast(new, m.next) =>
           /\ v.m = [m EXCEPT !.next = new]
           /\ v.bc = keyed /\ v.b.count = b.count /\ v.b.next = b.next
           /\ v.b.tail = IF wasTail THEN b.prev ELSE b.tail
           /\ v.b.prev = IF wasTail \/ wasPrev THEN Refetch ELSE b.prev
      /\ ~ AtLeast(new, m.next) /\ AtLeast(new, b.prev) =>
           LET still == wasMainNext \/ (wasPrev /\ SameRank(new, b.prev)) IN
           /\ v.m = [m EXCEPT !.next = IF wasMainNext THEN Refetch ELSE @]
           /\ v.bc = keyed /\ v.b.count = b.count /\ v.b.next = b.next
           /\ v.b.tail = IF ~ still /\ wasTail THEN b.prev ELSE b.tail
           /\ v.b.prev = IF ~ still /\ (wasTail \/ wasPrev) THEN Refetch ELSE b.prev
      /\ ~ AtLeast(new, m.next) /\ ~ AtLeast(new, b.prev) /\ AtLeast(new, b.tail) =>
           /\ v.m = [m EXCEPT !.next = IF ~ wasTail /\ wasMainNext THEN Refetch ELSE @]
           /\ v.bc = keyed /\ v.b.count = b.count /\ v.b.next = b.next
           /\ v.b.tail = IF wasTail THEN new ELSE b.tail
           /\ v.b.prev = IF wasTail THEN b.prev ELSE new
      /\ ~ AtLeast(new, m.next) /\ ~ AtLeast(new, b.prev) /\ ~ AtLeast(new, b.tail) =>
           /\ Above(new, b.next) /\ Keeps(w, new) =>
                /\ v.m = [m EXCEPT !.next = IF ~ wasTail /\ wasMainNext THEN Refetch ELSE @]
                /\ v.bc = keyed /\ v.b.count = b.count /\ v.b.next = b.next
                /\ v.b.tail = new /\ v.b.prev = IF wasTail THEN b.prev ELSE b.tail
           /\ ~ Above(new, b.next) /\ Keeps(w, b.next) =>
                /\ v.m = [m EXCEPT !.next = IF wasMainNext THEN Refetch ELSE @]
                /\ v.bc = AddChange(DelChange(w.bc, new), b.next) /\ v.b.count = b.count
                /\ v.b.next = Refetch
                /\ v.b.tail = b.next /\ v.b.prev = IF wasTail THEN b.prev ELSE b.tail
           /\ ~ (Above(new, b.next) /\ Keeps(w, new)) /\ ~ (~ Above(new, b.next) /\ Keeps(w, b.next)) =>
                /\ v.m = [m EXCEPT !.next = IF ~ wasTail /\ ~ wasPrev /\ wasMainNext THEN Refetch ELSE @]
                /\ v.bc = DelChange(w.bc, new) /\ v.b.count = b.count - 1
                /\ v.b.next = IF Above(new, b.next) THEN new ELSE b.next
                /\ v.b.tail = IF wasTail THEN b.prev ELSE b.tail
                /\ v.b.prev = IF wasTail \/ wasPrev THEN Refetch ELSE b.prev

\* as the branch writes it.
LEMMA BackupForm ==
  ASSUME NEW X, NEW Y, NEW w \in WorkIn(X, Y), NEW old, NEW new
  PROVE  BackupIs(w, old, new, MoveInBackup(w, old, new))
<1>1. w \in WorkIn(X, Y) /\ w.m \in QueueIn(X) /\ w.b \in QueueIn(X)
  BY WorkInIs
<1> QED  BY ONLY <1>1, ZenonT(60) DEF BackupIs, MoveInBackup, LeavePlace, WorkIn, QueueIn

\* What a move of one from below makes of a work,
OutsideIs(w, old, new, v) ==
  LET m == w.m
      b == w.b
      c == AddChange(w.bc, new)
      wasNext == SameRank(old, b.next)
      grows(i) == HasRoom(w) /\ ~ wasNext /\ Valid(i, minVotes)
      first == IF Above(new, m.next) THEN new ELSE m.next
  IN  /\ v.mc = w.mc
      /\ AtLeast(new, b.tail) =>
           /\ v.ok = (w.ok /\ ~ SameRank(new, b.tail))
           /\ v.m = [m EXCEPT !.next = IF Above(b.prev, new) THEN @ ELSE first]
           /\ grows(b.tail) =>
                /\ v.bc = c /\ v.b.count = b.count + 1 /\ v.b.next = b.next /\ v.b.tail = b.tail
                /\ v.b.prev = IF Above(b.prev, new) THEN new ELSE b.prev
           /\ ~ grows(b.tail) =>
                /\ v.bc = DelChange(c, b.tail) /\ v.b.count = b.count /\ v.b.next = b.tail
                /\ v.b.tail = IF Above(b.prev, new) THEN new ELSE b.prev
                /\ v.b.prev = IF Above(b.prev, new) THEN b.prev ELSE Refetch
      /\ ~ AtLeast(new, b.tail) =>
           /\ v.ok = w.ok /\ v.m = m
           /\ AtLeast(new, b.next) /\ grows(new) =>
                /\ v.bc = c /\ v.b.count = b.count + 1 /\ v.b.next = b.next
                /\ v.b.tail = new /\ v.b.prev = b.tail
           /\ ~ AtLeast(new, b.next) /\ grows(b.next) =>
                /\ v.bc = AddChange(w.bc, b.next) /\ v.b.count = b.count + 1 /\ v.b.next = Refetch
                /\ v.b.tail = b.next /\ v.b.prev = b.tail
           /\ ~ (AtLeast(new, b.next) /\ grows(new)) /\ ~ (~ AtLeast(new, b.next) /\ grows(b.next)) =>
                /\ v.bc = w.bc /\ v.b.count = b.count /\ v.b.tail = b.tail /\ v.b.prev = b.prev
                /\ v.b.next = IF AtLeast(new, b.next) THEN new ELSE IF wasNext THEN Refetch ELSE b.next

\* as the branch writes it.
LEMMA OutsideForm ==
  ASSUME NEW X, NEW Y, NEW w \in WorkIn(X, Y), NEW old, NEW new
  PROVE  OutsideIs(w, old, new, MoveOutside(w, old, new))
<1>1. w \in WorkIn(X, Y) /\ w.m \in QueueIn(X) /\ w.b \in QueueIn(X)
  BY WorkInIs
<1> QED  BY ONLY <1>1, ZenonT(60) DEF OutsideIs, MoveOutside, WorkIn, QueueIn

\* What twins agree on.
LEMMA TwinsAgree ==
  ASSUME NEW w, NEW x, Twins(w, x)
  PROVE  /\ w.m = x.m /\ w.mc = x.mc /\ w.ok = x.ok /\ w.b.count = x.b.count
         /\ SameInfo(w.b.tail, x.b.tail) /\ SameInfo(w.b.prev, x.b.prev) /\ SameInfo(w.b.next, x.b.next)
         /\ SameOps(w.bc, x.bc)
         /\ HasRoom(w) <=> HasRoom(x)
         /\ \A i, j : SameInfo(i, j) => (Keeps(w, i) <=> Keeps(x, j))
  BY SameRanks DEF Twins, SameQueue, HasRoom, Keeps

\* Neighbours in the index do not depend on the key of a copy.
LEMMA SameNeighbours ==
  ASSUME NEW U, NEW i, NEW j, SameInfo(i, j)
  PROVE  /\ PrevInfo(U, i) = PrevInfo(U, j) /\ NextInfo(U, i) = NextInfo(U, j)
         /\ PositionFound(U, i) <=> PositionFound(U, j)
<1>1. i.name = j.name /\ i.votes = j.votes
  BY DEF SameInfo
<1>2. PrevInfo(U, i) = PrevInfo(U, j) /\ NextInfo(U, i) = NextInfo(U, j)
  BY <1>1 DEF PrevInfo, NextInfo
<1> QED  BY <1>1, <1>2 DEF PositionFound, Above

\* A move into the main queue makes twins of twins,
LEMMA IntoTwins ==
  ASSUME NEW X, NEW Y, NEW V, NEW Z, NEW w \in WorkIn(X, Y), NEW x \in WorkIn(V, Z),
         Twins(w, x), NEW U, NEW old, NEW new
  PROVE  Twins(IntoMain(w, U, old, new), IntoMain(x, U, old, new))
<1>0. PICK v, y, c, d : /\ v = IntoMain(w, U, old, new) /\ y = IntoMain(x, U, old, new)
                        /\ c = AddChange(w.bc, w.m.tail) /\ d = AddChange(x.bc, x.m.tail)
  OBVIOUS
<1>1. IntoIs(w, U, old, new, v) /\ IntoIs(x, U, old, new, y)
  BY <1>0, IntoForm
<1>2. /\ w.m = x.m /\ w.mc = x.mc /\ w.ok = x.ok /\ w.b.count = x.b.count
      /\ SameInfo(w.b.tail, x.b.tail) /\ SameInfo(w.b.prev, x.b.prev) /\ SameInfo(w.b.next, x.b.next)
      /\ HasRoom(w) <=> HasRoom(x)
  BY TwinsAgree
<1>i. SameInfo(new, new) /\ SameInfo(old, old) /\ SameInfo(Refetch, Refetch)
  BY SameIsSame
<1>3. /\ AtLeast(old, w.b.tail) <=> AtLeast(old, x.b.tail)
      /\ SameRank(old, w.b.tail) <=> SameRank(old, x.b.tail)
      /\ SameRank(old, w.b.prev) <=> SameRank(old, x.b.prev)
      /\ SameRank(old, w.b.next) <=> SameRank(old, x.b.next)
  BY ONLY <1>2, <1>i, SameRanks
<1>4. PICK e, f : /\ e = IF HasRoom(w) /\ SameRank(old, w.b.next) THEN NextInfo(U, w.b.tail) ELSE w.b.next
                  /\ f = IF HasRoom(x) /\ SameRank(old, x.b.next) THEN NextInfo(U, x.b.tail) ELSE x.b.next
  OBVIOUS
<1>5. SameInfo(e, f)
  BY <1>2, <1>3, <1>4, SameNeighbours, SameIsSame
<1>6. /\ e = NoInfo <=> f = NoInfo
      /\ Above(w.b.tail, e) <=> Above(x.b.tail, f)
      /\ PositionFound(U, w.b.tail) <=> PositionFound(U, x.b.tail)
  BY <1>2, <1>5, SameRanks, SameNeighbours DEF SameInfo
<1>7. SameOps(c, d)
  BY <1>0, <1>2, TwinsAgree, SameOpsRecorded
<1>8. SameOps(DelChange(c, new), DelChange(d, new)) /\ SameOps(DelChange(c, w.b.tail), DelChange(d, x.b.tail))
  BY <1>2, <1>7, SameOpsRecorded DEF SameInfo
<1>9. Twins(v, y)
  BY ONLY <1>0, <1>1, <1>2, <1>i, <1>3, <1>4, <1>5, <1>6, <1>7, <1>8, SMTT(60) DEF IntoIs, Twins, SameQueue
<1> QED  BY <1>0, <1>9

\* one within the backup queue,
LEMMA BackupTwins ==
  ASSUME NEW X, NEW Y, NEW V, NEW Z, NEW w \in WorkIn(X, Y), NEW x \in WorkIn(V, Z),
         Twins(w, x), NEW old, NEW new
  PROVE  Twins(MoveInBackup(w, old, new), MoveInBackup(x, old, new))
<1>0. PICK v, y : v = MoveInBackup(w, old, new) /\ y = MoveInBackup(x, old, new)
  OBVIOUS
<1>1. BackupIs(w, old, new, v) /\ BackupIs(x, old, new, y)
  BY <1>0, BackupForm
<1>2. /\ w.m = x.m /\ w.mc = x.mc /\ w.ok = x.ok /\ w.b.count = x.b.count
      /\ SameInfo(w.b.tail, x.b.tail) /\ SameInfo(w.b.prev, x.b.prev) /\ SameInfo(w.b.next, x.b.next)
  BY TwinsAgree
<1>i. SameInfo(new, new) /\ SameInfo(old, old) /\ SameInfo(Refetch, Refetch)
  BY SameIsSame
<1>3. /\ AtLeast(new, w.b.prev) <=> AtLeast(new, x.b.prev)
      /\ AtLeast(new, w.b.tail) <=> AtLeast(new, x.b.tail)
      /\ Above(new, w.b.next) <=> Above(new, x.b.next)
      /\ SameRank(old, w.b.tail) <=> SameRank(old, x.b.tail)
      /\ SameRank(old, w.b.prev) <=> SameRank(old, x.b.prev)
      /\ SameRank(new, w.b.prev) <=> SameRank(new, x.b.prev)
  BY ONLY <1>2, <1>i, SameRanks
<1>4. /\ Keeps(w, new) <=> Keeps(x, new)
      /\ Keeps(w, w.b.next) <=> Keeps(x, x.b.next)
  BY <1>2, <1>i, TwinsAgree
<1>5. /\ SameOps(w.bc, x.bc) /\ SameOps(ModifyChange(w.bc, new), ModifyChange(x.bc, new))
      /\ SameOps(DelChange(w.bc, new), DelChange(x.bc, new))
  BY TwinsAgree, SameOpsRecorded
<1>6. SameOps(AddChange(DelChange(w.bc, new), w.b.next), AddChange(DelChange(x.bc, new), x.b.next))
  BY <1>2, <1>5, SameOpsRecorded DEF SameInfo
<1>7. Twins(v, y)
  BY ONLY <1>0, <1>1, <1>2, <1>i, <1>3, <1>4, <1>5, <1>6 DEF BackupIs, Twins, SameQueue
<1> QED  BY <1>0, <1>7

\* and one of a producer from below.
LEMMA OutsideTwins ==
  ASSUME NEW X, NEW Y, NEW V, NEW Z, NEW w \in WorkIn(X, Y), NEW x \in WorkIn(V, Z),
         Twins(w, x), NEW old, NEW new
  PROVE  Twins(MoveOutside(w, old, new), MoveOutside(x, old, new))
<1>0. PICK v, y : v = MoveOutside(w, old, new) /\ y = MoveOutside(x, old, new)
  OBVIOUS
<1>1. OutsideIs(w, old, new, v) /\ OutsideIs(x, old, new, y)
  BY <1>0, OutsideForm
<1>2. /\ w.m = x.m /\ w.mc = x.mc /\ w.ok = x.ok /\ w.b.count = x.b.count
      /\ SameInfo(w.b.tail, x.b.tail) /\ SameInfo(w.b.prev, x.b.prev) /\ SameInfo(w.b.next, x.b.next)
      /\ HasRoom(w) <=> HasRoom(x)
  BY TwinsAgree
<1>i. SameInfo(new, new) /\ SameInfo(old, old) /\ SameInfo(Refetch, Refetch)
  BY SameIsSame
<1>3. /\ AtLeast(new, w.b.tail) <=> AtLeast(new, x.b.tail)
      /\ AtLeast(new, w.b.next) <=> AtLeast(new, x.b.next)
      /\ Above(w.b.prev, new) <=> Above(x.b.prev, new)
      /\ SameRank(old, w.b.next) <=> SameRank(old, x.b.next)
      /\ SameRank(new, w.b.tail) <=> SameRank(new, x.b.tail)
      /\ Valid(w.b.tail, minVotes) <=> Valid(x.b.tail, minVotes)
      /\ Valid(w.b.next, minVotes) <=> Valid(x.b.next, minVotes)
  BY ONLY <1>2, <1>i, SameRanks
<1>5. /\ SameOps(w.bc, x.bc) /\ SameOps(AddChange(w.bc, new), AddChange(x.bc, new))
      /\ SameOps(AddChange(w.bc, w.b.next), AddChange(x.bc, x.b.next))
  BY <1>2, TwinsAgree, SameOpsRecorded DEF SameInfo
<1>6. SameOps(DelChange(AddChange(w.bc, new), w.b.tail), DelChange(AddChange(x.bc, new), x.b.tail))
  BY <1>2, <1>5, SameOpsRecorded DEF SameInfo
<1>7. Twins(v, y)
  BY ONLY <1>0, <1>1, <1>2, <1>i, <1>3, <1>5, <1>6 DEF OutsideIs, Twins, SameQueue
<1> QED  BY <1>0, <1>7

\* Every branch leaves twins,
LEMMA MovedTwins ==
  ASSUME NEW X, NEW Y, NEW V, NEW Z, NEW w \in WorkIn(X, Y), NEW x \in WorkIn(V, Z),
         Twins(w, x), NEW U, NEW old, NEW new
  PROVE  Twins(Moved(w, U, old, new), Moved(x, U, old, new))
<1>1. w.m = x.m /\ (AtLeast(old, w.b.tail) <=> AtLeast(old, x.b.tail))
  <2>1. w.m = x.m /\ SameInfo(w.b.tail, x.b.tail) /\ SameInfo(old, old)
    BY SameIsSame DEF Twins, SameQueue
  <2> QED  BY ONLY <2>1, SameRanks
<1>2. /\ Twins(StayInMain(w, old, new), StayInMain(x, old, new))
      /\ Twins(FallFromMain(w, new), FallFromMain(x, new))
      /\ Twins(IntoMain(w, U, old, new), IntoMain(x, U, old, new))
      /\ Twins(MoveInBackup(w, old, new), MoveInBackup(x, old, new))
      /\ Twins(MoveOutside(w, old, new), MoveOutside(x, old, new))
  BY StayTwins, FallTwins, IntoTwins, BackupTwins, OutsideTwins
<1> QED  BY ONLY <1>1, <1>2, Zenon DEF Moved

\* and so does reading copies from the index again.
LEMMA RefetchedTwins ==
  ASSUME NEW X, NEW Y, NEW V, NEW Z, NEW w \in WorkIn(X, Y), NEW x \in WorkIn(V, Z), Twins(w, x), NEW U
  PROVE  Twins(Refetched(w, U), Refetched(x, U))
<1>1. /\ w.m = x.m /\ w.mc = x.mc /\ w.ok = x.ok /\ w.b.count = x.b.count
      /\ SameInfo(w.b.tail, x.b.tail) /\ SameInfo(w.b.prev, x.b.prev) /\ SameInfo(w.b.next, x.b.next)
      /\ SameOps(w.bc, x.bc)
  BY TwinsAgree
<1>2. /\ PrevInfo(U, w.b.tail) = PrevInfo(U, x.b.tail) /\ NextInfo(U, w.b.tail) = NextInfo(U, x.b.tail)
      /\ PositionFound(U, w.b.tail) <=> PositionFound(U, x.b.tail)
  BY <1>1, SameNeighbours
<1>3. /\ w.b.prev = Refetch <=> x.b.prev = Refetch
      /\ w.b.next = Refetch <=> x.b.next = Refetch
  BY <1>1 DEF SameInfo
<1>4. \A i : /\ PrevFound(U, w.b.tail, i) <=> PrevFound(U, x.b.tail, i)
             /\ NextFound(U, w.b.tail, i) <=> NextFound(U, x.b.tail, i)
  BY <1>1, <1>2, SameRanks, SameIsSame DEF PrevFound, NextFound
<1>5. RereadFound(w.b, U) <=> RereadFound(x.b, U)
  BY ONLY <1>2, <1>3, <1>4 DEF RereadFound
<1>6. IsBad(w.bc) <=> IsBad(x.bc)
  BY <1>1 DEF SameOps, IsBad
<1>7. w.b \in QueueIn(X) /\ x.b \in QueueIn(V)
  BY WorkInIs
<1>8. SameQueue(Reread(w.b, U), Reread(x.b, U))
  BY ONLY <1>1, <1>2, <1>3, <1>7, SameIsSame DEF Reread, QueueIn, SameQueue
<1>9. PICK v, y : v = Refetched(w, U) /\ y = Refetched(x, U)
  OBVIOUS
<1>10. /\ v.m = Reread(w.m, U) /\ v.b = Reread(w.b, U) /\ v.mc = w.mc /\ v.bc = w.bc
       /\ v.ok = (w.ok /\ RereadFound(w.m, U) /\ RereadFound(w.b, U) /\ ~ IsBad(w.mc) /\ ~ IsBad(w.bc))
  BY ONLY <1>9, w \in WorkIn(X, Y) DEF Refetched, WorkIn
<1>11. /\ y.m = Reread(x.m, U) /\ y.b = Reread(x.b, U) /\ y.mc = x.mc /\ y.bc = x.bc
       /\ y.ok = (x.ok /\ RereadFound(x.m, U) /\ RereadFound(x.b, U) /\ ~ IsBad(x.mc) /\ ~ IsBad(x.bc))
  BY ONLY <1>9, x \in WorkIn(V, Z) DEF Refetched, WorkIn
<1>12. v.ok = y.ok
  BY ONLY <1>1, <1>5, <1>6, <1>10, <1>11
<1>13. Twins(v, y)
  BY ONLY <1>1, <1>8, <1>10, <1>11, <1>12 DEF Twins
<1> QED  BY <1>9, <1>13

\* So twins stay twins through process_elected_producer.
LEMMA ProcessTwins ==
  ASSUME NEW w, NEW x, Shaped(w), Shaped(x), Twins(w, x), NEW U, NEW old, NEW new
  PROVE  Twins(Process(w, U, old, new), Process(x, U, old, new))
<1>1. PICK X : w \in WorkIn(X, ChangesOf(X))
  BY DEF Shaped
<1>2. PICK V : x \in WorkIn(V, ChangesOf(V))
  BY DEF Shaped
<1>3. /\ w.m = x.m /\ w.mc = x.mc /\ w.ok = x.ok /\ w.b.count = x.b.count
      /\ SameInfo(w.b.tail, x.b.tail) /\ SameInfo(w.b.prev, x.b.prev) /\ SameInfo(w.b.next, x.b.next)
      /\ SameQueue(w.b, x.b) /\ SameOps(w.bc, x.bc)
  BY TwinsAgree DEF Twins
<1>4. Above(w.m.next, w.b.prev) <=> Above(x.m.next, x.b.prev)
  <2>1. SameInfo(w.m.next, x.m.next)
    BY <1>3, SameIsSame
  <2> QED  BY <1>3, <2>1, SameRanks
<1>5. Sound(w) <=> Sound(x)
  BY <1>3, <1>4 DEF Sound, SameInfo
<1>6. CASE w.ok /\ Sound(w)
  <2> DEFINE v == Moved(w, U, old, new)
             y == Moved(x, U, old, new)
  <2>1. Twins(v, y)
    BY <1>1, <1>2, MovedTwins
  <2>2. Shaped(v) /\ Shaped(y)
    BY MoveResizes
  <2> HIDE DEF v, y
  <2>3. Twins(Refetched(v, U), Refetched(y, U))
    BY <2>1, <2>2, RefetchedTwins DEF Shaped
  <2> QED  BY <1>3, <1>5, <1>6, <2>3 DEF Process, v, y
<1>7. CASE ~ (w.ok /\ Sound(w))
  <2>1. Process(w, U, old, new) = [w EXCEPT !.ok = FALSE] /\ Process(x, U, old, new) = [x EXCEPT !.ok = FALSE]
    BY <1>3, <1>5, <1>7 DEF Process
  <2>2. Twins([w EXCEPT !.ok = FALSE], [x EXCEPT !.ok = FALSE])
    BY ONLY <1>1, <1>2, <1>3 DEF Twins, WorkIn
  <2> QED  BY <2>1, <2>2
<1> QED  BY <1>6, <1>7

\* A transaction on the way to where one with right keys is under way.
Near(st, K, SM, SB) ==
  /\ Shaped(st.w)
  /\ \E x : Shaped(x) /\ Twins(st.w, x) /\ UnderWay([tbl |-> st.tbl, w |-> x], K, SM, SB)

\* One producer of a list keeps it there ...
LEMMA OneKeepsNear ==
  ASSUME NEW st, NEW p \in Producers, NEW d \in Int, NEW K, NEW SM, NEW SB,
         Near(st, K, SM, SB), maxBackup \in Nat
  PROVE  Near(UpdateOne(st, p, d), K, SM, SB)
<1>1. PICK x : Shaped(x) /\ Twins(st.w, x) /\ UnderWay([tbl |-> st.tbl, w |-> x], K, SM, SB)
  BY DEF Near
<1> DEFINE w == st.w
           tw == [tbl |-> st.tbl, w |-> x]
           U == Voted(st.tbl, p, d)
           o == Info(st.tbl, p)
           n == Info(U, p)
           v == UpdateOne(st, p, d).w
           y == UpdateOne(tw, p, d).w
<1>2. Shaped(w) /\ Shaped(x) /\ Twins(w, x)
  BY <1>1 DEF Near
<1>3. UpdateOne(st, p, d) =
        [tbl |-> U, w |-> IF ~ VotesAllowed(U[p]) THEN [w EXCEPT !.ok = FALSE]
                          ELSE IF version = Enabled THEN Process(w, U, o, n) ELSE w]
  BY DEF UpdateOne, Voted
<1>4. UpdateOne(tw, p, d) =
        [tbl |-> U, w |-> IF ~ VotesAllowed(U[p]) THEN [x EXCEPT !.ok = FALSE]
                          ELSE IF version = Enabled THEN Process(x, U, o, n) ELSE x]
  BY DEF UpdateOne, Voted
<1>5. UnderWay(UpdateOne(tw, p, d), K, SM, SB)
  BY <1>1, OneKeepsUnderWay
<1> HIDE DEF w, tw, U, o, n
<1>6. Twins(Process(w, U, o, n), Process(x, U, o, n)) /\ Shaped(Process(w, U, o, n)) /\ Shaped(Process(x, U, o, n))
  BY <1>2, ProcessTwins, ProcessResizes
<1>7. /\ Twins([w EXCEPT !.ok = FALSE], [x EXCEPT !.ok = FALSE])
      /\ Shaped([w EXCEPT !.ok = FALSE]) /\ Shaped([x EXCEPT !.ok = FALSE])
  <2>1. PICK X, V : w \in WorkIn(X, ChangesOf(X)) /\ x \in WorkIn(V, ChangesOf(V))
    BY <1>2 DEF Shaped
  <2>2. /\ w.m = x.m /\ w.mc = x.mc /\ SameQueue(w.b, x.b) /\ SameOps(w.bc, x.bc)
    BY <1>2 DEF Twins
  <2>3. Twins([w EXCEPT !.ok = FALSE], [x EXCEPT !.ok = FALSE])
    BY ONLY <2>1, <2>2 DEF Twins, WorkIn
  <2> QED  BY <1>2, <2>3, RefusedResizes
<1>8. UpdateOne(st, p, d).tbl = U /\ UpdateOne(tw, p, d).tbl = U
  BY <1>3, <1>4
<1>9. Shaped(v) /\ Shaped(y) /\ Twins(v, y)
  <2>1. CASE ~ VotesAllowed(U[p])
    <3>1. v = [w EXCEPT !.ok = FALSE] /\ y = [x EXCEPT !.ok = FALSE]
      BY <1>3, <1>4, <2>1
    <3> QED  BY <1>7, <3>1, Zenon
  <2>2. CASE VotesAllowed(U[p]) /\ version = Enabled
    <3>1. v = Process(w, U, o, n) /\ y = Process(x, U, o, n)
      BY <1>3, <1>4, <2>2
    <3> QED  BY <1>6, <3>1, Zenon
  <2>3. CASE VotesAllowed(U[p]) /\ version # Enabled
    <3>1. v = w /\ y = x
      BY <1>3, <1>4, <2>3
    <3> QED  BY <1>2, <3>1, Zenon
  <2> QED  BY <2>1, <2>2, <2>3
<1>10. UpdateOne(tw, p, d) = [tbl |-> U, w |-> y]
  BY <1>4
<1> HIDE DEF v, y
<1>11. UnderWay([tbl |-> UpdateOne(st, p, d).tbl, w |-> y], K, SM, SB)
  BY <1>5, <1>8, <1>10
<1> QED  BY <1>9, <1>11 DEF Near, v

\* ... and so does the whole list.
LEMMA ListKeepsNear ==
  ASSUME NEW st, NEW L \in SUBSET Producers, NEW d \in Int, NEW K, NEW SM, NEW SB,
         Near(st, K, SM, SB), maxBackup \in Nat
  PROVE  Near(UpdateVotes(st, L, d), K, SM, SB)
<1>1. PICK g : UpdateVotes(st, L, d) = g[L] /\ g = CHOOSE f : IsUpdated(f, st, d, L)
  BY DEF UpdateVotes, IsUpdated
<1>2. IsUpdated(g, st, d, L)
  BY <1>1, UpdatedExists
<1>3. /\ g[{}] = st
      /\ \A T \in SUBSET L : T # {} => g[T] = UpdateOne(g[T \ {LastName(T)}], LastName(T), d)
  BY <1>2 DEF IsUpdated
<1> DEFINE Wrong == {T \in SUBSET L : ~ Near(g[T], K, SM, SB)}
<1>4. Wrong = {}
  <2> SUFFICES ASSUME Wrong # {} PROVE FALSE
    OBVIOUS
  <2>1. Wrong \in SUBSET (SUBSET L) /\ IsFiniteSet(L) /\ L \subseteq Nat
    BY QueueAssumption, FS_Subset DEF QueueAssumption
  <2>2. PICK T \in Wrong : \A U \in SUBSET T : U # T => U \notin Wrong
    <3> HIDE DEF Wrong
    <3> QED  BY <2>1, SmallestSubset
  <2>3. T # {}
    BY <1>3
  <2>4. LastName(T) \in T
    <3>1. IsFiniteSet(T) /\ T \subseteq Nat
      BY <2>1, FS_Subset
    <3> QED  BY <2>3, <3>1, LastNameIsIn
  <2>5. Near(g[T \ {LastName(T)}], K, SM, SB)
    BY <2>2, <2>4
  <2>6. LastName(T) \in Producers
    BY <2>4
  <2>7. Near(UpdateOne(g[T \ {LastName(T)}], LastName(T), d), K, SM, SB)
    BY <2>5, <2>6, OneKeepsNear, Zenon
  <2>8. T \in SUBSET L /\ ~ Near(g[T], K, SM, SB)
    OBVIOUS
  <2> QED  BY <1>3, <2>3, <2>7, <2>8, Zenon
<1>5. L \notin Wrong
  BY <1>4
<1> QED  BY <1>1, <1>5

-----------------------------------------------------------------------------
(* What the changes make of the schedule.                                  *)

\* Who is scheduled once changes are applied.
LEMMA ApplyLeaves ==
  ASSUME NEW c, NEW k, NEW R \in SUBSET Producers,
         \A q \in Producers : q \in R <=> \/ c[q].op \in {"add", "modify"}
                                          \/ c[q].op = "none" /\ q \in DOMAIN k
  PROVE  Apply(k, c) = [p \in R |-> IF c[p].op = "none" THEN k[p] ELSE c[p].key]
<1>1. {q \in Producers : \/ c[q].op \in {"add", "modify"}
                         \/ c[q].op = "none" /\ q \in DOMAIN k} = R
  OBVIOUS
<1>2. Apply(k, c) = [p \in R |-> IF c[p].op = "none" THEN k[p] ELSE c[p].key]
  BY <1>1 DEF Apply
<1> QED  BY <1>2

\* Whether changes fit, and who they leave, does not depend on the keys.
LEMMA SameOpsFit ==
  ASSUME NEW c, NEW d, SameOps(c, d), NEW k, NEW l, DOMAIN k = DOMAIN l, NEW n
  PROVE  /\ FitsIn(k, c, n) <=> FitsIn(l, d, n)
         /\ DOMAIN Apply(k, c) = DOMAIN Apply(l, d)
<1>1. \A p \in Producers : c[p].op = d[p].op
  BY DEF SameOps
<1>2. /\ {p \in Producers : c[p].op = "add"} = {p \in Producers : d[p].op = "add"}
      /\ {p \in Producers : c[p].op = "del"} = {p \in Producers : d[p].op = "del"}
      /\ {p \in Producers : c[p].op = "modify"} = {p \in Producers : d[p].op = "modify"}
  BY <1>1
<1>3. FitsIn(k, c, n) <=> FitsIn(l, d, n)
  BY ONLY <1>2, DOMAIN k = DOMAIN l, Zenon DEF FitsIn
<1>4. DOMAIN Apply(k, c) = DOMAIN Apply(l, d)
  <2>1. PICK R \in SUBSET Producers :
          \A q \in Producers : q \in R <=> \/ c[q].op \in {"add", "modify"}
                                           \/ c[q].op = "none" /\ q \in DOMAIN k
    <3>1. \A q \in Producers :
            q \in {r \in Producers : \/ c[r].op \in {"add", "modify"}
                                     \/ c[r].op = "none" /\ r \in DOMAIN k}
            <=> \/ c[q].op \in {"add", "modify"}
                \/ c[q].op = "none" /\ q \in DOMAIN k
      OBVIOUS
    <3> QED  BY <3>1
  <2>2. \A q \in Producers : q \in R <=> \/ d[q].op \in {"add", "modify"}
                                         \/ d[q].op = "none" /\ q \in DOMAIN l
    BY <1>1, <2>1
  <2>3. Apply(k, c) = [p \in R |-> IF c[p].op = "none" THEN k[p] ELSE c[p].key]
    BY ONLY <2>1, ApplyLeaves, Zenon
  <2>4. Apply(l, d) = [p \in R |-> IF d[p].op = "none" THEN l[p] ELSE d[p].key]
    BY ONLY <2>1, <2>2, ApplyLeaves, Zenon
  <2> QED  BY <2>3, <2>4
<1> QED  BY <1>3, <1>4

\* So changes like those that turn S into R turn a schedule of S into one of R.
LEMMA TurnedFit ==
  ASSUME NEW d, NEW K \in [Producers -> Keys \cup {NoKey}],
         NEW S \in SUBSET Producers, NEW R \in SUBSET Producers, Turns(d, K, S, R),
         NEW c, SameOps(c, d), NEW k, DOMAIN k = S
  PROVE  /\ FitsIn(k, c, Cardinality(R)) /\ DOMAIN Apply(k, c) = R /\ ~ IsBad(c)
         /\ IsEmpty(c) => S = R
<1>1. PICK l : l = [p \in S |-> K[p]]
  OBVIOUS
<1>2. FitsIn(l, d, Cardinality(R)) /\ Apply(l, d) = [p \in R |-> K[p]] /\ ~ IsBad(d)
  <2>1. /\ ~ IsBad(d) /\ FitsIn([p \in S |-> K[p]], d, Cardinality(R))
        /\ Apply([p \in S |-> K[p]], d) = [p \in R |-> K[p]]
    BY ONLY TurnsFit, K \in [Producers -> Keys \cup {NoKey}], S \in SUBSET Producers,
            R \in SUBSET Producers, Turns(d, K, S, R), Zenon
  <2> QED  BY <1>1, <2>1, Zenon
<1>3. DOMAIN k = DOMAIN l /\ DOMAIN Apply(l, d) = R
  BY <1>1, <1>2
<1>4. FitsIn(k, c, Cardinality(R)) /\ DOMAIN Apply(k, c) = R
  BY <1>2, <1>3, SameOpsFit
<1>5. ~ IsBad(c)
  BY <1>2 DEF SameOps, IsBad
<1>6. ASSUME IsEmpty(c) PROVE S = R
  <2>1. \A p \in Producers : c[p].op = "none"
    BY <1>6, OpsOfChanges DEF IsEmpty, NoChanges
  <2>2. \A q \in Producers : q \in S <=> \/ c[q].op \in {"add", "modify"}
                                         \/ c[q].op = "none" /\ q \in DOMAIN k
    BY <2>1
  <2>3. Apply(k, c) = [p \in S |-> IF c[p].op = "none" THEN k[p] ELSE c[p].key]
    BY ONLY S \in SUBSET Producers, <2>2, ApplyLeaves, Zenon
  <2> QED  BY <1>4, <2>3
<1> QED  BY <1>4, <1>5, <1>6

\* A new key of a member.
LEMMA KeyFits ==
  ASSUME NEW k, NEW n, n.name \in DOMAIN k, DOMAIN k \in SUBSET Producers, IsFiniteSet(DOMAIN k),
         NEW c, c = ModifyChange(NoChanges, n)
  PROVE  /\ ~ IsEmpty(c) /\ ~ IsBad(c)
         /\ FitsIn(k, c, Cardinality(DOMAIN k))
         /\ Apply(k, c) = [p \in DOMAIN k |-> IF p = n.name THEN n.key ELSE k[p]]
<1>1. /\ DOMAIN c = Producers /\ n.name \in Producers
      /\ \A p \in Producers : c[p] = IF p = n.name THEN Modify(n.key) ELSE None
  BY OpsOfChanges DEF ModifyChange, Modified, NoChanges
<1>2. /\ \A p \in Producers : c[p].op = IF p = n.name THEN "modify" ELSE "none"
      /\ c[n.name].key = n.key
  BY <1>1, OpsOfChanges
<1>3. ~ IsEmpty(c) /\ ~ IsBad(c)
  <2>1. \A p \in Producers : NoChanges[p].op = "none"
    BY OpsOfChanges DEF NoChanges
  <2> QED  BY <1>1, <1>2, <2>1 DEF IsEmpty, IsBad
<1>4. /\ {p \in Producers : c[p].op = "add"} = {} /\ {p \in Producers : c[p].op = "del"} = {}
      /\ {p \in Producers : c[p].op = "modify"} = {n.name}
  BY <1>1, <1>2
<1>5. FitsIn(k, c, Cardinality(DOMAIN k))
  <2>1. (DOMAIN k \cup {}) \ {} = DOMAIN k
    OBVIOUS
  <2> QED  BY <1>4, <2>1 DEF FitsIn
<1>6. Apply(k, c) = [p \in DOMAIN k |-> IF p = n.name THEN n.key ELSE k[p]]
  <2>0. \A q \in Producers : q \in DOMAIN k <=> \/ c[q].op \in {"add", "modify"}
                                                \/ c[q].op = "none" /\ q \in DOMAIN k
    BY <1>2
  <2>1. Apply(k, c) = [p \in DOMAIN k |-> IF c[p].op = "none" THEN k[p] ELSE c[p].key]
    BY ONLY DOMAIN k \in SUBSET Producers, <2>0, ApplyLeaves, Zenon
  <2>2. \A p \in DOMAIN k : (IF c[p].op = "none" THEN k[p] ELSE c[p].key) = IF p = n.name THEN n.key ELSE k[p]
    BY <1>2
  <2> QED  BY <2>1, <2>2
<1> QED  BY <1>3, <1>5, <1>6

-----------------------------------------------------------------------------
(* Between transactions, when keys change.                                 *)

\* The schedule s has the members of the queues m and b, the main ones under
\* the keys of their rows.
Heads(s, T, m, b) ==
  /\ s.fit
  /\ s.main = [p \in Top(T, m.tail) |-> T[p].key]
  /\ DOMAIN s.backup = Top(T, b.tail) \ Top(T, m.tail)

\* Nobody is in both.
LEMMA HeadsAreApart ==
  ASSUME NEW s, NEW T, NEW m, NEW b, Heads(s, T, m, b)
  PROVE  s.fit /\ DOMAIN s.main \cap DOMAIN s.backup = {}
BY DEF Heads

\* The members do not depend on the key of the tail's copy.
LEMMA SameTop ==
  ASSUME NEW T, NEW i, NEW j, i.name = j.name, i.votes = j.votes
  PROVE  Top(T, i) = Top(T, j)
BY DEF Top, AtLeast, Above, SameRank

\* The inductive invariant: the queues are right up to the keys of the copies
\* the backup queue holds, and the schedule has their members.
RegistrationInv ==
  /\ Settled(table) /\ \A p \in Rows(table) : table[p].votes >= 0
  /\ version \in {Uninit, Disabled, Enabled}
  /\ minVotes \in Nat \ {0} /\ maxBackup \in Nat /\ maxBackup >= MinBackup
  /\ interrupted \in BOOLEAN
  /\ sched.fit /\ DOMAIN sched.main \cap DOMAIN sched.backup = {}
  /\ \E X : Refetch \in X /\ meq \in QueueIn(X) /\ beq \in QueueIn(X)
  /\ version = Enabled =>
       \E b : /\ SameQueue(beq, b) /\ QueuesFit(table, meq, b, maxBackup)
              /\ ~ interrupted => Heads(sched, table, meq, b)

\* The members of two queues are those of their twins.
LEMMA SameMembers ==
  ASSUME NEW b, SameQueue(beq, b)
  PROVE  Backups = Top(table, b.tail) \ Top(table, meq.tail)
<1>1. Top(table, beq.tail) = Top(table, b.tail)
  BY SameTop DEF SameQueue, SameInfo
<1> QED  BY <1>1 DEF Backups, Mains

\* A transaction that begins with right queues.
LEMMA WorkFitsAtFirst ==
  ASSUME NEW T, NEW m, NEW b, QueuesFit(T, m, b, maxBackup), NEW K,
         NEW x, x = [m |-> m, b |-> b, mc |-> NoChanges, bc |-> NoChanges, ok |-> TRUE]
  PROVE  /\ Shaped(x) /\ Placed(T, x)
         /\ Fitting(T, x, K, Top(T, m.tail), Top(T, b.tail) \ Top(T, m.tail))
<1>1. /\ m \in QueueType /\ b \in QueueType
      /\ PlacedQueue(T, m) /\ PlacedQueue(T, b)
      /\ m.count = MainCount /\ b.count \in MinBackup .. maxBackup
      /\ Cardinality(Top(T, m.tail)) = MainCount
      /\ Cardinality(Top(T, b.tail)) = MainCount + b.count
  BY DEF QueuesFit
<1>2. NoChanges \in Entries /\ NoChanges \in ChangesOf(InfoType)
  BY WorkIs DEF NoChanges, ChangesOf
<1>3. x \in WorkType /\ Placed(T, x)
  BY <1>1, <1>2 DEF WorkType, Placed
<1>4. Shaped(x)
  <2>1. m \in QueueIn(InfoType) /\ b \in QueueIn(InfoType)
    BY <1>1 DEF QueueType, QueueIn
  <2>2. x \in WorkIn(InfoType, ChangesOf(InfoType))
    BY <1>2, <2>1 DEF WorkIn
  <2> QED  BY <2>2, RefetchIsInfo DEF Shaped
<1>5. PatchedQueue(T, m) /\ PatchedQueue(T, b)
  BY <1>1 DEF PlacedQueue, PatchedQueue, FromAbove, FromBelow, NextTo
<1>6. \A S : Turns(NoChanges, K, S, S)
  BY NothingTurns
<1>7. Fitting(T, x, K, Top(T, m.tail), Top(T, b.tail) \ Top(T, m.tail))
  BY <1>1, <1>3, <1>5, <1>6 DEF Fitting
<1> QED  BY <1>3, <1>4, <1>7

\* It is the twin of the one that begins with the queues as they are stored.
LEMMA WorkTwin ==
  ASSUME NEW b, SameQueue(beq, b),
         NEW x, x = [m |-> meq, b |-> b, mc |-> NoChanges, bc |-> NoChanges, ok |-> TRUE]
  PROVE  Twins(Work, x)
BY DEF Twins, Work, SameOps, NoChanges

\* The queues as they are stored can be recorded.
LEMMA WorkIsShaped ==
  ASSUME RegistrationInv
  PROVE  Shaped(Work)
<1>1. PICK X : Refetch \in X /\ meq \in QueueIn(X) /\ beq \in QueueIn(X)
  BY DEF RegistrationInv
<1>2. NoChanges \in ChangesOf(X)
  BY DEF NoChanges, ChangesOf
<1>3. Work \in WorkIn(X, ChangesOf(X))
  BY <1>1, <1>2 DEF Work, WorkIn
<1> QED  BY <1>1, <1>3 DEF Shaped

\* A transaction starts near one under way.
LEMMA StartNear ==
  ASSUME RegistrationInv
  PROVE  Near(Start, KeysOf(table), Mains, Backups)
<1>1. Start.tbl = table /\ Start.w = Work
  BY DEF Start
<1>2. /\ Settled(table) /\ Under(table, KeysOf(table)) /\ (\A p \in Rows(table) : table[p].votes >= 0)
      /\ Shaped(Work) /\ maxBackup \in Nat
  BY KeysUnder, WorkIsShaped DEF RegistrationInv
<1>3. CASE version # Enabled
  <2>1. Twins(Work, Work)
    BY DEF Twins, Work, SameIsSame, SameOps, SameQueue, SameInfo, NoChanges
  <2>2. UnderWay([tbl |-> table, w |-> Work], KeysOf(table), Mains, Backups)
    BY <1>2, <1>3, WorkIs DEF UnderWay
  <2> QED  BY <1>1, <1>2, <2>1, <2>2 DEF Near
<1>4. CASE version = Enabled
  <2>1. PICK b : SameQueue(beq, b) /\ QueuesFit(table, meq, b, maxBackup)
    BY <1>4 DEF RegistrationInv
  <2>2. PICK x : x = [m |-> meq, b |-> b, mc |-> NoChanges, bc |-> NoChanges, ok |-> TRUE]
    OBVIOUS
  <2>3. /\ Twins(Work, x) /\ Shaped(x)
        /\ Fitting(table, x, KeysOf(table), Mains, Backups) /\ Placed(table, x)
    <3>1. /\ Shaped(x) /\ Placed(table, x)
          /\ Fitting(table, x, KeysOf(table), Top(table, meq.tail), Top(table, b.tail) \ Top(table, meq.tail))
      BY <2>1, <2>2, WorkFitsAtFirst
    <3> QED  BY <2>1, <2>2, <3>1, WorkTwin, SameMembers DEF Mains
  <2>4. "ok" \in DOMAIN x /\ x.ok \in BOOLEAN
    BY <2>2
  <2>5. UnderWay([tbl |-> table, w |-> x], KeysOf(table), Mains, Backups)
    BY <1>2, <1>4, <2>3, <2>4 DEF UnderWay
  <2> QED  BY <1>1, <1>2, <2>3, <2>5 DEF Near
<1> QED  BY <1>3, <1>4

\* What a vote comes to.
LEMMA VotesNear ==
  ASSUME RegistrationInv, Voting
  PROVE  \E st : /\ Near(st, KeysOf(table), Mains, Backups)
                 /\ st.w.ok /\ Save(st.w, st.tbl)
<1>1. Near(Start, KeysOf(table), Mains, Backups) /\ maxBackup \in Nat
  BY StartNear DEF RegistrationInv
<1>2. PICK list \in Lists, n \in 1 .. MaxVotes :
        \/ AddVote(list, n) \/ SubVote(list, n) \/ \E new \in Lists : Vote(list, new, n)
  BY DEF Voting
<1>3. list \in SUBSET Producers /\ n \in Int /\ -n \in Int
  BY QueueAssumption DEF Lists, QueueAssumption
<1>4. Near(UpdateVotes(Start, list, n), KeysOf(table), Mains, Backups)
  BY <1>1, <1>3, ListKeepsNear
<1>5. Near(UpdateVotes(Start, list, -n), KeysOf(table), Mains, Backups)
  BY <1>1, <1>3, ListKeepsNear
<1>6. CASE AddVote(list, n)
  BY <1>4, <1>6 DEF AddVote
<1>7. CASE SubVote(list, n)
  BY <1>5, <1>7 DEF SubVote
<1>8. ASSUME NEW new \in Lists, Vote(list, new, n)
      PROVE  \E st : /\ Near(st, KeysOf(table), Mains, Backups)
                     /\ st.w.ok /\ Save(st.w, st.tbl)
  <2>1. new \in SUBSET Producers
    BY DEF Lists
  <2>2. Near(UpdateVotes(UpdateVotes(Start, list, -n), new, n), KeysOf(table), Mains, Backups)
    BY <1>1, <1>3, <1>5, <2>1, ListKeepsNear
  <2> QED  BY <1>8, <2>2 DEF Vote
<1> QED  BY <1>2, <1>6, <1>7, <1>8

\* The changes of a vote lead to a schedule of the new queues' members.
LEMMA AppliedHeads ==
  ASSUME NEW T, Settled(T), NEW w, NEW x, NEW K, NEW s, NEW SM \in SUBSET Producers, NEW SB \in SUBSET Producers,
         Under(T, K), maxBackup \in Nat, Fitting(T, x, K, SM, SB), Placed(T, x), Twins(w, x),
         s.fit, s.main = [p \in SM |-> K[p]], DOMAIN s.backup = SB
  PROVE  /\ Heads(AppliedTo(s, w), T, x.m, x.b)
         /\ IsEmpty(w.mc) /\ IsEmpty(w.bc) => Heads(s, T, x.m, x.b)
<1> DEFINE M == Top(T, x.m.tail)
           B == Top(T, x.b.tail) \ M
<1>1. QueuesFit(T, x.m, x.b, maxBackup)
  BY WorkFits
<1>2. /\ M \in SUBSET Producers /\ B \in SUBSET Producers /\ M \subseteq Rows(T) /\ B \subseteq Rows(T)
      /\ Cardinality(M) = x.m.count /\ Cardinality(B) = x.b.count
  BY <1>1, TopsNest, RowsAreFinite DEF QueuesFit
<1>3. K \in [Producers -> Keys \cup {NoKey}] /\ \A c \in Rows(T) : T[c].key = K[c]
  BY DEF Under
<1>k. K \in [Producers -> Keys \cup {NoKey}]
  BY <1>3
<1>m. M \in SUBSET Producers /\ B \in SUBSET Producers
  BY <1>2
<1>4. Turns(x.mc, K, SM, M) /\ Turns(x.bc, K, SB, B)
  BY DEF Fitting
<1>t. w.m = x.m /\ w.mc = x.mc /\ w.b.count = x.b.count /\ SameOps(w.bc, x.bc)
  BY DEF Twins, SameQueue
<1> HIDE DEF M, B
<1>5. /\ FitsIn(s.main, w.mc, Cardinality(M))
      /\ Apply(s.main, w.mc) = [p \in M |-> K[p]]
      /\ IsEmpty(w.mc) => SM = M
  <2>1. PICK c : c = w.mc
    OBVIOUS
  <2>2. Turns(c, K, SM, M)
    BY <1>4, <1>t, <2>1
  <2>3. /\ FitsIn([p \in SM |-> K[p]], c, Cardinality(M))
        /\ Apply([p \in SM |-> K[p]], c) = [p \in M |-> K[p]]
        /\ IsEmpty(c) => SM = M
    BY ONLY <1>k, <1>m, <2>2, TurnsFit, SM \in SUBSET Producers, SB \in SUBSET Producers, Zenon
  <2> QED  BY <2>1, <2>3
<1>6. /\ FitsIn(s.backup, w.bc, Cardinality(B)) /\ DOMAIN Apply(s.backup, w.bc) = B
      /\ IsEmpty(w.bc) => SB = B
  <2>1. PICK c, k : c = w.bc /\ k = s.backup
    OBVIOUS
  <2>2. Turns(x.bc, K, SB, B) /\ SameOps(c, x.bc) /\ DOMAIN k = SB
    BY <1>4, <1>t, <2>1
  <2>3. /\ FitsIn(k, c, Cardinality(B)) /\ DOMAIN Apply(k, c) = B /\ ~ IsBad(c)
        /\ IsEmpty(c) => SB = B
    BY ONLY <1>k, <1>m, <2>2, TurnedFit, SB \in SUBSET Producers
  <2> QED  BY <2>1, <2>3
<1>7. [p \in M |-> K[p]] = [p \in M |-> T[p].key]
  BY <1>2, <1>3
<1>8. /\ AppliedTo(s, w).main = [p \in M |-> T[p].key]
      /\ DOMAIN AppliedTo(s, w).backup = B
      /\ AppliedTo(s, w).fit
  BY <1>2, <1>5, <1>6, <1>7, <1>t DEF AppliedTo
<1>9. ASSUME IsEmpty(w.mc), IsEmpty(w.bc)
      PROVE  s.main = [p \in M |-> T[p].key] /\ DOMAIN s.backup = B
  BY <1>5, <1>6, <1>7, <1>9
<1> QED  BY <1>8, <1>9 DEF Heads, M, B

\* What a saved work leaves behind.
LEMMA SaveKeepsHeads ==
  ASSUME RegistrationInv, NEW w, NEW T, NEW b, Settled(T), Shaped(w), Save(w, T),
         version # Enabled => IsEmpty(w.mc) /\ IsEmpty(w.bc),
         version = Enabled =>
           /\ SameQueue(w.b, b) /\ QueuesFit(T, w.m, b, maxBackup)
           /\ ~ interrupted => /\ Heads(AppliedTo(sched, w), T, w.m, b)
                               /\ IsEmpty(w.mc) /\ IsEmpty(w.bc) => Heads(sched, T, w.m, b)
  PROVE  /\ interrupted' \in BOOLEAN
         /\ sched'.fit /\ DOMAIN sched'.main \cap DOMAIN sched'.backup = {}
         /\ \E X : Refetch \in X /\ meq' \in QueueIn(X) /\ beq' \in QueueIn(X)
         /\ version = Enabled =>
              \E c : /\ SameQueue(beq', c) /\ QueuesFit(T, meq', c, maxBackup)
                     /\ ~ interrupted' => Heads(sched', T, meq', c)
<1>1. /\ maxBackup \in Nat /\ maxBackup >= MinBackup /\ MinBackup \in Nat
      /\ interrupted \in BOOLEAN /\ sched.fit /\ DOMAIN sched.main \cap DOMAIN sched.backup = {}
      /\ version \in {Uninit, Disabled, Enabled} /\ Uninit # Enabled
      /\ \E X : Refetch \in X /\ meq \in QueueIn(X) /\ beq \in QueueIn(X)
  BY QueueAssumption DEF RegistrationInv, QueueAssumption, Uninit, Enabled
<1>2. \E X : Refetch \in X /\ w.m \in QueueIn(X) /\ w.b \in QueueIn(X)
  BY WorkInIs DEF Shaped
<1>3. CASE version = Uninit
  <2>1. meq' = meq /\ beq' = beq /\ interrupted' = interrupted /\ sched' = sched
    BY <1>3 DEF Save
  <2> QED  BY <1>1, <1>3, <2>1
<1>4. CASE version # Uninit /\ Restart(w, T)
  <2>1. /\ CanReinit(T) /\ meq' = InitialMain(T) /\ beq' = InitialBackup(T)
        /\ sched' = InitialSchedule(T) /\ interrupted' = FALSE
    BY <1>4 DEF Restart
  <2>2. QueuesFit(T, meq', beq', MinBackup) /\ Follows(sched', T, meq', beq')
    BY <2>1, ReinitFits
  <2>3. QueuesFit(T, meq', beq', maxBackup)
    BY <1>1, <2>2 DEF QueuesFit
  <2>4. Heads(sched', T, meq', beq')
    BY <2>2 DEF Follows, Heads
  <2>5. SameQueue(beq', beq')
    BY SameIsSame
  <2>6. \E X : Refetch \in X /\ meq' \in QueueIn(X) /\ beq' \in QueueIn(X)
    BY <2>1, QueueAtIs
  <2>7. sched'.fit /\ DOMAIN sched'.main \cap DOMAIN sched'.backup = {}
    BY <2>4, HeadsAreApart
  <2>8. \E c : /\ SameQueue(beq', c) /\ QueuesFit(T, meq', c, maxBackup)
               /\ ~ interrupted' => Heads(sched', T, meq', c)
    BY <2>3, <2>4, <2>5
  <2> QED  BY <2>1, <2>6, <2>7, <2>8
<1>5. CASE version # Uninit /\ Drop(w, T)
  <2>1. meq' = w.m /\ beq' = w.b /\ sched' = NoSchedule /\ interrupted' = TRUE
    BY <1>5 DEF Drop
  <2>2. sched'.fit /\ DOMAIN sched'.main \cap DOMAIN sched'.backup = {}
    BY <2>1 DEF NoSchedule
  <2>3. \E X : Refetch \in X /\ meq' \in QueueIn(X) /\ beq' \in QueueIn(X)
    BY <1>2, <2>1
  <2> QED  BY <2>1, <2>2, <2>3
<1>6. CASE version # Uninit /\ Emit(w)
  <2>1. /\ ~ interrupted /\ meq' = w.m /\ beq' = w.b /\ interrupted' = interrupted
        /\ sched' = IF IsEmpty(w.mc) /\ IsEmpty(w.bc) THEN sched ELSE AppliedTo(sched, w)
    BY <1>6 DEF Emit
  <2>2. \E X : Refetch \in X /\ meq' \in QueueIn(X) /\ beq' \in QueueIn(X)
    BY <1>2, <2>1
  <2>3. CASE version # Enabled
    <3>1. sched' = sched
      BY <2>1, <2>3
    <3> QED  BY <1>1, <2>1, <2>2, <2>3, <3>1
  <2>4. CASE version = Enabled
    <3>1. Heads(sched', T, meq', b)
      BY <2>1, <2>4
    <3>2. sched'.fit /\ DOMAIN sched'.main \cap DOMAIN sched'.backup = {}
      BY <3>1, HeadsAreApart
    <3>3. SameQueue(beq', b) /\ QueuesFit(T, meq', b, maxBackup)
      BY <2>1, <2>4
    <3> QED  BY <1>1, <2>1, <2>2, <3>1, <3>2, <3>3
  <2> QED  BY <2>3, <2>4
<1>7. version = Uninit \/ Restart(w, T) \/ Drop(w, T) \/ Emit(w)
  BY DEF Save
<1> QED  BY <1>3, <1>4, <1>5, <1>6, <1>7

\* A vote keeps the invariant.
LEMMA VoteKeepsHeads ==
  ASSUME RegistrationInv, Voting
  PROVE  RegistrationInv'
<1>1. PICK st : Near(st, KeysOf(table), Mains, Backups) /\ st.w.ok /\ Save(st.w, st.tbl)
  BY VotesNear
<1>2. PICK T, w : T = st.tbl /\ w = st.w
  OBVIOUS
<1>3. PICK x : /\ Shaped(w) /\ Shaped(x) /\ Twins(w, x)
               /\ UnderWay([tbl |-> T, w |-> x], KeysOf(table), Mains, Backups)
  BY <1>1, <1>2 DEF Near
<1>4. /\ Save(w, T) /\ x.ok /\ w.m = x.m /\ w.mc = x.mc /\ SameQueue(w.b, x.b) /\ SameOps(w.bc, x.bc)
  BY <1>1, <1>2, <1>3 DEF Twins
<1>5. /\ Settled(T) /\ Under(T, KeysOf(table)) /\ \A p \in Rows(T) : T[p].votes >= 0
      /\ IF version = Enabled
         THEN Fitting(T, x, KeysOf(table), Mains, Backups) /\ Placed(T, x)
         ELSE x.mc = NoChanges /\ x.bc = NoChanges
  BY <1>3, <1>4 DEF UnderWay
<1>6. ASSUME version # Enabled PROVE IsEmpty(w.mc) /\ IsEmpty(w.bc)
  <2>1. x.bc = NoChanges /\ w.mc = NoChanges
    BY <1>4, <1>5, <1>6
  <2>2. DOMAIN w.bc = Producers /\ \A p \in Producers : w.bc[p].op = "none"
    BY <1>4, <2>1, OpsOfChanges DEF SameOps, NoChanges
  <2>3. PICK X : w.bc \in ChangesOf(X)
    BY <1>3, WorkInIs DEF Shaped
  <2>4. \A p \in Producers : w.bc[p] = None
    BY <2>2, <2>3, OpsOfChanges DEF ChangesOf
  <2>5. w.bc = NoChanges
    BY <2>2, <2>3, <2>4 DEF NoChanges, ChangesOf
  <2> QED  BY <2>1, <2>5 DEF IsEmpty
<1>7. ASSUME version = Enabled
      PROVE  /\ SameQueue(w.b, x.b) /\ QueuesFit(T, w.m, x.b, maxBackup)
             /\ ~ interrupted => /\ Heads(AppliedTo(sched, w), T, w.m, x.b)
                                 /\ IsEmpty(w.mc) /\ IsEmpty(w.bc) => Heads(sched, T, w.m, x.b)
  <2>1. Fitting(T, x, KeysOf(table), Mains, Backups) /\ Placed(T, x)
    BY <1>5, <1>7
  <2>2. QueuesFit(T, w.m, x.b, maxBackup)
    BY <1>4, <2>1, WorkFits
  <2>3. ASSUME ~ interrupted
        PROVE  /\ Heads(AppliedTo(sched, w), T, w.m, x.b)
               /\ IsEmpty(w.mc) /\ IsEmpty(w.bc) => Heads(sched, T, w.m, x.b)
    <3>1. PICK b : SameQueue(beq, b) /\ Heads(sched, table, meq, b)
      BY <1>7, <2>3 DEF RegistrationInv
    <3>2. Mains \in SUBSET Producers /\ Backups \in SUBSET Producers
      BY TopIsFinite DEF Mains, Backups
    <3>3. [p \in Mains |-> table[p].key] = [p \in Mains |-> KeysOf(table)[p]]
      BY <3>2 DEF KeysOf
    <3>4. Top(table, beq.tail) = Top(table, b.tail)
      BY <3>1, SameTop DEF SameQueue, SameInfo
    <3>5. sched.fit /\ sched.main = [p \in Mains |-> KeysOf(table)[p]] /\ DOMAIN sched.backup = Backups
      BY <3>1, <3>3, <3>4 DEF Heads, Mains, Backups
    <3>6. maxBackup \in Nat
      BY DEF RegistrationInv
    <3> QED  BY <1>3, <1>4, <1>5, <2>1, <3>2, <3>5, <3>6, AppliedHeads
  <2> QED  BY <1>4, <2>2, <2>3
<1>8. /\ interrupted' \in BOOLEAN
      /\ sched'.fit /\ DOMAIN sched'.main \cap DOMAIN sched'.backup = {}
      /\ \E X : Refetch \in X /\ meq' \in QueueIn(X) /\ beq' \in QueueIn(X)
      /\ version = Enabled =>
           \E c : /\ SameQueue(beq', c) /\ QueuesFit(T, meq', c, maxBackup)
                  /\ ~ interrupted' => Heads(sched', T, meq', c)
  BY <1>3, <1>4, <1>5, <1>6, <1>7, SaveKeepsHeads
<1>9. table' = T /\ version' = version /\ maxBackup' = maxBackup /\ minVotes' = minVotes
  BY <1>4 DEF Save, config
<1> QED  BY <1>5, <1>8, <1>9 DEF RegistrationInv

-----------------------------------------------------------------------------
(* A producer registers behind the queues.                                 *)

\* U has one more row, p.
Joins(T, U, p) ==
  /\ Settled(T) /\ Settled(U) /\ Rows(U) = Rows(T) \cup {p} /\ p \notin Rows(T)
  /\ \A c \in Rows(T) : U[c] = T[c] /\ Info(U, c) = Info(T, c)

\* A new row.
LEMMA RegisteredJoins ==
  ASSUME NEW T, Settled(T), NEW p \in Producers, ~ T[p].registered, NEW k \in Keys
  PROVE  LET U == [T EXCEPT ![p] = Row(0, k)] IN
         Joins(T, U, p) /\ Info(U, p).name = p /\ Info(U, p).votes = 0 /\ U[p].votes = 0
<1> DEFINE U == [T EXCEPT ![p] = Row(0, k)]
<1>1. /\ Row(0, k) \in RowType /\ Row(0, k).registered /\ Row(0, k).active /\ Row(0, k).votes = 0
  BY DEF Row, RowType
<1>2. /\ U \in [Producers -> RowType] /\ U[p] = Row(0, k)
      /\ \A c \in Producers : c # p => U[c] = T[c]
  BY <1>1 DEF Settled
<1> HIDE DEF U
<1>3. Rows(U) = Rows(T) \cup {p} /\ p \notin Rows(T) /\ Rows(T) \subseteq Producers
  BY <1>1, <1>2 DEF Rows
<1>4. Settled(U)
  BY <1>1, <1>2, <1>3 DEF Settled
<1>5. \A c \in Rows(T) : U[c] = T[c] /\ Info(U, c) = Info(T, c)
  BY <1>2, <1>3 DEF Info
<1>6. Info(U, p).name = p /\ Info(U, p).votes = 0 /\ U[p].votes = 0
  BY <1>1, <1>2 DEF Info
<1> QED  BY <1>3, <1>4, <1>5, <1>6 DEF Joins, U

\* Rows next to each other above it stay so, and have the same rows above them.
LEMMA JoinedNext ==
  ASSUME NEW T, NEW U, NEW p, Joins(T, U, p), NEW a, NEW c, NextTo(T, a, c), Above(c, Info(U, p))
  PROVE  NextTo(U, a, c)
<1>1. /\ IsRow(T, a) /\ IsRow(T, c) /\ Above(a, c)
      /\ \A d \in Rows(T) : ~ (Above(a, Info(T, d)) /\ Above(Info(T, d), c))
  BY DEF NextTo
<1>2. IsRow(U, a) /\ IsRow(U, c)
  BY <1>1 DEF IsRow, Joins
<1>3. Comparable(c) /\ Comparable(Info(U, p))
  BY <1>1, RowCompares, InfosCompare DEF Joins
<1>4. ~ Above(Info(U, p), c)
  BY <1>3, AboveOrders
<1>5. \A d \in Rows(U) : ~ (Above(a, Info(U, d)) /\ Above(Info(U, d), c))
  BY <1>1, <1>4 DEF Joins
<1> QED  BY <1>1, <1>2, <1>5 DEF NextTo

\* The new row is not among those above a row it comes behind.
LEMMA JoinedTop ==
  ASSUME NEW T, NEW U, NEW p, Joins(T, U, p), NEW a, IsRow(T, a), Above(a, Info(U, p))
  PROVE  Top(U, a) = Top(T, a)
<1>1. Comparable(a) /\ Comparable(Info(U, p))
  BY RowCompares, InfosCompare DEF Joins
<1>2. ~ AtLeast(Info(U, p), a)
  BY <1>1, AtLeastOrders, AboveOrders
<1> QED  BY <1>2 DEF Joins, Top

\* So the queues stay right for the table, and the schedule for the queues.
LEMMA JoinedFit ==
  ASSUME NEW T, NEW U, NEW p, Joins(T, U, p), NEW m, NEW b, NEW max \in Nat, QueuesFit(T, m, b, max),
         Above(b.next, Info(U, p))
  PROVE  /\ QueuesFit(U, m, b, max)
         /\ \A s : Heads(s, T, m, b) => Heads(s, U, m, b)
<1>1. /\ m \in QueueType /\ b \in QueueType /\ PlacedQueue(T, m) /\ PlacedQueue(T, b)
      /\ m.count = MainCount /\ b.count \in MinBackup .. max
      /\ Cardinality(Top(T, m.tail)) = MainCount
      /\ Cardinality(Top(T, b.tail)) = MainCount + b.count
      /\ Settled(T)
  BY DEF QueuesFit, Joins
<1>2. /\ NextTo(T, m.prev, m.tail) /\ NextTo(T, m.tail, m.next)
      /\ NextTo(T, b.prev, b.tail) /\ NextTo(T, b.tail, b.next)
  BY <1>1 DEF PlacedQueue
<1>3. Above(m.next, b.prev)
  <2>1. PICK w : w.m = m /\ w.b = b
    <3>1. [m |-> m, b |-> b].m = m /\ [m |-> m, b |-> b].b = b
      OBVIOUS
    <3> QED  BY <3>1
  <2>2. b.count \in Int /\ b.count >= 3
    BY <1>1, QueueAssumption DEF QueueAssumption
  <2> QED  BY <1>1, <2>1, <2>2, QueuesApart
<1>4. /\ Above(m.tail, m.next) /\ Above(b.prev, b.tail) /\ Above(b.tail, b.next)
      /\ IsRow(T, m.tail) /\ IsRow(T, m.next) /\ IsRow(T, b.prev) /\ IsRow(T, b.tail) /\ IsRow(T, b.next)
  BY <1>2 DEF NextTo
<1>5. /\ Comparable(m.tail) /\ Comparable(m.next) /\ Comparable(b.prev) /\ Comparable(b.tail)
      /\ Comparable(b.next) /\ Comparable(Info(U, p))
  BY <1>1, <1>4, RowCompares, InfosCompare DEF Joins
<1>6. Above(b.tail, Info(U, p)) /\ Above(b.prev, Info(U, p))
  BY <1>4, <1>5, AboveOrders
<1>7. Above(m.next, Info(U, p))
  BY <1>3, <1>5, <1>6, AboveOrders
<1>8. Above(m.tail, Info(U, p))
  BY <1>4, <1>5, <1>7, AboveOrders
<1>9. PlacedQueue(U, m) /\ PlacedQueue(U, b)
  BY <1>2, <1>6, <1>7, <1>8, JoinedNext DEF PlacedQueue
<1>10. Top(U, m.tail) = Top(T, m.tail) /\ Top(U, b.tail) = Top(T, b.tail)
  BY <1>4, <1>6, <1>8, JoinedTop
<1>11. QueuesFit(U, m, b, max)
  BY <1>1, <1>9, <1>10 DEF QueuesFit
<1>12. [q \in Top(U, m.tail) |-> U[q].key] = [q \in Top(T, m.tail) |-> T[q].key]
  <2>1. Top(T, m.tail) \subseteq Rows(T)
    BY TopIsFinite
  <2>2. \A q \in Top(T, m.tail) : U[q].key = T[q].key
    BY <2>1 DEF Joins
  <2> QED  BY <1>10, <2>2
<1> QED  BY <1>10, <1>11, <1>12 DEF Heads

\* A producer who registers behind the queues keeps the invariant.
LEMMA JoiningKeepsHeads ==
  ASSUME RegistrationInv, NEW p \in Producers, NEW k \in Keys, Behind(p), RegisterNew(p, k)
  PROVE  RegistrationInv'
<1>1. /\ table' = [table EXCEPT ![p] = Row(0, k)] /\ ~ table[p].registered
      /\ version' = version /\ maxBackup' = maxBackup /\ minVotes' = minVotes
      /\ meq' = meq /\ beq' = beq /\ interrupted' = interrupted /\ sched' = sched
  BY DEF RegisterNew, config
<1>2. PICK U : U = [table EXCEPT ![p] = Row(0, k)]
  OBVIOUS
<1>3. Settled(table) /\ maxBackup \in Nat
  BY DEF RegistrationInv
<1>4. Joins(table, U, p) /\ Info(U, p).name = p /\ Info(U, p).votes = 0 /\ U[p].votes = 0
  BY ONLY <1>1, <1>2, <1>3, p \in Producers, k \in Keys, RegisteredJoins, ZenonT(60)
<1>5. Settled(U) /\ \A c \in Rows(U) : U[c].votes >= 0
  BY <1>4 DEF Joins, RegistrationInv
<1>6. ASSUME version = Enabled
      PROVE  \E b : /\ SameQueue(beq, b) /\ QueuesFit(U, meq, b, maxBackup)
                    /\ ~ interrupted => Heads(sched, U, meq, b)
  <2>1. PICK b : /\ SameQueue(beq, b) /\ QueuesFit(table, meq, b, maxBackup)
                 /\ ~ interrupted => Heads(sched, table, meq, b)
    BY <1>6 DEF RegistrationInv
  <2>2. Above(beq.next, [name |-> p, votes |-> 0])
    BY <1>6 DEF Behind
  <2>3. Above(b.next, Info(U, p))
    BY <1>4, <2>1, <2>2 DEF SameQueue, SameInfo, Above
  <2> QED  BY <1>3, <1>4, <2>1, <2>3, JoinedFit
<1>7. table' = U
  BY <1>1, <1>2
<1> QED  BY <1>1, <1>5, <1>6, <1>7 DEF RegistrationInv

-----------------------------------------------------------------------------
(* A producer registers again, with another key.                           *)

\* p has the key k in U, all else is as in T.
Rekeyed(T, U, p, k) ==
  /\ Settled(T) /\ Settled(U) /\ Rows(U) = Rows(T) /\ p \in Rows(T)
  /\ \A c \in Rows(T) : U[c].votes = T[c].votes /\ (c # p => U[c] = T[c] /\ Info(U, c) = Info(T, c))
  /\ U[p].key = k

\* The queue with the infos of U.
KeyedQueue(U, q) ==
  [count |-> q.count, tail |-> Info(U, q.tail.name),
   prev |-> Info(U, q.prev.name), next |-> Info(U, q.next.name)]

\* That is what registering again makes of the table (voting.cpp:359-386).
LEMMA ReregisteredIs ==
  ASSUME NEW T, Settled(T), NEW p \in Producers, T[p].registered, NEW k \in Keys
  PROVE  Rekeyed(T, [T EXCEPT ![p] = Row(@.votes, k)], p, k)
<1> DEFINE U == [T EXCEPT ![p] = Row(@.votes, k)]
           r == Row(T[p].votes, k)
<1>1. T[p] \in RowType
  BY DEF Settled
<1>2. r \in RowType /\ r.registered /\ r.active /\ r.votes = T[p].votes /\ r.key = k
  BY <1>1 DEF Row, RowType
<1>3. /\ U \in [Producers -> RowType] /\ U[p] = r
      /\ \A c \in Producers : c # p => U[c] = T[c]
  BY <1>2 DEF Settled
<1> HIDE DEF U, r
<1>4. Rows(U) = Rows(T) /\ p \in Rows(T) /\ Rows(T) \subseteq Producers
  BY <1>2, <1>3 DEF Rows
<1>5. Settled(U)
  BY <1>2, <1>3, <1>4 DEF Settled
<1>6. \A c \in Rows(T) : U[c].votes = T[c].votes /\ (c # p => U[c] = T[c] /\ Info(U, c) = Info(T, c))
  BY <1>2, <1>3, <1>4 DEF Info
<1> QED  BY <1>2, <1>3, <1>4, <1>5, <1>6 DEF Rekeyed, U

\* Ranks and members stay.
LEMMA RekeyedRanks ==
  ASSUME NEW T, NEW U, NEW p, NEW k, Rekeyed(T, U, p, k)
  PROVE  /\ \A c \in Rows(T) : SameInfo(Info(T, c), Info(U, c))
         /\ \A i : Top(U, i) = Top(T, i)
<1>1. /\ Settled(T) /\ Settled(U) /\ Rows(U) = Rows(T)
      /\ \A c \in Rows(T) : U[c].votes = T[c].votes
  BY DEF Rekeyed
<1>2. ASSUME NEW c \in Rows(T)
      PROVE  SameInfo(Info(T, c), Info(U, c))
  <2>1. IsRow(T, Info(T, c)) /\ IsRow(U, Info(U, c))
    BY <1>1, RowOf
  <2>2. /\ Info(T, c) # Refetch /\ Info(T, c) # NoInfo /\ Info(U, c) # Refetch /\ Info(U, c) # NoInfo
    BY <1>1, <2>1, RowInfo
  <2> QED  BY <1>1, <2>2, InfoIs DEF SameInfo
<1>3. ASSUME NEW i PROVE Top(U, i) = Top(T, i)
  <2>1. \A c \in Rows(T) : Info(T, c).name = Info(U, c).name /\ Info(T, c).votes = Info(U, c).votes
    BY <1>2 DEF SameInfo
  <2>2. \A c \in Rows(T) : AtLeast(Info(U, c), i) <=> AtLeast(Info(T, c), i)
    BY <2>1 DEF AtLeast, Above, SameRank
  <2> QED  BY <1>1, <2>2 DEF Top
<1> QED  BY <1>2, <1>3

\* Rows next to each other stay so; the infos of the others are the same.
LEMMA RekeyedNext ==
  ASSUME NEW T, NEW U, NEW p, NEW k, Rekeyed(T, U, p, k), NEW a, NEW c, NextTo(T, a, c)
  PROVE  /\ NextTo(U, Info(U, a.name), Info(U, c.name))
         /\ SameInfo(a, Info(U, a.name)) /\ SameInfo(c, Info(U, c.name))
         /\ a.name # p => Info(U, a.name) = a
         /\ c.name # p => Info(U, c.name) = c
<1>1. /\ a.name \in Rows(T) /\ a = Info(T, a.name) /\ c.name \in Rows(T) /\ c = Info(T, c.name)
      /\ Above(a, c) /\ \A d \in Rows(T) : ~ (Above(a, Info(T, d)) /\ Above(Info(T, d), c))
  BY DEF NextTo, IsRow
<1>2. Settled(U) /\ Rows(U) = Rows(T) /\ \A d \in Rows(T) : d # p => Info(U, d) = Info(T, d)
  BY DEF Rekeyed
<1>3. \A d \in Rows(T) : SameInfo(Info(T, d), Info(U, d))
  BY RekeyedRanks
<1>4. SameInfo(a, Info(U, a.name)) /\ SameInfo(c, Info(U, c.name))
  BY <1>1, <1>3
<1>5. PICK i, j : i = Info(U, a.name) /\ j = Info(U, c.name)
  OBVIOUS
<1>6. IsRow(U, i) /\ IsRow(U, j)
  BY <1>1, <1>2, <1>5, RowOf
<1>7. Above(i, j)
  BY <1>1, <1>4, <1>5, SameRanks
<1>8. ASSUME NEW d \in Rows(T) PROVE ~ (Above(i, Info(U, d)) /\ Above(Info(U, d), j))
  <2>1. SameInfo(Info(T, d), Info(U, d))
    BY <1>3
  <2>2. Above(a, Info(T, d)) <=> Above(i, Info(U, d))
    BY <1>4, <1>5, <2>1, SameRanks
  <2>3. Above(Info(T, d), c) <=> Above(Info(U, d), j)
    BY <1>4, <1>5, <2>1, SameRanks
  <2> QED  BY <1>1, <2>2, <2>3
<1>9. NextTo(U, i, j)
  BY <1>2, <1>6, <1>7, <1>8 DEF NextTo
<1> QED  BY <1>1, <1>2, <1>4, <1>5, <1>9

\* Queues that are right for T are so for U, under its keys.
LEMMA RekeyedFit ==
  ASSUME NEW T, NEW U, NEW p, NEW k, Rekeyed(T, U, p, k), NEW m, NEW b, NEW max, QueuesFit(T, m, b, max)
  PROVE  /\ QueuesFit(U, KeyedQueue(U, m), KeyedQueue(U, b), max)
         /\ SameQueue(m, KeyedQueue(U, m)) /\ SameQueue(b, KeyedQueue(U, b))
<1>1. /\ m \in QueueType /\ b \in QueueType
      /\ NextTo(T, m.prev, m.tail) /\ NextTo(T, m.tail, m.next)
      /\ NextTo(T, b.prev, b.tail) /\ NextTo(T, b.tail, b.next)
      /\ m.count = MainCount /\ b.count \in MinBackup .. max
      /\ Cardinality(Top(T, m.tail)) = MainCount
      /\ Cardinality(Top(T, b.tail)) = MainCount + b.count
  BY DEF QueuesFit, PlacedQueue
<1>2. Settled(U)
  BY DEF Rekeyed
<1>3. ASSUME NEW q \in QueueType, NextTo(T, q.prev, q.tail), NextTo(T, q.tail, q.next)
      PROVE  /\ KeyedQueue(U, q) \in QueueType /\ PlacedQueue(U, KeyedQueue(U, q))
             /\ KeyedQueue(U, q).count = q.count
             /\ Top(U, KeyedQueue(U, q).tail) = Top(T, q.tail)
             /\ SameQueue(q, KeyedQueue(U, q))
  <2>1. PICK v : v = KeyedQueue(U, q)
    OBVIOUS
  <2>2. /\ v.count = q.count /\ v.tail = Info(U, q.tail.name) /\ v.prev = Info(U, q.prev.name)
        /\ v.next = Info(U, q.next.name)
    BY <2>1 DEF KeyedQueue
  <2>3. /\ NextTo(U, v.prev, v.tail) /\ NextTo(U, v.tail, v.next)
        /\ SameInfo(q.prev, v.prev) /\ SameInfo(q.tail, v.tail) /\ SameInfo(q.next, v.next)
    BY <1>3, <2>2, RekeyedNext
  <2>4. v.prev \in InfoType /\ v.tail \in InfoType /\ v.next \in InfoType /\ v.count \in Int
    BY <1>2, <2>2, <2>3, RowInfo DEF NextTo, QueueType
  <2>5. v \in QueueType
    BY ONLY <2>1, <2>2, <2>4 DEF KeyedQueue, QueueType
  <2>6. Top(U, v.tail) = Top(T, q.tail)
    <3>1. Top(T, v.tail) = Top(T, q.tail)
      BY <2>3, SameTop DEF SameInfo
    <3> QED  BY <3>1, RekeyedRanks
  <2> QED  BY <2>1, <2>2, <2>3, <2>5, <2>6 DEF PlacedQueue, SameQueue
<1>4. PICK u, v : u = KeyedQueue(U, m) /\ v = KeyedQueue(U, b)
  OBVIOUS
<1>5. /\ u \in QueueType /\ PlacedQueue(U, u) /\ u.count = m.count /\ Top(U, u.tail) = Top(T, m.tail)
      /\ SameQueue(m, u)
  BY <1>1, <1>3, <1>4
<1>6. /\ v \in QueueType /\ PlacedQueue(U, v) /\ v.count = b.count /\ Top(U, v.tail) = Top(T, b.tail)
      /\ SameQueue(b, v)
  BY <1>1, <1>3, <1>4
<1> QED  BY <1>1, <1>4, <1>5, <1>6 DEF QueuesFit

\* What reading the marked copies again makes of a work.
RereadIs(q, U, r) ==
  r = [count |-> q.count, tail |-> q.tail,
       prev |-> IF q.prev = Refetch THEN PrevInfo(U, q.tail) ELSE q.prev,
       next |-> IF q.next = Refetch THEN NextInfo(U, q.tail) ELSE q.next]

\* The marked copies of both queues are read that way.
LEMMA RefetchedForm ==
  ASSUME NEW X, NEW Y, NEW u \in WorkIn(X, Y), NEW U
  PROVE  /\ RereadIs(u.m, U, Refetched(u, U).m) /\ RereadIs(u.b, U, Refetched(u, U).b)
         /\ Refetched(u, U).mc = u.mc /\ Refetched(u, U).bc = u.bc
<1>1. u.m \in QueueIn(X) /\ u.b \in QueueIn(X)
  BY WorkInIs
<1>2. ASSUME NEW q \in QueueIn(X) PROVE RereadIs(q, U, Reread(q, U))
  <2>1. PICK c, t, i, j : q = [count |-> c, tail |-> t, prev |-> i, next |-> j]
    <3>1. q = [count |-> q.count, tail |-> q.tail, prev |-> q.prev, next |-> q.next]
      BY DEF QueueIn
    <3> QED  BY <3>1, Zenon
  <2>2. /\ q.count = c /\ q.tail = t /\ q.prev = i /\ q.next = j
    BY <2>1
  <2>3. PICK e, f : /\ e = IF i = Refetch THEN PrevInfo(U, t) ELSE i
                    /\ f = IF j = Refetch THEN NextInfo(U, t) ELSE j
    OBVIOUS
  <2>4. PICK r : r = [[count |-> c, tail |-> t, prev |-> i, next |-> j] EXCEPT !.prev = e, !.next = f]
    OBVIOUS
  <2>5. r = [count |-> c, tail |-> t, prev |-> e, next |-> f]
    BY ONLY <2>4
  <2>6. Reread(q, U) = r
    BY ONLY <2>1, <2>2, <2>3, <2>4 DEF Reread
  <2> QED  BY ONLY <2>2, <2>3, <2>5, <2>6 DEF RereadIs
<1>3. PICK v : v = Refetched(u, U)
  OBVIOUS
<1>4. v.m = Reread(u.m, U) /\ v.b = Reread(u.b, U) /\ v.mc = u.mc /\ v.bc = u.bc
  BY ONLY <1>3, u \in WorkIn(X, Y) DEF Refetched, WorkIn
<1> QED  BY <1>1, <1>2, <1>3, <1>4

\* The row before one is read right.
LEMMA PrevIs ==
  ASSUME NEW T, Settled(T), NEW a, NEW t, NextTo(T, a, t)
  PROVE  PrevInfo(T, t) = a
<1>1. IsRow(T, a) /\ IsRow(T, t) /\ Above(a, t) /\ a.name \in Rows(T) /\ a = Info(T, a.name)
  BY DEF NextTo, IsRow
<1>2. PICK c : c = PrevInfo(T, t)
  OBVIOUS
<1>3. NextTo(T, c, t)
  BY <1>1, <1>2, PrevFetched
<1>4. c.name \in Rows(T) /\ c = Info(T, c.name)
  BY <1>3 DEF NextTo, IsRow
<1>5. RankOf(T, c.name) = RankOf(T, a.name)
  BY <1>1, <1>3, <1>4, NextRank, RankType
<1> QED  BY <1>1, <1>2, <1>4, <1>5, RanksDiffer

\* How the producer whose key changed stands to the copies of a queue.
LEMMA RekeyedOrder ==
  ASSUME NEW T, NEW U, NEW p, NEW k, Rekeyed(T, U, p, k), NEW q, PlacedQueue(T, q)
  PROVE  /\ Around(Info(T, p), Info(U, p), q) /\ SameInfo(Info(T, p), Info(U, p))
         /\ Info(T, p).name = p /\ Info(U, p).name = p
         /\ IsRow(T, q.prev) /\ IsRow(T, q.tail) /\ IsRow(T, q.next)
<1>1. Settled(T) /\ Settled(U) /\ Rows(U) = Rows(T) /\ p \in Rows(T)
  BY DEF Rekeyed
<1>2. /\ Comparable(Info(T, p)) /\ Comparable(Info(U, p))
      /\ Info(T, p).name = p /\ Info(U, p).name = p
  BY <1>1, InfosCompare, InfoIs
<1>3. /\ NextTo(T, q.prev, q.tail) /\ NextTo(T, q.tail, q.next)
      /\ IsRow(T, q.prev) /\ IsRow(T, q.tail) /\ IsRow(T, q.next)
  BY DEF PlacedQueue, NextTo
<1>4. ASSUME NEW i, IsRow(T, i) PROVE Comparable(i) /\ (p = i.name => Info(T, p) = i)
  BY <1>1, <1>4, RowInfo
<1>5. SameInfo(Info(T, p), Info(U, p))
  BY <1>1, RekeyedRanks
<1>6. Around(Info(T, p), Info(U, p), q)
  BY <1>1, <1>2, <1>3, <1>4 DEF NextTo, Around
<1> QED  BY <1>2, <1>3, <1>5, <1>6

\* One of the main queue: every copy of its row is replaced.
LEMMA MainRekeyed ==
  ASSUME NEW T, NEW U, NEW p, NEW k, Rekeyed(T, U, p, k), NEW X, NEW Y, Recorded(X, Y), Info(U, p) \in X,
         NEW w \in WorkIn(X, Y), PlacedQueue(T, w.m), AtLeast(Info(T, p), w.m.tail),
         w.b.prev # Refetch, w.b.next # Refetch,
         NEW v, v = Refetched(StayInMain(w, Info(T, p), Info(U, p)), U)
  PROVE  /\ v.m = KeyedQueue(U, w.m) /\ SameQueue(v.b, w.b) /\ v.bc = w.bc
         /\ v.mc = IF Info(U, p).key # Info(T, p).key THEN ModifyChange(w.mc, Info(U, p)) ELSE w.mc
<1>1. PICK o, n, m, u : /\ o = Info(T, p) /\ n = Info(U, p) /\ m = w.m /\ u = StayInMain(w, o, n)
  OBVIOUS
<1>2. /\ Around(o, n, m) /\ SameInfo(o, n) /\ o.name = p /\ n.name = p /\ AtLeast(o, m.tail)
      /\ IsRow(T, m.prev) /\ IsRow(T, m.tail) /\ IsRow(T, m.next)
  BY <1>1, RekeyedOrder
<1>3. u \in WorkIn(X, Y) /\ m \in QueueIn(X) /\ w.b \in QueueIn(X)
  BY <1>1, StayResizes, WorkInIs
<1>4. /\ u.b = w.b /\ u.bc = w.bc
      /\ u.mc = IF n.key # o.key THEN ModifyChange(w.mc, n) ELSE w.mc
      /\ u.m = IF AtLeast(n, m.prev) THEN
                 IF n.name = m.prev.name THEN [m EXCEPT !.prev = Refetch]
                 ELSE IF n.name = m.tail.name THEN [m EXCEPT !.tail = m.prev, !.prev = Refetch]
                 ELSE m
               ELSE IF n.name = m.tail.name THEN [m EXCEPT !.tail = n]
               ELSE IF ~AtLeast(n, m.tail) THEN [m EXCEPT !.prev = m.tail, !.tail = n]
               ELSE IF n.name = m.prev.name THEN [m EXCEPT !.prev = n]
               ELSE [m EXCEPT !.prev = Refetch]
  BY ONLY <1>1, w \in WorkIn(X, Y) DEF StayInMain, WorkIn
<1>5. /\ AtLeast(n, m.prev) <=> p # m.tail.name
      /\ p = m.prev.name => p # m.tail.name
      /\ p # m.next.name
  <2>1. n.votes = o.votes
    BY <1>2 DEF SameInfo
  <2> QED  BY ONLY <1>2, <2>1 DEF Around, AtLeast, Above, SameRank, Comparable
<1>6. \/ p = m.prev.name /\ u.m = [m EXCEPT !.prev = Refetch]
      \/ p = m.tail.name /\ u.m = [m EXCEPT !.tail = n]
      \/ p # m.prev.name /\ p # m.tail.name /\ u.m = m
  BY ONLY <1>2, <1>4, <1>5
<1>7. /\ Settled(U) /\ Settled(T)
      /\ NextTo(U, Info(U, m.prev.name), Info(U, m.tail.name))
      /\ m.prev.name # p => Info(U, m.prev.name) = m.prev
      /\ m.tail.name # p => Info(U, m.tail.name) = m.tail
      /\ Info(U, m.next.name) = m.next
  <2>1. NextTo(T, m.prev, m.tail) /\ NextTo(T, m.tail, m.next)
    BY <1>1 DEF PlacedQueue
  <2>2. /\ NextTo(U, Info(U, m.prev.name), Info(U, m.tail.name))
        /\ m.prev.name # p => Info(U, m.prev.name) = m.prev
        /\ m.tail.name # p => Info(U, m.tail.name) = m.tail
    BY <2>1, RekeyedNext
  <2>3. m.next.name # p => Info(U, m.next.name) = m.next
    BY <2>1, RekeyedNext
  <2> QED  BY <1>5, <2>2, <2>3 DEF Rekeyed
<1>8. m.prev # Refetch /\ m.tail # Refetch /\ m.next # Refetch
  BY <1>2, <1>7, RowInfo
<1>9. PrevInfo(U, Info(U, m.tail.name)) = Info(U, m.prev.name)
  BY <1>7, PrevIs
<1>10. /\ RereadIs(u.m, U, v.m) /\ RereadIs(u.b, U, v.b) /\ v.mc = u.mc /\ v.bc = u.bc
  BY <1>1, <1>3, RefetchedForm
<1>11. PICK r : r = v.m
  OBVIOUS
<1>12. r = KeyedQueue(U, m)
  <2>1. RereadIs(u.m, U, r)
    BY <1>10, <1>11
  <2>2. CASE p = m.prev.name /\ u.m = [m EXCEPT !.prev = Refetch]
    <3>1. Info(U, m.tail.name) = m.tail
      BY <1>5, <1>7, <2>2
    <3> QED  BY ONLY <1>3, <1>7, <1>8, <1>9, <2>1, <2>2, <3>1 DEF RereadIs, KeyedQueue, QueueIn
  <2>3. CASE p = m.tail.name /\ u.m = [m EXCEPT !.tail = n]
    <3>1. Info(U, m.prev.name) = m.prev /\ Info(U, m.tail.name) = n
      BY <1>1, <1>5, <1>7, <2>3
    <3> QED  BY ONLY <1>3, <1>7, <1>8, <2>1, <2>3, <3>1 DEF RereadIs, KeyedQueue, QueueIn
  <2>4. CASE p # m.prev.name /\ p # m.tail.name /\ u.m = m
    <3>1. Info(U, m.prev.name) = m.prev /\ Info(U, m.tail.name) = m.tail
      BY <1>7, <2>4
    <3> QED  BY ONLY <1>3, <1>7, <1>8, <2>1, <2>4, <3>1 DEF RereadIs, KeyedQueue, QueueIn
  <2> QED  BY <1>6, <2>2, <2>3, <2>4
<1>13. SameQueue(v.b, w.b)
  <2>1. RereadIs(w.b, U, v.b)
    BY <1>4, <1>10
  <2> QED  BY <2>1, SameIsSame DEF RereadIs, SameQueue
<1> QED  BY <1>1, <1>4, <1>10, <1>11, <1>12, <1>13

\* The copies of the two queues lie apart.
LEMMA FitApart ==
  ASSUME NEW T, Settled(T), NEW m, NEW b, NEW max \in Nat, QueuesFit(T, m, b, max)
  PROVE  PlacedQueue(T, m) /\ PlacedQueue(T, b) /\ Above(m.next, b.prev)
<1>1. /\ PlacedQueue(T, m) /\ PlacedQueue(T, b) /\ b.count \in Int /\ b.count >= 3
      /\ Cardinality(Top(T, b.tail)) = Cardinality(Top(T, m.tail)) + b.count
  BY QueueAssumption DEF QueuesFit, QueueAssumption
<1>2. PICK w : w.m = m /\ w.b = b
  <2>1. [m |-> m, b |-> b].m = m /\ [m |-> m, b |-> b].b = b
    OBVIOUS
  <2> QED  BY <2>1
<1> QED  BY <1>1, <1>2, QueuesApart

\* One of the backup queue: the copy of its row the main queue holds is
\* replaced, those the backup queue holds may not be.
LEMMA BackupRekeyed ==
  ASSUME NEW T, NEW U, NEW p, NEW k, Rekeyed(T, U, p, k), NEW X, NEW Y, Recorded(X, Y), Info(U, p) \in X,
         NEW w \in WorkIn(X, Y), NEW b, NEW max \in Nat, QueuesFit(T, w.m, b, max), SameQueue(w.b, b),
         ~ AtLeast(Info(T, p), w.m.tail), AtLeast(Info(T, p), w.b.tail),
         NEW v, v = Refetched(MoveInBackup(w, Info(T, p), Info(U, p)), U)
  PROVE  /\ v.m = KeyedQueue(U, w.m) /\ SameQueue(v.b, w.b) /\ v.mc = w.mc
         /\ v.bc = IF Info(U, p).key # Info(T, p).key THEN ModifyChange(w.bc, Info(U, p)) ELSE w.bc
<1>1. PICK o, n, m, q, u : /\ o = Info(T, p) /\ n = Info(U, p) /\ m = w.m /\ q = w.b
                           /\ u = MoveInBackup(w, o, n)
  OBVIOUS
<1>a. Settled(T) /\ Settled(U) /\ p \in Rows(U)
  BY DEF Rekeyed
<1>2. PlacedQueue(T, m) /\ PlacedQueue(T, b) /\ Above(m.next, b.prev)
  BY <1>1, <1>a, FitApart
<1>3. /\ Around(o, n, m) /\ SameInfo(o, n) /\ o.name = p /\ n.name = p
      /\ IsRow(T, m.prev) /\ IsRow(T, m.tail) /\ IsRow(T, m.next)
  BY <1>1, <1>2, RekeyedOrder
<1>4. /\ Around(o, n, b) /\ IsRow(T, b.prev) /\ IsRow(T, b.tail) /\ IsRow(T, b.next)
  BY <1>1, <1>2, RekeyedOrder
<1>5. SameInfo(q.tail, b.tail) /\ SameInfo(q.prev, b.prev) /\ SameInfo(q.next, b.next)
  BY <1>1 DEF SameQueue
<1>6. /\ AtLeast(o, q.tail) <=> AtLeast(o, b.tail)
      /\ AtLeast(n, q.prev) <=> AtLeast(n, b.prev)
      /\ AtLeast(n, q.tail) <=> AtLeast(n, b.tail)
      /\ SameRank(o, q.tail) <=> SameRank(o, b.tail)
      /\ SameRank(o, q.prev) <=> SameRank(o, b.prev)
      /\ SameRank(n, q.prev) <=> SameRank(n, b.prev)
  <2>1. SameInfo(o, o) /\ SameInfo(n, n)
    BY SameIsSame
  <2> QED  BY ONLY <1>5, <2>1, SameRanks
<1>7. ~ AtLeast(o, m.tail) /\ AtLeast(o, b.tail) /\ n.votes = o.votes
  BY <1>1, <1>3, <1>6 DEF SameInfo
<1>8. /\ AtLeast(n, m.next) <=> p = m.next.name
      /\ SameRank(o, m.next) <=> p = m.next.name
      /\ p = m.next.name => ~ SameRank(o, b.tail) /\ ~ SameRank(o, b.prev)
      /\ AtLeast(n, b.prev) => ~ SameRank(o, b.tail)
      /\ SameRank(o, b.prev) <=> SameRank(n, b.prev)
      /\ ~ AtLeast(n, b.prev) => SameRank(o, b.tail) /\ AtLeast(n, b.tail)
      /\ p # m.tail.name /\ p # m.prev.name
  BY ONLY <1>2, <1>3, <1>4, <1>7 DEF Around, AtLeast, Above, SameRank, Comparable
<1>9. BackupIs(w, o, n, u)
  BY <1>1, BackupForm
<1>10. m \in QueueIn(X) /\ q \in QueueIn(X)
  BY <1>1, WorkInIs
<1>11. /\ u.mc = w.mc /\ u.bc = IF n.key # o.key THEN ModifyChange(w.bc, n) ELSE w.bc
       /\ u.m = [m EXCEPT !.next = IF p = m.next.name THEN n ELSE @]
       /\ u.b.count = q.count /\ u.b.next = q.next /\ u.b.prev = q.prev
       /\ u.b.tail = IF SameRank(o, b.tail) THEN n ELSE q.tail
  BY ONLY <1>1, <1>6, <1>8, <1>9, <1>10 DEF BackupIs, QueueIn
<1>12. IsRow(U, n) /\ n # Refetch /\ n # NoInfo
  BY <1>1, <1>a, RowOf, RowInfo
<1>13. /\ b.tail # Refetch /\ b.tail # NoInfo /\ b.prev # Refetch /\ b.next # Refetch
       /\ m.tail # Refetch /\ m.prev # Refetch /\ m.next # Refetch
  BY <1>3, <1>4, <1>a, RowInfo
<1>14. SameInfo(u.b.tail, q.tail)
  <2>1. q.tail # Refetch /\ q.tail # NoInfo /\ q.tail.name = b.tail.name /\ q.tail.votes = b.tail.votes
    BY <1>5, <1>13 DEF SameInfo
  <2>2. CASE SameRank(o, b.tail)
    <3>1. n.name = q.tail.name /\ n.votes = q.tail.votes
      BY <1>3, <1>7, <2>1, <2>2 DEF SameRank
    <3> QED  BY <1>11, <1>12, <2>1, <2>2, <3>1 DEF SameInfo
  <2>3. CASE ~ SameRank(o, b.tail)
    BY <1>11, <2>3, SameIsSame
  <2> QED  BY <2>2, <2>3
<1>15. q.prev # Refetch /\ q.next # Refetch
  BY <1>5, <1>13 DEF SameInfo
<1>16. u \in WorkIn(X, Y)
  BY <1>1, BackupResizes
<1>17. RereadIs(u.m, U, v.m) /\ RereadIs(u.b, U, v.b) /\ v.mc = u.mc /\ v.bc = u.bc
  BY <1>1, <1>16, RefetchedForm
<1>18. SameQueue(v.b, q)
  BY <1>11, <1>14, <1>15, <1>17, SameIsSame DEF RereadIs, SameQueue
<1>19. PICK r : r = v.m
  OBVIOUS
<1>20. r = KeyedQueue(U, m)
  <2>1. /\ NextTo(T, m.prev, m.tail) /\ NextTo(T, m.tail, m.next)
    BY <1>2 DEF PlacedQueue
  <2>2. Info(U, m.prev.name) = m.prev /\ Info(U, m.tail.name) = m.tail
    BY <1>8, <2>1, RekeyedNext
  <2>3. Info(U, m.next.name) = IF p = m.next.name THEN n ELSE m.next
    BY <1>1, <2>1, RekeyedNext
  <2>4. RereadIs(u.m, U, r)
    BY <1>17, <1>19
  <2> QED  BY ONLY <1>10, <1>11, <1>12, <1>13, <2>2, <2>3, <2>4 DEF RereadIs, KeyedQueue, QueueIn
<1> QED  BY <1>1, <1>11, <1>17, <1>18, <1>19, <1>20

\* One below: as if it had had the new key before.
LEMMA OutsideRekeyed ==
  ASSUME NEW w, NEW U, NEW o, NEW n, SameInfo(o, n), ~ AtLeast(o, w.m.tail), ~ AtLeast(o, w.b.tail)
  PROVE  Moved(w, U, o, n) = Moved(w, U, n, n)
<1>1. \A i : (AtLeast(o, i) <=> AtLeast(n, i)) /\ (Above(o, i) <=> Above(n, i)) /\ (SameRank(o, i) <=> SameRank(n, i))
  BY DEF SameInfo, AtLeast, Above, SameRank
<1>2. ~ Above(n, w.m.tail) /\ ~ AtLeast(n, w.m.tail) /\ ~ AtLeast(n, w.b.tail)
  BY <1>1 DEF AtLeast
<1>3. Moved(w, U, o, n) = MoveOutside(w, o, n) /\ Moved(w, U, n, n) = MoveOutside(w, n, n)
  BY <1>2 DEF Moved
<1>4. MoveOutside(w, o, n) = MoveOutside(w, n, n)
  BY ONLY <1>1, ZenonT(60) DEF MoveOutside
<1> QED  BY <1>3, <1>4

\* A new key in the schedule of the main queue ...
LEMMA MainKeyed ==
  ASSUME NEW T, NEW U, NEW p, NEW k, Rekeyed(T, U, p, k), NEW S, S \subseteq Rows(T),
         NEW s, s = [q \in S |-> T[q].key], NEW n, n = Info(U, p), NEW c,
         \/ c = NoChanges /\ (p \in S => U[p].key = T[p].key)
         \/ c = ModifyChange(NoChanges, n) /\ p \in S
  PROVE  /\ FitsIn(s, c, Cardinality(S))
         /\ Apply(s, c) = [q \in S |-> U[q].key]
         /\ IsEmpty(c) => s = [q \in S |-> U[q].key]
<1>1. /\ Settled(U) /\ Rows(U) = Rows(T) /\ p \in Rows(T)
      /\ \A q \in Rows(T) : q # p => U[q] = T[q]
  BY DEF Rekeyed
<1>2. S \in SUBSET Producers /\ IsFiniteSet(S)
  BY RowsAreFinite, FS_Subset
<1>3. CASE c = NoChanges /\ (p \in S => U[p].key = T[p].key)
  <2>1. PICK K : K = KeysOf(U)
    OBVIOUS
  <2>2. K \in [Producers -> Keys \cup {NoKey}] /\ \A q \in S : K[q] = U[q].key
    BY <1>1, <1>2, <2>1, KeysUnder DEF Under
  <2>3. \A q \in S : T[q].key = U[q].key
    BY <1>1, <1>3
  <2>4. s = [q \in S |-> K[q]] /\ [q \in S |-> U[q].key] = [q \in S |-> K[q]]
    BY <2>2, <2>3
  <2>5. Turns(c, K, S, S)
    BY <1>3, NothingTurns
  <2>6. K \in [Producers -> Keys \cup {NoKey}]
    BY <2>2
  <2>7. /\ ~ IsBad(c) /\ FitsIn([q \in S |-> K[q]], c, Cardinality(S))
        /\ Apply([q \in S |-> K[q]], c) = [q \in S |-> K[q]]
        /\ IsEmpty(c) => S = S
    BY ONLY <1>2, <2>5, <2>6, TurnsFit, Zenon
  <2> QED  BY <2>4, <2>7
<1>4. CASE c = ModifyChange(NoChanges, n) /\ p \in S
  <2>1. n.name = p /\ n.key = U[p].key /\ DOMAIN s = S
    BY <1>1, InfoIs
  <2>2. /\ ~ IsEmpty(c) /\ FitsIn(s, c, Cardinality(S))
        /\ Apply(s, c) = [q \in S |-> IF q = p THEN n.key ELSE s[q]]
    <3>1. n.name \in DOMAIN s /\ DOMAIN s \in SUBSET Producers /\ IsFiniteSet(DOMAIN s)
      BY <1>2, <1>4, <2>1
    <3>2. /\ ~ IsEmpty(c) /\ ~ IsBad(c) /\ FitsIn(s, c, Cardinality(DOMAIN s))
          /\ Apply(s, c) = [q \in DOMAIN s |-> IF q = n.name THEN n.key ELSE s[q]]
      BY ONLY <1>4, <3>1, KeyFits
    <3> QED  BY <2>1, <3>2
  <2>3. \A q \in S : (IF q = p THEN n.key ELSE s[q]) = U[q].key
    BY <1>1, <2>1
  <2> QED  BY <2>2, <2>3
<1> QED  BY <1>3, <1>4

\* ... and of the backup queue.
LEMMA BackupKeyed ==
  ASSUME NEW S \in SUBSET Producers, NEW s, DOMAIN s = S, NEW n, NEW c,
         c = NoChanges \/ (c = ModifyChange(NoChanges, n) /\ n.name \in S)
  PROVE  FitsIn(s, c, Cardinality(S)) /\ DOMAIN Apply(s, c) = S
<1>1. IsFiniteSet(S)
  BY QueueAssumption, FS_Subset DEF QueueAssumption
<1>2. CASE c = NoChanges
  <2>1. PICK K : K = [q \in Producers |-> NoKey]
    OBVIOUS
  <2>2. K \in [Producers -> Keys \cup {NoKey}] /\ Turns(c, K, S, S)
    BY <1>2, <2>1, NothingTurns
  <2>3. SameOps(c, c)
    BY <1>2 DEF SameOps, NoChanges
  <2> QED  BY <2>2, <2>3, TurnedFit
<1>3. CASE c = ModifyChange(NoChanges, n) /\ n.name \in S
  <2>1. n.name \in DOMAIN s /\ DOMAIN s \in SUBSET Producers /\ IsFiniteSet(DOMAIN s)
    BY <1>1, <1>3
  <2>2. /\ ~ IsEmpty(c) /\ ~ IsBad(c) /\ FitsIn(s, c, Cardinality(DOMAIN s))
        /\ Apply(s, c) = [q \in DOMAIN s |-> IF q = n.name THEN n.key ELSE s[q]]
    BY ONLY <1>3, <2>1, KeyFits
  <2> QED  BY <1>3, <2>2
<1> QED  BY <1>2, <1>3

\* Twins of twins are twins.
LEMMA SameAgain ==
  ASSUME NEW q, NEW r, NEW s, SameQueue(q, r), SameQueue(r, s)
  PROVE  SameQueue(q, s)
BY DEF SameQueue, SameInfo

\* What the work v of a handler has to leave, for the queues and the schedule
\* saved to be right for the table U.
Leaves(v, U) ==
  \E c : /\ SameQueue(v.b, c) /\ QueuesFit(U, v.m, c, maxBackup)
         /\ ~ interrupted => /\ Heads(AppliedTo(sched, v), U, v.m, c)
                             /\ IsEmpty(v.mc) /\ IsEmpty(v.bc) => Heads(sched, U, v.m, c)

\* What is to be shown of the changes of a new key.
LEMMA KeyLeaves ==
  ASSUME NEW U, NEW v, NEW c, SameQueue(v.b, c), QueuesFit(U, v.m, c, maxBackup),
         NEW M \in SUBSET Producers, NEW B \in SUBSET Producers, M = Top(U, v.m.tail), B = Top(U, c.tail) \ M,
         Cardinality(M) = MainCount, Cardinality(B) = c.count,
         ~ interrupted =>
           /\ sched.fit /\ DOMAIN sched.backup = B
           /\ FitsIn(sched.main, v.mc, Cardinality(M)) /\ Apply(sched.main, v.mc) = [q \in M |-> U[q].key]
           /\ IsEmpty(v.mc) => sched.main = [q \in M |-> U[q].key]
           /\ FitsIn(sched.backup, v.bc, Cardinality(B)) /\ DOMAIN Apply(sched.backup, v.bc) = B
  PROVE  Leaves(v, U)
<1>1. v.m.count = MainCount /\ v.b.count = c.count
  BY DEF QueuesFit, SameQueue
<1>2. ASSUME ~ interrupted
      PROVE  /\ Heads(AppliedTo(sched, v), U, v.m, c)
             /\ IsEmpty(v.mc) /\ IsEmpty(v.bc) => Heads(sched, U, v.m, c)
  BY <1>1, <1>2 DEF AppliedTo, Heads
<1> QED  BY <1>2 DEF Leaves

\* The work of a producer of the queues who takes another key,
LEMMA MemberLeaves ==
  ASSUME RegistrationInv, version = Enabled, NEW U, NEW p, NEW k, Rekeyed(table, U, p, k),
         NEW o, NEW n, o = Info(table, p), n = Info(U, p), AtLeast(o, beq.tail),
         NEW v, v = Refetched(Moved(Work, U, o, n), U)
  PROVE  Leaves(v, U)
<1>1. PICK b : /\ SameQueue(beq, b) /\ QueuesFit(table, meq, b, maxBackup)
               /\ ~ interrupted => Heads(sched, table, meq, b)
  BY DEF RegistrationInv
<1>2. /\ maxBackup \in Nat /\ Settled(table) /\ Settled(U) /\ Rows(U) = Rows(table) /\ p \in Rows(table)
      /\ Shaped(Work)
  BY WorkIsShaped DEF RegistrationInv, Rekeyed
<1>3. PICK X : n \in X /\ Refetch \in X /\ Work \in WorkIn(X, ChangesOf(X))
  <2>1. PICK X : {n} \subseteq X /\ Refetch \in X /\ Work \in WorkIn(X, ChangesOf(X))
    BY <1>2, ShapeWidens
  <2> QED  BY <2>1
<1>4. Recorded(X, ChangesOf(X))
  BY <1>3, ChangesRecorded
<1>5. Work.m = meq /\ Work.b = beq /\ Work.mc = NoChanges /\ Work.bc = NoChanges
  BY WorkIs
<1>6. PlacedQueue(table, meq) /\ PlacedQueue(table, b) /\ Above(meq.next, b.prev)
  BY <1>1, <1>2, FitApart
<1>7. /\ Around(o, n, meq) /\ SameInfo(o, n) /\ o.name = p /\ n.name = p
      /\ IsRow(table, meq.tail) /\ IsRow(table, b.tail) /\ IsRow(table, b.prev) /\ IsRow(table, b.next)
  BY <1>6, RekeyedOrder
<1>8. PICK M, B, c : M = KeyedQueue(U, meq) /\ c = KeyedQueue(U, b) /\ B = Backups
  OBVIOUS
<1>9. QueuesFit(U, M, c, maxBackup) /\ SameQueue(meq, M) /\ SameQueue(b, c)
  BY <1>1, <1>8, RekeyedFit
<1>10. /\ Top(U, M.tail) = Mains /\ Top(U, c.tail) \ Mains = Backups
  <2>1. Top(table, M.tail) = Top(table, meq.tail) /\ Top(table, c.tail) = Top(table, b.tail)
    BY <1>9, SameTop DEF SameQueue, SameInfo
  <2> QED  BY <1>1, <2>1, RekeyedRanks, SameMembers DEF Mains
<1>11. /\ Mains \in SUBSET Producers /\ Backups \in SUBSET Producers /\ Mains \subseteq Rows(table)
       /\ Cardinality(Mains) = MainCount /\ Cardinality(Backups) = c.count
  <2>1. Cardinality(Top(U, c.tail) \ Top(U, M.tail)) = c.count /\ Cardinality(Top(U, M.tail)) = MainCount
    BY <1>2, <1>9, TopsNest DEF QueuesFit
  <2> QED  BY <1>10, <2>1, TopIsFinite DEF Mains, Backups
<1>12. ~ interrupted => /\ sched.fit /\ DOMAIN sched.backup = Backups
                        /\ sched.main = [q \in Mains |-> table[q].key]
  BY <1>1, SameMembers DEF Heads, Mains
<1>13. /\ p \in Mains <=> AtLeast(o, meq.tail)
       /\ ~ AtLeast(o, meq.tail) => p \in Backups
  <2>1. p \in Mains <=> AtLeast(o, meq.tail)
    BY <1>2 DEF Mains, Top
  <2> QED  BY <1>2, <2>1 DEF Backups, Top
<1>14. beq.prev # Refetch /\ beq.next # Refetch
  BY <1>1, <1>2, <1>7, RowInfo DEF SameQueue, SameInfo
<1>15. U[p].key = n.key /\ table[p].key = o.key
  BY DEF Info
<1>16. CASE AtLeast(o, meq.tail)
  <2>1. AtLeast(n, meq.tail)
    BY <1>7, <1>16, SameRanks, SameIsSame
  <2>2. Moved(Work, U, o, n) = StayInMain(Work, o, n)
    BY <1>5, <1>16, <2>1 DEF Moved
  <2>3. /\ v.m = M /\ SameQueue(v.b, beq) /\ v.bc = NoChanges
        /\ v.mc = IF n.key # o.key THEN ModifyChange(NoChanges, n) ELSE NoChanges
    BY <1>3, <1>4, <1>5, <1>6, <1>8, <1>14, <1>16, <2>2, MainRekeyed
  <2>4. SameQueue(v.b, c)
    BY <1>1, <1>9, <2>3, SameAgain
  <2>5. \/ v.mc = NoChanges /\ (p \in Mains => U[p].key = table[p].key)
        \/ v.mc = ModifyChange(NoChanges, n) /\ p \in Mains
    BY <1>13, <1>15, <1>16, <2>3
  <2>6. ASSUME ~ interrupted
        PROVE  /\ sched.fit /\ DOMAIN sched.backup = Backups
               /\ FitsIn(sched.main, v.mc, Cardinality(Mains)) /\ Apply(sched.main, v.mc) = [q \in Mains |-> U[q].key]
               /\ IsEmpty(v.mc) => sched.main = [q \in Mains |-> U[q].key]
               /\ FitsIn(sched.backup, v.bc, Cardinality(Backups)) /\ DOMAIN Apply(sched.backup, v.bc) = Backups
    <3>1. sched.fit /\ DOMAIN sched.backup = Backups /\ sched.main = [q \in Mains |-> table[q].key]
      BY <1>12, <2>6
    <3>2. FitsIn(sched.backup, v.bc, Cardinality(Backups)) /\ DOMAIN Apply(sched.backup, v.bc) = Backups
      BY <1>11, <2>3, <3>1, BackupKeyed
    <3>3. /\ FitsIn(sched.main, v.mc, Cardinality(Mains))
          /\ Apply(sched.main, v.mc) = [q \in Mains |-> U[q].key]
          /\ IsEmpty(v.mc) => sched.main = [q \in Mains |-> U[q].key]
      BY ONLY <1>11, <2>5, <3>1, n = Info(U, p), Rekeyed(table, U, p, k), MainKeyed
    <3> QED  BY <3>1, <3>2, <3>3
  <2> QED  BY <1>9, <1>10, <1>11, <2>3, <2>4, <2>6, KeyLeaves
<1>17. CASE ~ AtLeast(o, meq.tail)
  <2>1. ~ Above(n, meq.tail)
    BY <1>7, <1>17, SameRanks, SameIsSame DEF AtLeast
  <2>2. ~ AtLeast(n, meq.tail)
    BY <1>7, <1>17, SameRanks, SameIsSame
  <2>3. Moved(Work, U, o, n) = MoveInBackup(Work, o, n)
    BY <1>5, <1>17, <2>1 DEF Moved
  <2>4. /\ v.m = M /\ SameQueue(v.b, beq) /\ v.mc = NoChanges
        /\ v.bc = IF n.key # o.key THEN ModifyChange(NoChanges, n) ELSE NoChanges
    BY <1>1, <1>2, <1>3, <1>4, <1>5, <1>8, <1>17, <2>3, BackupRekeyed
  <2>5. SameQueue(v.b, c)
    BY <1>1, <1>9, <2>4, SameAgain
  <2>6. v.mc = NoChanges /\ (p \in Mains => U[p].key = table[p].key)
    BY <1>13, <1>17, <2>4
  <2>7. v.bc = NoChanges \/ (v.bc = ModifyChange(NoChanges, n) /\ n.name \in Backups)
    BY <1>7, <1>13, <1>17, <2>4
  <2>8. ASSUME ~ interrupted
        PROVE  /\ sched.fit /\ DOMAIN sched.backup = Backups
               /\ FitsIn(sched.main, v.mc, Cardinality(Mains)) /\ Apply(sched.main, v.mc) = [q \in Mains |-> U[q].key]
               /\ IsEmpty(v.mc) => sched.main = [q \in Mains |-> U[q].key]
               /\ FitsIn(sched.backup, v.bc, Cardinality(Backups)) /\ DOMAIN Apply(sched.backup, v.bc) = Backups
    <3>1. sched.fit /\ DOMAIN sched.backup = Backups /\ sched.main = [q \in Mains |-> table[q].key]
      BY <1>12, <2>8
    <3>2. FitsIn(sched.backup, v.bc, Cardinality(Backups)) /\ DOMAIN Apply(sched.backup, v.bc) = Backups
      BY <1>11, <2>7, <3>1, BackupKeyed
    <3>3. /\ FitsIn(sched.main, v.mc, Cardinality(Mains))
          /\ Apply(sched.main, v.mc) = [q \in Mains |-> U[q].key]
          /\ IsEmpty(v.mc) => sched.main = [q \in Mains |-> U[q].key]
      BY ONLY <1>11, <2>6, <3>1, n = Info(U, p), Rekeyed(table, U, p, k), MainKeyed
    <3> QED  BY <3>1, <3>2, <3>3
  <2> QED  BY <1>9, <1>10, <1>11, <2>4, <2>5, <2>8, KeyLeaves
<1> QED  BY <1>16, <1>17

\* and that of one below them.
LEMMA OutsiderLeaves ==
  ASSUME RegistrationInv, version = Enabled, NEW U, NEW p, NEW k, Rekeyed(table, U, p, k),
         NEW o, NEW n, o = Info(table, p), n = Info(U, p), ~ AtLeast(o, beq.tail),
         NEW v, v = Process(Work, U, o, n), v.ok
  PROVE  Leaves(v, U)
<1>1. PICK b : /\ SameQueue(beq, b) /\ QueuesFit(table, meq, b, maxBackup)
               /\ ~ interrupted => Heads(sched, table, meq, b)
  BY DEF RegistrationInv
<1>2. /\ maxBackup \in Nat /\ Settled(table) /\ Settled(U) /\ Rows(U) = Rows(table) /\ p \in Rows(table)
      /\ Shaped(Work)
  BY WorkIsShaped DEF RegistrationInv, Rekeyed
<1>3. Work.m = meq /\ Work.b = beq /\ Work.ok = TRUE
  BY WorkIs
<1>4. PlacedQueue(table, meq) /\ PlacedQueue(table, b) /\ Above(meq.next, b.prev)
  BY <1>1, <1>2, FitApart
<1>5. Around(o, n, meq) /\ SameInfo(o, n) /\ o.name = p /\ n.name = p
  BY <1>4, RekeyedOrder
<1>6. Around(o, n, b)
  BY <1>4, RekeyedOrder
<1>7. ~ AtLeast(o, b.tail)
  <2>1. SameInfo(beq.tail, b.tail) /\ SameInfo(o, o)
    BY <1>1, SameIsSame DEF SameQueue
  <2> QED  BY <2>1, SameRanks
<1>8. /\ ~ AtLeast(o, meq.tail)
      /\ p # meq.prev.name /\ p # meq.tail.name /\ p # meq.next.name
  BY ONLY <1>4, <1>5, <1>6, <1>7 DEF Around, AtLeast, Above, SameRank, Comparable
<1>9. v = Process(Work, U, n, n)
  <2>1. Moved(Work, U, o, n) = Moved(Work, U, n, n)
    BY <1>3, <1>5, <1>8, OutsideRekeyed
  <2> QED  BY <2>1, Zenon DEF Process
<1>10. PICK M, c : M = KeyedQueue(U, meq) /\ c = KeyedQueue(U, b)
  OBVIOUS
<1>11. QueuesFit(U, M, c, maxBackup) /\ SameQueue(meq, M) /\ SameQueue(b, c)
  BY <1>1, <1>10, RekeyedFit
<1>12. M = meq
  <2>1. NextTo(table, meq.prev, meq.tail) /\ NextTo(table, meq.tail, meq.next)
    BY <1>4 DEF PlacedQueue
  <2>2. Info(U, meq.prev.name) = meq.prev /\ Info(U, meq.tail.name) = meq.tail
    BY <1>8, <2>1, RekeyedNext
  <2>3. Info(U, meq.next.name) = meq.next
    BY <1>8, <2>1, RekeyedNext
  <2>4. meq \in QueueType
    BY <1>1 DEF QueuesFit
  <2> QED  BY ONLY <1>10, <2>2, <2>3, <2>4 DEF KeyedQueue, QueueType
<1>13. SameQueue(beq, c) /\ QueuesFit(U, meq, c, maxBackup)
  BY <1>1, <1>11, <1>12, SameAgain
<1>14. Top(U, meq.tail) = Mains /\ Top(U, c.tail) \ Top(U, meq.tail) = Backups
  <2>1. Top(table, c.tail) = Top(table, b.tail)
    BY <1>11, SameTop DEF SameQueue, SameInfo
  <2> QED  BY <1>1, <2>1, RekeyedRanks, SameMembers DEF Mains
<1>15. PICK K, x : /\ K = KeysOf(U)
                   /\ x = [m |-> meq, b |-> c, mc |-> NoChanges, bc |-> NoChanges, ok |-> TRUE]
  OBVIOUS
<1>16. /\ Shaped(x) /\ Placed(U, x) /\ Fitting(U, x, K, Mains, Backups) /\ Twins(Work, x)
       /\ Under(U, K)
  <2>1. Shaped(x) /\ Placed(U, x) /\ Fitting(U, x, K, Mains, Backups)
    BY <1>13, <1>14, <1>15, WorkFitsAtFirst
  <2> QED  BY <1>2, <1>13, <1>15, <2>1, WorkTwin, KeysUnder
<1>17. PICK y : y = Process(x, U, Info(U, p), Info(U, p))
  OBVIOUS
<1>18. Steps(U, U, p, x, K, Mains, Backups)
  BY <1>2, <1>16 DEF Steps, Moves
<1>19. Fitting(U, y, K, Mains, Backups) /\ Placed(U, y)
  BY <1>17, <1>18, ProcessKeeps
<1>20. Twins(v, y)
  BY <1>2, <1>9, <1>16, <1>17, ProcessTwins
<1>21. v.m = y.m /\ SameQueue(v.b, y.b) /\ QueuesFit(U, y.m, y.b, maxBackup)
  BY <1>19, <1>20, WorkFits DEF Twins
<1>22. Mains \in SUBSET Producers /\ Backups \in SUBSET Producers /\ Mains \subseteq Rows(table)
  BY TopIsFinite DEF Mains, Backups
<1>23. ASSUME ~ interrupted
       PROVE  /\ Heads(AppliedTo(sched, v), U, y.m, y.b)
              /\ IsEmpty(v.mc) /\ IsEmpty(v.bc) => Heads(sched, U, y.m, y.b)
  <2>1. sched.fit /\ sched.main = [q \in Mains |-> table[q].key] /\ DOMAIN sched.backup = Backups
    BY <1>1, <1>23, SameMembers DEF Heads, Mains
  <2>2. p \notin Mains
    BY <1>8 DEF Mains, Top
  <2>3. \A q \in Mains : table[q].key = K[q]
    BY <1>15, <1>22, <2>2 DEF KeysOf, Rekeyed
  <2>4. sched.main = [q \in Mains |-> K[q]]
    BY <2>1, <2>3
  <2> QED  BY ONLY <1>2, <1>16, <1>19, <1>20, <1>22, <2>1, <2>4, AppliedHeads
<1> QED  BY <1>21, <1>23 DEF Leaves

\* A producer who registers again keeps the invariant.
LEMMA RekeyingKeepsHeads ==
  ASSUME RegistrationInv, NEW p \in Producers, NEW k \in Keys, Reregister(p, k)
  PROVE  RegistrationInv'
<1>1. PICK U, o, n : U = [table EXCEPT ![p] = Row(@.votes, k)] /\ o = Info(table, p) /\ n = Info(U, p)
  OBVIOUS
<1>2. table[p].registered /\ Settled(table)
  BY DEF Reregister, RegistrationInv
<1>3. Rekeyed(table, U, p, k)
  BY <1>1, <1>2, ReregisteredIs
<1>4. Settled(U) /\ \A c \in Rows(U) : U[c].votes >= 0
  BY <1>3 DEF Rekeyed, RegistrationInv
<1>5. CASE version # Enabled
  <2>1. /\ table' = U /\ version' = version /\ maxBackup' = maxBackup /\ minVotes' = minVotes
        /\ meq' = meq /\ beq' = beq /\ interrupted' = interrupted /\ sched' = sched
    BY <1>1, <1>5 DEF Reregister, config
  <2> QED  BY <1>4, <1>5, <2>1 DEF RegistrationInv
<1>6. CASE version = Enabled
  <2>1. PICK v : v = Process(Work, U, o, n) /\ v.ok /\ Save(v, U)
    BY <1>1, <1>6 DEF Reregister
  <2>2. Shaped(v)
    BY <2>1, WorkIsShaped, ProcessResizes
  <2>3. Leaves(v, U)
    <3>1. CASE AtLeast(o, beq.tail)
      <4>1. PICK X : Work \in WorkIn(X, ChangesOf(X))
        BY WorkIsShaped DEF Shaped
      <4>2. [Work EXCEPT !.ok = FALSE].ok = FALSE
        BY <4>1 DEF WorkIn
      <4>3. v = Refetched(Moved(Work, U, o, n), U)
        BY <2>1, <4>2 DEF Process
      <4> QED  BY <1>1, <1>3, <1>6, <3>1, <4>3, MemberLeaves
    <3>2. CASE ~ AtLeast(o, beq.tail)
      BY <1>1, <1>3, <1>6, <2>1, <3>2, OutsiderLeaves
    <3> QED  BY <3>1, <3>2
  <2>4. PICK c : /\ SameQueue(v.b, c) /\ QueuesFit(U, v.m, c, maxBackup)
                 /\ ~ interrupted => /\ Heads(AppliedTo(sched, v), U, v.m, c)
                                     /\ IsEmpty(v.mc) /\ IsEmpty(v.bc) => Heads(sched, U, v.m, c)
    BY <2>3 DEF Leaves
  <2>5. /\ interrupted' \in BOOLEAN
        /\ sched'.fit /\ DOMAIN sched'.main \cap DOMAIN sched'.backup = {}
        /\ \E X : Refetch \in X /\ meq' \in QueueIn(X) /\ beq' \in QueueIn(X)
        /\ version = Enabled =>
             \E d : /\ SameQueue(beq', d) /\ QueuesFit(U, meq', d, maxBackup)
                    /\ ~ interrupted' => Heads(sched', U, meq', d)
    BY <1>4, <1>6, <2>1, <2>2, <2>4, SaveKeepsHeads
  <2>6. table' = U /\ version' = version /\ maxBackup' = maxBackup /\ minVotes' = minVotes
    BY <2>1 DEF Save, config
  <2> QED  BY <1>4, <2>5, <2>6 DEF RegistrationInv
<1> QED  BY <1>5, <1>6

\* Before anything else.
LEMMA RegistrationStarts ==
  ASSUME Init
  PROVE  RegistrationInv
<1>1. PICK k \in Keys : table = [p \in Producers |->
                                   IF p \in DOMAIN InitialVotes THEN Row(InitialVotes[p], k) ELSE NoRow]
  BY DEF Init
<1>2. ASSUME NEW p \in Producers
      PROVE  /\ table[p] \in RowType
             /\ table[p].registered => table[p].active /\ table[p].votes >= 0
  <2>1. CASE p \in DOMAIN InitialVotes
    <3>1. InitialVotes[p] \in Int /\ InitialVotes[p] >= 0 /\ table[p] = Row(InitialVotes[p], k)
      BY <1>1, <2>1, QueueAssumption DEF QueueAssumption
    <3> QED  BY <3>1 DEF Row, RowType
  <2>2. CASE p \notin DOMAIN InitialVotes
    <3>1. table[p] = NoRow
      BY <1>1, <2>2
    <3> QED  BY <3>1 DEF NoRow, RowType
  <2> QED  BY <2>1, <2>2
<1>3. table \in [Producers -> RowType]
  BY <1>1, <1>2
<1>4. Settled(table) /\ \A p \in Rows(table) : table[p].votes >= 0
  BY <1>2, <1>3 DEF Settled, Rows
<1>5. /\ version = Uninit /\ version # Enabled /\ minVotes \in Nat \ {0}
      /\ maxBackup \in Nat /\ maxBackup >= MinBackup /\ interrupted = FALSE /\ sched = NoSchedule
  BY QueueAssumption DEF Init, QueueAssumption, Uninit, Enabled
<1>6. sched.fit /\ DOMAIN sched.main \cap DOMAIN sched.backup = {}
  BY <1>5 DEF NoSchedule
<1>7. NoQueue \in QueueIn({Refetch, NoInfo}) /\ meq = NoQueue /\ beq = NoQueue
  BY DEF NoQueue, QueueIn, Init
<1>8. \E X : Refetch \in X /\ meq \in QueueIn(X) /\ beq \in QueueIn(X)
  BY <1>7
<1> QED  BY <1>4, <1>5, <1>6, <1>8 DEF RegistrationInv

\* initbbpelect keeps the invariant.
LEMMA EnablingKeepsHeads ==
  ASSUME RegistrationInv, NEW max \in MaxBackups, InitBbpElect(max)
  PROVE  RegistrationInv'
<1>1. max \in Nat /\ max >= MinBackup /\ MinBackup \in Nat
  BY QueueAssumption DEF QueueAssumption
<1>2. /\ table' = table /\ minVotes' = minVotes /\ interrupted' = interrupted
      /\ version' = Enabled /\ maxBackup' = max
  BY DEF InitBbpElect
<1>3. CASE NeedReinit(max)
  <2>1. /\ CanReinit(table) /\ Settled(table)
        /\ meq' = InitialMain(table) /\ beq' = InitialBackup(table) /\ sched' = InitialSchedule(table)
    BY <1>3 DEF InitBbpElect, RegistrationInv
  <2>2. QueuesFit(table, meq', beq', MinBackup) /\ Follows(sched', table, meq', beq')
    BY <2>1, ReinitFits
  <2>3. QueuesFit(table', meq', beq', maxBackup') /\ SameQueue(beq', beq')
    BY <1>1, <1>2, <2>2, SameIsSame DEF QueuesFit, SameQueue
  <2>4. Heads(sched', table', meq', beq')
    BY <1>2, <2>2 DEF Follows, Heads
  <2>5. sched'.fit /\ DOMAIN sched'.main \cap DOMAIN sched'.backup = {}
    BY <2>2, FollowingIsApart
  <2>6. \E X : Refetch \in X /\ meq' \in QueueIn(X) /\ beq' \in QueueIn(X)
    BY <2>1, QueueAtIs
  <2> QED  BY <1>1, <1>2, <2>3, <2>4, <2>5, <2>6 DEF RegistrationInv
<1>4. CASE ~ NeedReinit(max)
  <2>1. meq' = meq /\ beq' = beq /\ sched' = sched
    BY <1>4 DEF InitBbpElect
  <2>2. version = Enabled /\ ~ (max < maxBackup)
    BY <1>4 DEF NeedReinit, RegistrationInv, Uninit, Disabled, Enabled
  <2>3. PICK b : /\ SameQueue(beq, b) /\ QueuesFit(table, meq, b, maxBackup)
                 /\ ~ interrupted => Heads(sched, table, meq, b)
    BY <2>2 DEF RegistrationInv
  <2>4. QueuesFit(table, meq, b, max)
    BY <1>1, <2>2, <2>3 DEF QueuesFit, RegistrationInv
  <2>5. /\ Settled(table) /\ (\A p \in Rows(table) : table[p].votes >= 0)
        /\ minVotes \in Nat \ {0} /\ interrupted \in BOOLEAN
        /\ sched.fit /\ DOMAIN sched.main \cap DOMAIN sched.backup = {}
        /\ \E X : Refetch \in X /\ meq \in QueueIn(X) /\ beq \in QueueIn(X)
    BY DEF RegistrationInv
  <2> QED  BY <1>1, <1>2, <2>1, <2>3, <2>4, <2>5 DEF RegistrationInv
<1> QED  BY <1>3, <1>4

\* Votes, settings, the enabling of elections, producers who register behind the
\* queues and who change their keys keep the queues placed and sized up to the
\* keys of the backup copies, and the schedule with the right members.
THEOREM RegistrationInvHolds == RegistrationSpec => []RegistrationInv
<1>1. Init => RegistrationInv
  BY RegistrationStarts
<1>2. RegistrationInv /\ [Voting \/ Configuring \/ RegisteringBehind]_vars => RegistrationInv'
  <2> SUFFICES ASSUME RegistrationInv, [Voting \/ Configuring \/ RegisteringBehind]_vars
               PROVE  RegistrationInv'
    OBVIOUS
  <2>1. CASE Voting
    BY <2>1, VoteKeepsHeads
  <2>2. CASE RegisteringBehind
    BY <2>2, JoiningKeepsHeads, RekeyingKeepsHeads DEF RegisteringBehind
  <2>3. CASE UpgradeVote
    BY <2>3 DEF UpgradeVote, RegistrationInv, Disabled, Enabled
  <2>4. ASSUME NEW n \in MinVotes, SetMinProducerVotes(n)
        PROVE  RegistrationInv'
    <3>1. n \in Nat \ {0}
      BY QueueAssumption DEF QueueAssumption
    <3> QED  BY <2>4, <3>1 DEF SetMinProducerVotes, RegistrationInv
  <2>5. ASSUME NEW max \in MaxBackups, InitBbpElect(max)
        PROVE  RegistrationInv'
    BY <2>5, EnablingKeepsHeads
  <2>6. CASE UNCHANGED vars
    BY <2>6 DEF vars, RegistrationInv
  <2> QED  BY <2>1, <2>2, <2>3, <2>4, <2>5, <2>6 DEF Configuring
<1> QED  BY <1>1, <1>2, PTL DEF RegistrationSpec

\* Producers who register behind the queues or change their keys leave the copies
\* at their places: whatever is patched together is what a fresh scan of the index
\* would read, up to the keys (voting.cpp:1013-1298).
THEOREM QueuesKeepTheirRows == RegistrationSpec => []QueueRows
<1>1. RegistrationInv => QueueRows
  <2> SUFFICES ASSUME RegistrationInv, version = Enabled PROVE
        /\ meq.count = MainCount
        /\ SameRow(meq.prev, InfoAt(table, MainLast - 1))
        /\ SameRow(meq.tail, InfoAt(table, MainLast))
        /\ SameRow(meq.next, InfoAt(table, MainLast + 1))
        /\ SameRow(beq.prev, InfoAt(table, BackupLast - 1))
        /\ SameRow(beq.tail, InfoAt(table, BackupLast))
        /\ SameRow(beq.next, InfoAt(table, BackupLast + 1))
    BY DEF QueueRows, BbpEnabled
  <2>1. PICK b : SameQueue(beq, b) /\ QueuesFit(table, meq, b, maxBackup)
    BY DEF RegistrationInv
  <2>2. /\ PlacedQueue(table, meq) /\ PlacedQueue(table, b) /\ meq.count = MainCount
        /\ Cardinality(Top(table, meq.tail)) = MainLast
        /\ Cardinality(Top(table, b.tail)) = BackupLast
        /\ Settled(table)
    BY <2>1 DEF QueuesFit, MainLast, BackupLast, SameQueue, RegistrationInv
  <2>3. /\ meq.tail = InfoAt(table, MainLast) /\ meq.prev = InfoAt(table, MainLast - 1)
        /\ meq.next = InfoAt(table, MainLast + 1)
    BY <2>2, TailRank
  <2>4. /\ b.tail = InfoAt(table, BackupLast) /\ b.prev = InfoAt(table, BackupLast - 1)
        /\ b.next = InfoAt(table, BackupLast + 1)
    BY <2>2, TailRank
  <2>5. SameInfo(beq.prev, b.prev) /\ SameInfo(beq.tail, b.tail) /\ SameInfo(beq.next, b.next)
    BY <2>1 DEF SameQueue
  <2> QED  BY <2>2, <2>3, <2>4, <2>5 DEF SameInfo, SameRow
<1> QED  BY <1>1, RegistrationInvHolds, PTL

\* The changes emitted meanwhile add up to the right producers, the main ones
\* under current keys.
THEOREM ScheduleHasTheMembers == RegistrationSpec => []ScheduleMembersAreTop
<1>1. RegistrationInv => ScheduleMembersAreTop
  <2> SUFFICES ASSUME RegistrationInv, version = Enabled, ~ interrupted PROVE
        /\ sched.fit
        /\ sched.main = RankedKeys(table, 1, MainLast)
        /\ DOMAIN sched.backup = DOMAIN RankedKeys(table, MainLast + 1, BackupLast)
    BY DEF ScheduleMembersAreTop, BbpEnabled
  <2>1. PICK b : /\ SameQueue(beq, b) /\ QueuesFit(table, meq, b, maxBackup)
                 /\ Heads(sched, table, meq, b)
    BY DEF RegistrationInv
  <2>2. /\ PlacedQueue(table, meq) /\ PlacedQueue(table, b)
        /\ Cardinality(Top(table, meq.tail)) = MainLast
        /\ Cardinality(Top(table, b.tail)) = BackupLast
        /\ Settled(table)
    BY <2>1 DEF QueuesFit, MainLast, BackupLast, SameQueue, RegistrationInv
  <2>3. {p \in Rows(table) : RankOf(table, p) \in 1 .. MainLast} = Top(table, meq.tail)
    BY <2>2, TailRank
  <2>4. {p \in Rows(table) : RankOf(table, p) \in 1 .. BackupLast} = Top(table, b.tail)
    BY <2>2, TailRank
  <2>5. {p \in Rows(table) : RankOf(table, p) \in MainLast + 1 .. BackupLast}
          = Top(table, b.tail) \ Top(table, meq.tail)
    <3>1. \A p \in Rows(table) : RankOf(table, p) \in Nat \ {0}
      BY RankType
    <3>2. MainLast \in Nat /\ BackupLast \in Nat
      BY <2>2, TopIsFinite
    <3>3. \A p \in Rows(table) : RankOf(table, p) \in MainLast + 1 .. BackupLast <=>
            RankOf(table, p) \in 1 .. BackupLast /\ ~ (RankOf(table, p) \in 1 .. MainLast)
      BY <3>1, <3>2
    <3> QED  BY <2>3, <2>4, <3>3
  <2> QED  BY <2>1, <2>3, <2>5 DEF Heads, RankedKeys
<1> QED  BY <1>1, RegistrationInvHolds, PTL

\* Nobody is scheduled twice and every change fits, as long as those who register
\* come behind the queues.
THEOREM ScheduleStaysConsistent == RegistrationSpec => []ScheduleConsistent
<1>1. RegistrationInv => ScheduleConsistent
  BY DEF RegistrationInv, ScheduleConsistent
<1> QED  BY <1>1, RegistrationInvHolds, PTL

\* No check of the queue ever refuses a vote then.
THEOREM QueueNeverRefusesVotes == RegistrationSpec => []VotesNeverRefused
<1>1. RegistrationInv => VotesNeverRefused
  <2> SUFFICES ASSUME RegistrationInv, version = Enabled, NEW p \in Rows(table), NEW n \in 0 .. MaxVotes
               PROVE  UpdateOne(Start, p, n - table[p].votes).w.ok
    BY DEF VotesNeverRefused, BbpEnabled
  <2> DEFINE d == n - table[p].votes
             U == Voted(table, p, d)
             K == KeysOf(table)
             o == Info(table, p)
             i == Info(U, p)
  <2>1. Settled(table) /\ Under(table, K) /\ maxBackup \in Nat
    BY KeysUnder DEF RegistrationInv
  <2>2. p \in Producers /\ n \in Int /\ n >= 0 /\ table[p].votes \in Int /\ d \in Int
    BY <2>1, RowsAreFinite, InfoIs, QueueAssumption DEF QueueAssumption
  <2>3. /\ Settled(U) /\ Under(U, K) /\ Rows(U) = Rows(table)
        /\ U[p].votes = table[p].votes + d /\ Moves(table, U, p)
    <3> HIDE DEF d, K
    <3> QED  BY <2>1, <2>2, VotesChanged
  <2>4. VotesAllowed(U[p])
    <3>1. U[p].registered
      BY <2>3 DEF Rows
    <3> HIDE DEF U
    <3> QED  BY <2>2, <2>3, <3>1 DEF VotesAllowed
  <2>5. UpdateOne(Start, p, d).w = Process(Work, U, o, i)
    BY <2>4 DEF UpdateOne, Start, Voted
  <2> HIDE DEF U, K, d, o, i
  <2>6. PICK b : SameQueue(beq, b) /\ QueuesFit(table, meq, b, maxBackup)
    BY DEF RegistrationInv
  <2>7. PICK x : x = [m |-> meq, b |-> b, mc |-> NoChanges, bc |-> NoChanges, ok |-> TRUE]
    OBVIOUS
  <2>8. PICK M, B : M = Top(table, meq.tail) /\ B = Top(table, b.tail) \ Top(table, meq.tail)
    OBVIOUS
  <2>9. Shaped(x) /\ Placed(table, x) /\ Fitting(table, x, K, M, B)
    BY <2>6, <2>7, <2>8, WorkFitsAtFirst
  <2>10. Twins(Work, x) /\ Shaped(Work)
    BY <2>6, <2>7, WorkTwin, WorkIsShaped
  <2>11. M \in SUBSET Producers /\ B \in SUBSET Producers
    BY <2>8, TopIsFinite
  <2>12. Steps(table, U, p, x, K, M, B)
    BY <2>1, <2>3, <2>9 DEF Steps
  <2>13. Fitting(U, Process(x, U, o, i), K, M, B)
    BY <2>12, ProcessKeeps DEF o, i
  <2>14. Twins(Process(Work, U, o, i), Process(x, U, o, i))
    BY <2>3, <2>9, <2>10, ProcessTwins
  <2> QED  BY <2>5, <2>13, <2>14 DEF Fitting, Twins, d
<1> QED  BY <1>1, RegistrationInvHolds, PTL
=============================================================================
