-------------------------- MODULE ChangeLogProofs ---------------------------
(***************************************************************************)
(* Theorems about ChangeLog, for any finite set of producers, any          *)
(* schedules with members, and batches of any size.  The rows of the log   *)
(* are well formed and lie in the order they were saved in.  Merging a     *)
(* batch never aborts and means what its rows mean one after another, so   *)
(* that what was told and what is still stored add up to the elected       *)
(* schedule, and the log implements ScheduleFeed.                          *)
(***************************************************************************)
EXTENDS ChangeLog, Sums, SequenceTheorems

LogInv == TypeOK /\ LogOrdered

-----------------------------------------------------------------------------
(* Induction over the rows of a log.                                       *)

\* A set that has 0 and with each number of an interval the next one has the
\* whole interval: the first numbers without the set would have a least one.
LEMMA IntervalInduction ==
  ASSUME NEW L \in Nat, NEW T, 0 \in T, \A n \in 0 .. L - 1 : n \in T => n + 1 \in T
  PROVE  \A n \in 0 .. L : n \in T
<1> SUFFICES ASSUME \E n \in 0 .. L : n \notin T PROVE FALSE
  OBVIOUS
<1> DEFINE Missing == {0 .. n : n \in {k \in 0 .. L : k \notin T}}
<1>1. Missing \in SUBSET (SUBSET (0 .. L)) /\ Missing # {}
  OBVIOUS
<1>2. IsFiniteSet(0 .. L)
  BY FS_Interval
<1> HIDE DEF Missing
<1>3. PICK I \in Missing : \A U \in SUBSET I : U # I => U \notin Missing
  BY <1>1, <1>2, SmallestSubset
<1> USE DEF Missing
<1>4. PICK n \in 0 .. L : n \notin T /\ I = 0 .. n
  BY <1>3
<1>5. n - 1 \in 0 .. L - 1 /\ n # 0
  BY <1>4
<1>6. n - 1 \notin T
  <2>1. (n - 1) + 1 = n
    BY <1>5
  <2> QED BY <2>1, <1>4, <1>5
<1>7. 0 .. n - 1 \in SUBSET I /\ 0 .. n - 1 # I
  BY <1>4, <1>5
<1>8. 0 .. n - 1 \in Missing
  BY <1>5, <1>6
<1> QED BY <1>3, <1>7, <1>8

-----------------------------------------------------------------------------
(* The two recursive functions over the rows satisfy their equations.      *)

IsAfter(f, s, rows, seq, L) ==
  f = [n \in 0 .. L |->
         IF n = 0 THEN s
         ELSE Led(f[n - 1], rows[n], seq)]

LEMMA AfterExists ==
  ASSUME NEW s, NEW rows, NEW seq, NEW L \in Nat
  PROVE  \E f : IsAfter(f, s, rows, seq, L)
<1> DEFINE T == {m \in 0 .. L : \E f : IsAfter(f, s, rows, seq, m)}
<1>1. 0 \in T
  <2> DEFINE f == [n \in 0 .. 0 |-> s]
  <2>1. IsAfter(f, s, rows, seq, 0)
    BY DEF IsAfter
  <2> QED BY <2>1
<1>2. ASSUME NEW m \in 0 .. L - 1, m \in T PROVE m + 1 \in T
  <2>1. PICK f : IsAfter(f, s, rows, seq, m)
    BY <1>2
  <2> DEFINE g == [n \in 0 .. m + 1 |-> IF n = 0 THEN s ELSE Led(f[n - 1], rows[n], seq)]
  <2>2. \A n \in 0 .. m : g[n] = f[n]
    BY <2>1 DEF IsAfter
  <2>3. \A n \in 1 .. m + 1 : n - 1 \in 0 .. m
    OBVIOUS
  <2>4. \A n \in 1 .. m + 1 : g[n - 1] = f[n - 1]
    BY <2>2, <2>3
  <2>5. IsAfter(g, s, rows, seq, m + 1)
    <3>1. \A n \in 1 .. m + 1 : Led(f[n - 1], rows[n], seq) = Led(g[n - 1], rows[n], seq)
      BY <2>4
    <3>2. \A n \in 0 .. m + 1 : n = 0 \/ n \in 1 .. m + 1
      OBVIOUS
    <3> QED BY <3>1, <3>2 DEF IsAfter
  <2>6. m + 1 \in 0 .. L
    OBVIOUS
  <2> QED BY <2>5, <2>6
<1> HIDE DEF T
<1>3. L \in T
  BY <1>1, <1>2, IntervalInduction
<1> QED BY <1>3 DEF T

\* The schedule after n rows, row by row.
LEMMA AfterIs ==
  ASSUME NEW s, NEW rows, NEW seq, Len(rows) \in Nat
  PROVE  /\ After(s, rows, seq)[0] = s
         /\ \A n \in 1 .. Len(rows) :
              After(s, rows, seq)[n] = Led(After(s, rows, seq)[n - 1], rows[n], seq)
<1> DEFINE A == After(s, rows, seq)
<1>1. A = CHOOSE f : IsAfter(f, s, rows, seq, Len(rows))
  BY DEF After, IsAfter
<1>2. IsAfter(A, s, rows, seq, Len(rows))
  BY <1>1, AfterExists
<1> HIDE DEF A
<1>3. A[0] = s
  BY <1>2 DEF IsAfter
<1>4. ASSUME NEW n \in 1 .. Len(rows)
      PROVE  A[n] = Led(A[n - 1], rows[n], seq)
  BY <1>2 DEF IsAfter
<1> QED BY <1>3, <1>4 DEF A

IsMerged(f, rows, seq, L) ==
  f = [n \in 0 .. L |->
         IF n = 0 THEN NoProposal
         ELSE WithRow(f[n - 1], rows[n], seq)]

LEMMA MergedExists ==
  ASSUME NEW rows, NEW seq, NEW L \in Nat
  PROVE  \E f : IsMerged(f, rows, seq, L)
<1> DEFINE T == {m \in 0 .. L : \E f : IsMerged(f, rows, seq, m)}
<1>1. 0 \in T
  <2> DEFINE f == [n \in 0 .. 0 |-> NoProposal]
  <2>1. IsMerged(f, rows, seq, 0)
    BY DEF IsMerged
  <2> QED BY <2>1
<1>2. ASSUME NEW m \in 0 .. L - 1, m \in T PROVE m + 1 \in T
  <2>1. PICK f : IsMerged(f, rows, seq, m)
    BY <1>2
  <2> DEFINE g == [n \in 0 .. m + 1 |-> IF n = 0 THEN NoProposal ELSE WithRow(f[n - 1], rows[n], seq)]
  <2>2. \A n \in 0 .. m : g[n] = f[n]
    BY <2>1 DEF IsMerged
  <2>3. \A n \in 1 .. m + 1 : n - 1 \in 0 .. m
    OBVIOUS
  <2>4. \A n \in 1 .. m + 1 : g[n - 1] = f[n - 1]
    BY <2>2, <2>3
  <2>5. IsMerged(g, rows, seq, m + 1)
    <3>1. \A n \in 1 .. m + 1 : WithRow(f[n - 1], rows[n], seq) = WithRow(g[n - 1], rows[n], seq)
      BY <2>4
    <3>2. \A n \in 0 .. m + 1 : n = 0 \/ n \in 1 .. m + 1
      OBVIOUS
    <3> QED BY <3>1, <3>2 DEF IsMerged
  <2>6. m + 1 \in 0 .. L
    OBVIOUS
  <2> QED BY <2>5, <2>6
<1> HIDE DEF T
<1>3. L \in T
  BY <1>1, <1>2, IntervalInduction
<1> QED BY <1>3 DEF T

\* What the first n rows merge into, row by row.
LEMMA MergedIs ==
  ASSUME NEW rows, NEW seq, Len(rows) \in Nat
  PROVE  /\ Merged(rows, seq)[0] = NoProposal
         /\ \A n \in 1 .. Len(rows) :
              Merged(rows, seq)[n] = WithRow(Merged(rows, seq)[n - 1], rows[n], seq)
<1> DEFINE M == Merged(rows, seq)
<1>1. M = CHOOSE f : IsMerged(f, rows, seq, Len(rows))
  BY DEF Merged, IsMerged
<1>2. IsMerged(M, rows, seq, Len(rows))
  BY <1>1, MergedExists
<1> HIDE DEF M
<1>3. M[0] = NoProposal
  BY <1>2 DEF IsMerged
<1>4. ASSUME NEW n \in 1 .. Len(rows)
      PROVE  M[n] = WithRow(M[n - 1], rows[n], seq)
  BY <1>2 DEF IsMerged
<1> QED BY <1>3, <1>4 DEF M

\* One step of each, without the set of one.
LEMMA LedIs ==
  ASSUME NEW before, NEW row, NEW seq
  PROVE  Led(before, row, seq) =
           IF row.seq = seq THEN Applied(before, row.changes) ELSE before
<1>1. {Applied(s, row.changes) : s \in {before}} = {Applied(before, row.changes)}
  OBVIOUS
<1>2. The({Applied(before, row.changes)}) = Applied(before, row.changes)
  BY DEF The
<1> QED BY <1>1, <1>2 DEF Led

LEMMA WithRowIs ==
  ASSUME NEW merged, NEW row, NEW seq
  PROVE  WithRow(merged, row, seq) =
           IF row.seq = seq THEN Merge(row.changes, merged) ELSE merged
<1>1. {Merge(row.changes, earlier) : earlier \in {merged}} = {Merge(row.changes, merged)}
  OBVIOUS
<1>2. The({Merge(row.changes, merged)}) = Merge(row.changes, merged)
  BY DEF The
<1> QED BY <1>1, <1>2 DEF WithRow, Counts

-----------------------------------------------------------------------------
(* Changes of one queue.  Those that match the keys they are applied to:   *)
(* none adds a member, modifies or removes one who is not.                 *)

Matches(keys, changes) ==
  \A p \in Producers :
    /\ changes[p].op = "add" => p \notin DOMAIN keys
    /\ changes[p].op \in {"modify", "del"} => p \in DOMAIN keys

\* A change is one of four.
LEMMA ChangeForms ==
  ASSUME NEW c \in Changes
  PROVE  \/ c.op = "none" /\ c = None
         \/ c.op = "del" /\ c = Del
         \/ c.op = "add" /\ c.key \in Keys /\ c = Add(c.key)
         \/ c.op = "modify" /\ c.key \in Keys /\ c = Modify(c.key)
BY DEF Changes, None, Del, Add, Modify

LEMMA FormsAreChanges ==
  /\ None \in Changes /\ Del \in Changes
  /\ \A k \in Keys : Add(k) \in Changes /\ Modify(k) \in Changes
BY DEF Changes

\* Their fields.
LEMMA FieldsOfForms ==
  /\ None.op = "none" /\ Del.op = "del"
  /\ \A k : /\ Add(k).op = "add" /\ Add(k).key = k
            /\ Modify(k).op = "modify" /\ Modify(k).key = k
BY DEF None, Del, Add, Modify

LEMMA MemberKeys ==
  ASSUME NEW keys \in Members
  PROVE  /\ DOMAIN keys \subseteq Producers
         /\ keys = [p \in DOMAIN keys |-> keys[p]]
         /\ \A p \in DOMAIN keys : keys[p] \in Keys
BY DEF Members

LEMMA NobodyIsMembers == <<>> \in Members /\ DOMAIN <<>> = {}
<1>1. DOMAIN <<>> = {}
  OBVIOUS
<1>2. <<>> = [p \in {} |-> 0]
  OBVIOUS
<1>3. <<>> \in [{} -> Keys]
  BY <1>2
<1>4. {} \in SUBSET Producers
  OBVIOUS
<1> QED BY <1>1, <1>3, <1>4 DEF Members

\* Members with the same keys are the same.
LEMMA SameMembers ==
  ASSUME NEW keys \in Members, NEW others \in Members,
         \A p \in Producers : p \in DOMAIN keys <=> p \in DOMAIN others,
         \A p \in DOMAIN keys : keys[p] = others[p]
  PROVE  keys = others
<1>1. DOMAIN keys \subseteq Producers /\ DOMAIN others \subseteq Producers
  BY MemberKeys
<1>2. DOMAIN keys = DOMAIN others
  BY <1>1
<1>3. keys = [p \in DOMAIN keys |-> keys[p]] /\ others = [p \in DOMAIN others |-> others[p]]
  BY MemberKeys
<1> QED BY <1>2, <1>3

\* The members after changes, and their keys.
LEMMA ApplyAt ==
  ASSUME NEW keys, NEW changes
  PROVE  /\ \A p \in Producers :
              p \in DOMAIN Apply(keys, changes) <=>
                \/ changes[p].op \in {"add", "modify"}
                \/ changes[p].op = "none" /\ p \in DOMAIN keys
         /\ DOMAIN Apply(keys, changes) \subseteq Producers
         /\ \A p \in DOMAIN Apply(keys, changes) :
              Apply(keys, changes)[p] =
                IF changes[p].op = "none" THEN keys[p] ELSE changes[p].key
BY DEF Apply

LEMMA ApplyTyped ==
  ASSUME NEW keys \in Members, NEW changes \in KeyMaps
  PROVE  Apply(keys, changes) \in Members
<1> DEFINE P == DOMAIN Apply(keys, changes)
<1>1. P \in SUBSET Producers
  BY ApplyAt
<1>2. ASSUME NEW p \in P PROVE Apply(keys, changes)[p] \in Keys
  <2>1. p \in Producers
    BY <1>1
  <2>2. changes[p] \in Changes
    BY <2>1 DEF KeyMaps
  <2>3. Apply(keys, changes)[p] = IF changes[p].op = "none" THEN keys[p] ELSE changes[p].key
    BY ApplyAt
  <2>4. CASE changes[p].op = "none"
    <3>1. p \in DOMAIN keys
      BY <2>1, <2>4, ApplyAt
    <3> QED BY <2>3, <2>4, <3>1, MemberKeys
  <2>5. CASE changes[p].op # "none"
    <3>1. changes[p].op \in {"add", "modify"}
      BY <2>1, <2>5, ApplyAt
    <3>2. changes[p].key \in Keys
      BY <2>2, <3>1, ChangeForms
    <3> QED BY <2>3, <2>5, <3>2
  <2> QED BY <2>4, <2>5
<1>3. Apply(keys, changes) = [p \in P |-> Apply(keys, changes)[p]]
  BY DEF Apply
<1>4. Apply(keys, changes) \in [P -> Keys]
  BY <1>2, <1>3
<1> QED BY <1>1, <1>4 DEF Members

\* What FitsIn means: the changes match, and the count is that of the members
\* they lead to.
LEMMA FitsInMeans ==
  ASSUME NEW keys \in Members, NEW changes \in KeyMaps, NEW count
  PROVE  FitsIn(keys, changes, count) <=>
           Matches(keys, changes) /\ Cardinality(DOMAIN Apply(keys, changes)) = count
<1> DEFINE added   == {p \in Producers : changes[p].op = "add"}
           removed == {p \in Producers : changes[p].op = "del"}
           changed == {p \in Producers : changes[p].op = "modify"}
<1>1. Matches(keys, changes) <=>
        added \cap DOMAIN keys = {} /\ removed \cup changed \subseteq DOMAIN keys
  BY DEF Matches
<1>2. ASSUME removed \cup changed \subseteq DOMAIN keys
      PROVE  (DOMAIN keys \cup added) \ removed = DOMAIN Apply(keys, changes)
  <2>1. \A p \in Producers : changes[p].op \in {"none", "add", "modify", "del"}
    <3> TAKE p \in Producers
    <3>1. changes[p] \in Changes
      BY DEF KeyMaps
    <3> QED BY <3>1, ChangeForms
  <2>2. DOMAIN keys \subseteq Producers
    BY MemberKeys
  <2>3. \A p \in Producers : p \in DOMAIN Apply(keys, changes) <=>
                \/ changes[p].op \in {"add", "modify"}
                \/ changes[p].op = "none" /\ p \in DOMAIN keys
    BY ApplyAt
  <2>4. DOMAIN Apply(keys, changes) \subseteq Producers
    BY ApplyAt
  <2>5. \A p \in Producers : p \in (DOMAIN keys \cup added) \ removed <=> p \in DOMAIN Apply(keys, changes)
    BY <1>2, <2>1, <2>3
  <2> QED BY <2>2, <2>4, <2>5
<1>3. FitsIn(keys, changes, count) <=>
        /\ added \cap DOMAIN keys = {}
        /\ removed \cup changed \subseteq DOMAIN keys
        /\ Cardinality((DOMAIN keys \cup added) \ removed) = count
  BY DEF FitsIn
<1> HIDE DEF added, removed, changed
<1> QED BY <1>1, <1>2, <1>3

-----------------------------------------------------------------------------
(* Merging: changes that follow others.                                    *)

MergedChanges(first, second) == [p \in Producers |-> Folded(first[p], second[p])]

\* One change folded into another, of a producer p that is in A before the
\* first and in B after it.
LEMMA FoldedIs ==
  ASSUME NEW c \in Changes, NEW d \in Changes, NEW p, NEW A, NEW B,
         c.op = "add" => p \notin A, c.op \in {"modify", "del"} => p \in A,
         p \in B <=> c.op \in {"add", "modify"} \/ (c.op = "none" /\ p \in A),
         d.op = "add" => p \notin B, d.op \in {"modify", "del"} => p \in B
  PROVE  /\ Folded(c, d) \in Changes
         /\ Folded(c, d).op = "add" => p \notin A
         /\ Folded(c, d).op \in {"modify", "del"} => p \in A
         /\ (Folded(c, d).op \in {"add", "modify"} \/ (Folded(c, d).op = "none" /\ p \in A))
              <=> (d.op \in {"add", "modify"} \/ (d.op = "none" /\ p \in B))
         /\ Folded(c, d).op = "none" /\ p \in A => c.op = "none" /\ d.op = "none"
         /\ Folded(c, d).op \in {"add", "modify"} =>
              Folded(c, d).key = IF d.op = "none" THEN c.key ELSE d.key
         /\ Folded(c, d).op \in {"add", "modify"} /\ d.op = "none" => c.op # "none"
<1>1. CASE d.op = "none"
  BY <1>1, ChangeForms DEF Folded
<1>2. CASE d.op = "add"
  <2>1. Folded(c, d) = Added(c, d.key) /\ d.key \in Keys
    BY <1>2, ChangeForms DEF Folded
  <2>2. c.op \in {"none", "del"}
    BY <1>2, ChangeForms
  <2>3. CASE c.op = "none"
    BY <1>2, <2>1, <2>3, FormsAreChanges, FieldsOfForms DEF Added
  <2>4. CASE c.op = "del"
    BY <1>2, <2>1, <2>4, FormsAreChanges, FieldsOfForms DEF Added
  <2> QED BY <2>2, <2>3, <2>4
<1>3. CASE d.op = "modify"
  <2>1. Folded(c, d) = Modified(c, d.key) /\ d.key \in Keys
    BY <1>3, ChangeForms DEF Folded
  <2>2. c.op \in {"none", "add", "modify"}
    BY <1>3, ChangeForms
  <2>3. CASE c.op = "add"
    BY <1>3, <2>1, <2>3, FormsAreChanges, FieldsOfForms DEF Modified
  <2>4. CASE c.op \in {"none", "modify"}
    BY <1>3, <2>1, <2>4, FormsAreChanges, FieldsOfForms DEF Modified
  <2> QED BY <2>2, <2>3, <2>4
<1>4. CASE d.op = "del"
  <2>1. Folded(c, d) = Deleted(c)
    BY <1>4 DEF Folded
  <2>2. c.op \in {"none", "add", "modify"}
    BY <1>4, ChangeForms
  <2>3. CASE c.op = "add"
    BY <1>4, <2>1, <2>3, FormsAreChanges, FieldsOfForms DEF Deleted
  <2>4. CASE c.op \in {"none", "modify"}
    BY <1>4, <2>1, <2>4, FormsAreChanges, FieldsOfForms DEF Deleted
  <2> QED BY <2>2, <2>3, <2>4
<1> QED BY <1>1, <1>2, <1>3, <1>4, ChangeForms

\* Changes that match one after another are merged without an abort, match as
\* one, and lead to the same members with the same keys.
LEMMA MergingKeepsMeaning ==
  ASSUME NEW keys \in Members, NEW first \in KeyMaps, NEW second \in KeyMaps,
         Matches(keys, first), Matches(Apply(keys, first), second)
  PROVE  /\ MergedChanges(first, second) \in KeyMaps
         /\ Matches(keys, MergedChanges(first, second))
         /\ Apply(keys, MergedChanges(first, second)) = Apply(Apply(keys, first), second)
<1> DEFINE both == MergedChanges(first, second)
           middle == Apply(keys, first)
<1>1. \A p \in Producers : both[p] = Folded(first[p], second[p])
  BY DEF MergedChanges
<1>2. \A p \in Producers : first[p] \in Changes /\ second[p] \in Changes
  BY DEF KeyMaps
<1>3. ASSUME NEW p \in Producers
      PROVE  /\ both[p] \in Changes
             /\ both[p].op = "add" => p \notin DOMAIN keys
             /\ both[p].op \in {"modify", "del"} => p \in DOMAIN keys
             /\ (both[p].op \in {"add", "modify"} \/ (both[p].op = "none" /\ p \in DOMAIN keys))
                  <=> (second[p].op \in {"add", "modify"} \/ (second[p].op = "none" /\ p \in DOMAIN middle))
             /\ both[p].op = "none" /\ p \in DOMAIN keys => first[p].op = "none" /\ second[p].op = "none"
             /\ both[p].op \in {"add", "modify"} =>
                  both[p].key = IF second[p].op = "none" THEN first[p].key ELSE second[p].key
             /\ both[p].op \in {"add", "modify"} /\ second[p].op = "none" => first[p].op # "none"
  <2>2. /\ first[p].op = "add" => p \notin DOMAIN keys
        /\ first[p].op \in {"modify", "del"} => p \in DOMAIN keys
        /\ second[p].op = "add" => p \notin DOMAIN middle
        /\ second[p].op \in {"modify", "del"} => p \in DOMAIN middle
    BY DEF Matches
  <2>3. (p \in DOMAIN middle) <=> first[p].op \in {"add", "modify"} \/ (first[p].op = "none" /\ p \in DOMAIN keys)
    BY ApplyAt
  <2> QED BY <1>1, <1>2, <2>2, <2>3, FoldedIs
<1> HIDE DEF both, middle
<1>4. both \in KeyMaps
  <2>1. both = [p \in Producers |-> both[p]]
    BY DEF both, MergedChanges
  <2> QED BY <1>3, <2>1 DEF KeyMaps
<1>5. Matches(keys, both)
  BY <1>3 DEF Matches
<1>6. Apply(keys, both) = Apply(middle, second)
  <2>1. middle \in Members
    BY ApplyTyped DEF middle
  <2>2. Apply(keys, both) \in Members /\ Apply(middle, second) \in Members
    BY <1>4, <2>1, ApplyTyped
  <2>3. \A p \in Producers : p \in DOMAIN Apply(keys, both) <=> p \in DOMAIN Apply(middle, second)
    BY <1>3, ApplyAt
  <2>4. ASSUME NEW p \in DOMAIN Apply(keys, both)
        PROVE  Apply(keys, both)[p] = Apply(middle, second)[p]
    <3>1. p \in Producers /\ p \in DOMAIN Apply(middle, second)
      BY <2>3, ApplyAt
    <3>2. Apply(keys, both)[p] = IF both[p].op = "none" THEN keys[p] ELSE both[p].key
      BY ApplyAt
    <3>3. Apply(middle, second)[p] = IF second[p].op = "none" THEN middle[p] ELSE second[p].key
      BY <3>1, ApplyAt
    <3>4. p \in DOMAIN middle => middle[p] = IF first[p].op = "none" THEN keys[p] ELSE first[p].key
      BY ApplyAt DEF middle
    <3>5. both[p].op \in {"add", "modify"} \/ (both[p].op = "none" /\ p \in DOMAIN keys)
      BY <3>1, ApplyAt
    <3>6. second[p].op \in {"add", "modify"} \/ (second[p].op = "none" /\ p \in DOMAIN middle)
      BY <3>1, ApplyAt
    <3>7. CASE second[p].op = "none"
      BY <3>1, <3>2, <3>3, <3>4, <3>5, <3>6, <3>7, <1>3
    <3>8. CASE second[p].op # "none"
      BY <3>1, <3>2, <3>3, <3>5, <3>6, <3>8, <1>3
    <3> QED BY <3>7, <3>8
  <2> QED BY <2>2, <2>3, <2>4, SameMembers
<1> QED BY <1>4, <1>5, <1>6 DEF both, middle

-----------------------------------------------------------------------------
(* What handlers emit.                                                     *)

\* The changes from one set of members to another lead from one to the other.
LEMMA EmittedLeads ==
  ASSUME NEW old \in Members, NEW new \in Members, NEW again \in BOOLEAN
  PROVE  /\ Emitted(old, new, again) \in KeyMaps
         /\ Matches(old, Emitted(old, new, again))
         /\ Apply(old, Emitted(old, new, again)) = new
<1> DEFINE c == Emitted(old, new, again)
<1>1. ASSUME NEW p \in Producers
      PROVE  /\ c[p] \in Changes
             /\ c[p].op = "add" => p \notin DOMAIN old /\ p \in DOMAIN new
             /\ c[p].op = "modify" => p \in DOMAIN old /\ p \in DOMAIN new
             /\ c[p].op = "del" => p \in DOMAIN old /\ p \notin DOMAIN new
             /\ c[p].op = "none" => /\ p \in DOMAIN old <=> p \in DOMAIN new
                                    /\ p \in DOMAIN new => old[p] = new[p]
             /\ c[p].op \in {"add", "modify"} => c[p].key = new[p]
             /\ c[p].op \in {"none", "add", "modify", "del"}
  <2>1. CASE p \in DOMAIN new \ DOMAIN old
    <3>1. c[p] = Add(new[p]) /\ new[p] \in Keys
      BY <2>1, MemberKeys DEF Emitted
    <3> QED BY <2>1, <3>1, FormsAreChanges, FieldsOfForms
  <2>2. CASE p \in DOMAIN old \ DOMAIN new
    <3>1. c[p] = Del
      BY <2>2 DEF Emitted
    <3> QED BY <2>2, <3>1, FormsAreChanges, FieldsOfForms
  <2>3. CASE p \in DOMAIN old \cap DOMAIN new
    <3>1. c[p] = IF old[p] # new[p] \/ again THEN Modify(new[p]) ELSE None
      BY <2>3 DEF Emitted
    <3>2. new[p] \in Keys
      BY <2>3, MemberKeys
    <3> QED BY <2>3, <3>1, <3>2, FormsAreChanges, FieldsOfForms
  <2>4. CASE p \notin DOMAIN old /\ p \notin DOMAIN new
    <3>1. c[p] = None
      BY <2>4 DEF Emitted
    <3> QED BY <2>4, <3>1, FormsAreChanges, FieldsOfForms
  <2> QED BY <2>1, <2>2, <2>3, <2>4
<1>2. c \in KeyMaps
  <2>1. c = [p \in Producers |-> c[p]]
    BY DEF Emitted
  <2> HIDE DEF c
  <2> QED BY <1>1, <2>1 DEF KeyMaps
<1> HIDE DEF c
<1>3. Matches(old, c)
  BY <1>1 DEF Matches
<1>4. Apply(old, c) = new
  <2>1. Apply(old, c) \in Members
    BY <1>2, ApplyTyped
  <2>2. \A p \in Producers : p \in DOMAIN Apply(old, c) <=> p \in DOMAIN new
    BY <1>1, ApplyAt
  <2>3. ASSUME NEW p \in DOMAIN Apply(old, c) PROVE Apply(old, c)[p] = new[p]
    <3>1. p \in Producers /\ p \in DOMAIN new
      BY <2>2, ApplyAt
    <3>2. Apply(old, c)[p] = IF c[p].op = "none" THEN old[p] ELSE c[p].key
      BY ApplyAt
    <3>3. c[p].op # "del"
      BY <1>1, <3>1
    <3> QED BY <1>1, <3>1, <3>2, <3>3
  <2> QED BY <2>1, <2>2, <2>3, SameMembers
<1> QED BY <1>2, <1>3, <1>4 DEF c

\* No change leaves everything as it is.
LEMMA NoneLeadsNowhere ==
  ASSUME NEW keys \in Members, NEW changes \in KeyMaps,
         \A p \in Producers : changes[p] = None
  PROVE  Apply(keys, changes) = keys
<1>1. Apply(keys, changes) \in Members
  BY ApplyTyped
<1>2. \A p \in Producers : changes[p].op = "none"
  BY FieldsOfForms
<1>3. \A p \in Producers : p \in DOMAIN Apply(keys, changes) <=> p \in DOMAIN keys
  BY <1>2, ApplyAt
<1>4. ASSUME NEW p \in DOMAIN Apply(keys, changes) PROVE Apply(keys, changes)[p] = keys[p]
  <2>1. p \in Producers
    BY ApplyAt
  <2> QED BY <1>2, <2>1, ApplyAt
<1> QED BY <1>1, <1>3, <1>4, SameMembers
-----------------------------------------------------------------------------
(* The changes that handlers emit.                                         *)

LEMMA EmittedTyped ==
  ASSUME NEW old, NEW new \in Members, NEW again \in BOOLEAN
  PROVE  Emitted(old, new, again) \in KeyMaps
<1>1. ASSUME NEW p \in DOMAIN new
      PROVE  Add(new[p]) \in Changes
             /\ Modify(new[p]) \in Changes
  BY MemberKeys, FormsAreChanges
<1>2. /\ Del \in Changes
      /\ None \in Changes
  BY FormsAreChanges
<1> DEFINE change(p) ==
       CASE p \in DOMAIN new \ DOMAIN old -> Add(new[p])
         [] p \in DOMAIN old \ DOMAIN new -> Del
         [] p \in DOMAIN old \cap DOMAIN new ->
              IF old[p] # new[p] \/ again THEN Modify(new[p]) ELSE None
         [] OTHER -> None
<1>3. ASSUME NEW p \in Producers
      PROVE  change(p) \in Changes
  <2>1. CASE p \in DOMAIN new \ DOMAIN old
    BY <2>1, <1>1
  <2>2. CASE p \in DOMAIN old \ DOMAIN new
    BY <2>2, <1>2
  <2>3. CASE p \in DOMAIN old \cap DOMAIN new
    BY <2>3, <1>1, <1>2
  <2>4. CASE p \notin DOMAIN old /\ p \notin DOMAIN new
    BY <2>4, <1>2
  <2> QED  BY <2>1, <2>2, <2>3, <2>4
<1> QED  BY <1>3 DEF Emitted, KeyMaps

LEMMA CountIsNat ==
  ASSUME NEW s \in [main : Members, backup : Members], NEW q \in Queues
  PROVE  s[q] \in Members /\ Cardinality(DOMAIN s[q]) \in Nat
<1>1. s[q] \in Members
  BY DEF Queues
<1>2. DOMAIN s[q] \subseteq Producers
  BY <1>1 DEF Members
<1>3. IsFiniteSet(DOMAIN s[q])
  BY <1>2, LogAssumption, FS_Subset DEF LogAssumption
<1> QED  BY <1>1, <1>3, FS_CardinalityType

LEMMA DifferenceTyped ==
  ASSUME NEW old, NEW s \in Schedules, NEW again \in BOOLEAN
  PROVE  Difference(old, s, again) \in Proposals
<1>1. s \in [main : Members, backup : Members]
  BY LogAssumption DEF LogAssumption
<1>2. ASSUME NEW q \in Queues
      PROVE  [clear |-> FALSE, count |-> Cardinality(DOMAIN s[q]), changes |-> Emitted(old[q], s[q], again)]
               \in [clear : BOOLEAN, count : Nat, changes : KeyMaps]
  BY <1>1, CountIsNat, EmittedTyped
<1> QED  BY <1>2 DEF Difference, Proposals

LEMMA RebuiltTyped ==
  ASSUME NEW s \in Schedules
  PROVE  Rebuilt(s) \in Proposals
<1>1. s \in [main : Members, backup : Members]
  BY LogAssumption DEF LogAssumption
<1>2. ASSUME NEW q \in Queues
      PROVE  [clear |-> TRUE, count |-> Cardinality(DOMAIN s[q]), changes |-> Emitted(<<>>, s[q], FALSE)]
               \in [clear : BOOLEAN, count : Nat, changes : KeyMaps]
  BY <1>1, CountIsNat, EmittedTyped
<1> QED  BY <1>2 DEF Rebuilt, Proposals

-----------------------------------------------------------------------------
(* The two ways the log changes.                                           *)

\* Every row has its number and its sequence.
LEMMA RowsTyped ==
  ASSUME TypeOK
  PROVE  \A i \in 1 .. Len(log) : log[i].id \in Nat /\ log[i].seq \in Nat
<1> TAKE i \in 1 .. Len(log)
<1>1. log[i] \in LogRows
  BY DEF TypeOK
<1> QED  BY <1>1 DEF LogRows

\* Rows saved with the next number, under the present or the next sequence.
LEMMA AppendKeepsOrder ==
  ASSUME TypeOK, LogOrdered, NEW seq \in Nat, NEW changes \in Proposals,
         seq >= sequence, sequence' = seq, lastId' = lastId + 1,
         log' = Append(log, Row(seq, changes))
  PROVE  log' \in Seq(LogRows) /\ LogOrdered'
<1>1. lastId \in Nat /\ sequence \in Nat /\ log \in Seq(LogRows) /\ Len(log) \in Nat
  BY DEF TypeOK
<1>2. Row(seq, changes) \in LogRows
  BY <1>1 DEF Row, LogRows
<1>3. /\ log' \in Seq(LogRows) /\ Len(log') = Len(log) + 1
      /\ \A i \in 1 .. Len(log) : log'[i] = log[i]
      /\ log'[Len(log) + 1] = Row(seq, changes)
  BY <1>1, <1>2, AppendProperties
<1>4. \A i \in 1 .. Len(log) : log[i].id \in Nat /\ log[i].seq \in Nat
  BY RowsTyped
<1>5. Row(seq, changes).id = lastId + 1 /\ Row(seq, changes).seq = seq
  BY DEF Row
<1>6. \A i \in 1 .. Len(log') : i \in 1 .. Len(log) \/ i = Len(log) + 1
  BY <1>1, <1>3
<1>7. \A i \in 1 .. Len(log') : log'[i].id <= lastId' /\ log'[i].seq <= sequence'
  BY <1>1, <1>3, <1>4, <1>5, <1>6 DEF LogOrdered
<1>8. \A i, j \in 1 .. Len(log') :
        i < j => log'[i].id < log'[j].id /\ log'[i].seq <= log'[j].seq
  <2> TAKE i, j \in 1 .. Len(log')
  <2> HAVE i < j
  <2>1. i \in 1 .. Len(log)
    BY <1>1, <1>3
  <2>2. CASE j \in 1 .. Len(log)
    BY <2>1, <2>2, <1>3 DEF LogOrdered
  <2>3. CASE j = Len(log) + 1
    BY <2>1, <2>3, <1>1, <1>3, <1>4, <1>5 DEF LogOrdered
  <2> QED  BY <2>2, <2>3, <1>6
<1> QED  BY <1>3, <1>7, <1>8 DEF LogOrdered

\* A batch has at most all the rows.
LEMMA BatchIsPart ==
  ASSUME TypeOK
  PROVE  Batch \in 0 .. Len(log)
<1>1. Len(log) \in Nat
  BY DEF TypeOK
<1>2. RowsRead \subseteq 1 .. Len(log)
  BY DEF RowsRead
<1>3. IsFiniteSet(1 .. Len(log)) /\ Cardinality(1 .. Len(log)) = Len(log)
  <2>1. ASSUME NEW n \in Nat PROVE IsFiniteSet(1 .. n) /\ Cardinality(1 .. n) = n
    <3>1. 1 \in Int /\ n \in Int /\ (IF 1 > n THEN 0 ELSE n - 1 + 1) = n
      OBVIOUS
    <3> QED BY ONLY <3>1, FS_Interval
  <2> QED BY ONLY <1>1, <2>1
<1>4. Cardinality(RowsRead) \in Nat /\ Cardinality(RowsRead) <= Len(log)
  <2>1. IsFiniteSet(RowsRead) /\ Cardinality(RowsRead) <= Cardinality(1 .. Len(log))
    BY ONLY <1>2, <1>3, FS_Subset
  <2>2. Cardinality(RowsRead) \in Nat
    BY ONLY <2>1, FS_CardinalityType
  <2> QED BY ONLY <1>3, <2>1, <2>2
<1> QED  BY <1>1, <1>4 DEF Batch

\* Erasing rows at the head keeps the order of the others.
LEMMA ErasingKeepsOrder ==
  ASSUME TypeOK, LogOrdered, NEW n \in 0 .. Len(log), log' = Without(n),
         UNCHANGED <<sequence, lastId>>
  PROVE  log' \in Seq(LogRows) /\ LogOrdered'
<1>1. log \in Seq(LogRows) /\ Len(log) \in Nat
  BY DEF TypeOK
<1>2. /\ log' \in Seq(LogRows)
      /\ Len(log') = Len(log) - n
      /\ \A i \in 1 .. Len(log') : log'[i] = log[i + n]
  BY <1>1 DEF Without
<1>3. \A i \in 1 .. Len(log') : i + n \in 1 .. Len(log)
  BY <1>1, <1>2
<1>4. \A i \in 1 .. Len(log') : log'[i].id <= lastId' /\ log'[i].seq <= sequence'
  BY <1>2, <1>3 DEF LogOrdered
<1>5. \A i, j \in 1 .. Len(log') :
        i < j => log'[i].id < log'[j].id /\ log'[i].seq <= log'[j].seq
  <2> TAKE i, j \in 1 .. Len(log')
  <2> HAVE i < j
  <2>1. i + n \in 1 .. Len(log) /\ j + n \in 1 .. Len(log) /\ i + n < j + n
    BY <1>1, <1>2, <1>3
  <2>2. log[i + n].id < log[j + n].id /\ log[i + n].seq <= log[j + n].seq
    BY <2>1 DEF LogOrdered
  <2> QED  BY <1>2, <2>2
<1> QED  BY <1>2, <1>4, <1>5 DEF LogOrdered

-----------------------------------------------------------------------------
(* The invariant.                                                          *)

LEMMA LogInit == Init => LogInv
<1> SUFFICES ASSUME Init PROVE TypeOK /\ LogOrdered
  BY DEF LogInv
<1>1. log = <<>> /\ log \in Seq(LogRows) /\ Len(log) = 0
  BY DEF Init
<1>2. interrupted \in BOOLEAN /\ ready \in BOOLEAN
  BY Zenon DEF Init
<1>3. TypeOK
  BY <1>1, <1>2 DEF Init, TypeOK, Uninit
<1>4. LogOrdered
  BY <1>1 DEF LogOrdered
<1> QED  BY <1>3, <1>4

LEMMA LogStep == LogInv /\ [Next]_vars => LogInv'
<1> SUFFICES ASSUME TypeOK, LogOrdered, [Next]_vars PROVE TypeOK' /\ LogOrdered'
  BY DEF LogInv
<1>1. ASSUME NEW s \in Schedules, NEW again \in BOOLEAN, Emit(s, again)
      PROVE  TypeOK' /\ LogOrdered'
  <2>1. CASE UNCHANGED <<lastId, log>>
    BY <1>1, <2>1 DEF Emit, TypeOK, LogOrdered
  <2>2. CASE lastId' = lastId + 1
             /\ log' = Append(log, Row(sequence, Difference(elected, s, again)))
    <3>1. Difference(elected, s, again) \in Proposals
      BY DifferenceTyped
    <3>2. log' \in Seq(LogRows) /\ LogOrdered'
      BY <1>1, <2>2, <3>1, AppendKeepsOrder DEF Emit, TypeOK
    <3> QED  BY <1>1, <2>2, <3>2 DEF Emit, TypeOK
  <2> QED  BY <1>1, <2>1, <2>2 DEF Emit
<1>2. ASSUME NEW s \in Schedules, Drop(s)
      PROVE  TypeOK' /\ LogOrdered'
  BY <1>2 DEF Drop, TypeOK, LogOrdered
<1>3. ASSUME NEW s \in Schedules, Restart(s)
      PROVE  TypeOK' /\ LogOrdered'
  <2>1. Rebuilt(s) \in Proposals
    BY RebuiltTyped
  <2>2. sequence + 1 \in Nat /\ sequence + 1 >= sequence
    BY DEF TypeOK
  <2>3. log' \in Seq(LogRows) /\ LogOrdered'
    BY <1>3, <2>1, <2>2, AppendKeepsOrder DEF Restart
  <2>4. interrupted' \in BOOLEAN /\ ready' \in BOOLEAN
    BY <1>3, Zenon DEF Restart, TypeOK
  <2> QED  BY <1>3, <2>2, <2>3, <2>4 DEF Restart, TypeOK
<1>4. ASSUME NEW s \in Schedules, InitBbpElect(s)
      PROVE  TypeOK' /\ LogOrdered'
  <2>1. TypeOK'
    <3>1. interrupted' \in BOOLEAN /\ ready' \in BOOLEAN
      BY <1>4, Zenon DEF InitBbpElect, TypeOK
    <3> QED  BY <1>4, <3>1 DEF InitBbpElect, TypeOK
  <2>2. \A i \in 1 .. Len(log) : log[i].seq \in Nat
    BY RowsTyped
  <2>3. LogOrdered'
    BY <1>4, <2>2 DEF InitBbpElect, TypeOK, LogOrdered
  <2> QED  BY <2>1, <2>3
<1>5. ASSUME NEW s \in Schedules, UpgradeVote(s) \/ OnBlockWhole(s)
      PROVE  TypeOK' /\ LogOrdered'
  <2>1. version' \in {version, Disabled} /\ UNCHANGED <<elected, interrupted, sequence, lastId, log>>
    BY <1>5 DEF UpgradeVote, OnBlockWhole
  <2>2. interrupted' \in BOOLEAN /\ ready' \in BOOLEAN
    BY <1>5, Zenon DEF UpgradeVote, OnBlockWhole, TellWhole, TypeOK
  <2>3. version' \in {Uninit, Disabled, Enabled}
    BY <2>1 DEF TypeOK
  <2> QED  BY <2>1, <2>2, <2>3 DEF TypeOK, LogOrdered
<1>6. ASSUME FlushMerged
      PROVE  TypeOK' /\ LogOrdered'
  <2>1. log' = Without(Batch) /\ UNCHANGED <<sequence, lastId>>
    BY <1>6 DEF FlushMerged
  <2>2. log' \in Seq(LogRows) /\ LogOrdered'
    BY <2>1, BatchIsPart, ErasingKeepsOrder
  <2> QED  BY <1>6, <2>2 DEF FlushMerged, TypeOK
<1>7. ASSUME FlushEmpty
      PROVE  TypeOK' /\ LogOrdered'
  <2>1. (log' = Without(Batch) \/ log' = log) /\ UNCHANGED <<sequence, lastId>>
    BY <1>7 DEF FlushEmpty
  <2>2. log' \in Seq(LogRows) /\ LogOrdered'
    <3>1. CASE log' = Without(Batch)
      BY <2>1, <3>1, BatchIsPart, ErasingKeepsOrder
    <3>2. CASE log' = log
      BY <2>1, <3>2 DEF TypeOK, LogOrdered
    <3> QED  BY <2>1, <3>1, <3>2
  <2> QED  BY <1>7, <2>2 DEF FlushEmpty, TypeOK
<1>8. CASE NativeReady
  BY <1>8 DEF NativeReady, TypeOK, LogOrdered
<1>9. CASE UNCHANGED vars
  BY <1>9 DEF vars, TypeOK, LogOrdered
<1> QED
  BY <1>1, <1>2, <1>3, <1>4, <1>5, <1>6, <1>7, <1>8, <1>9 DEF Next, Voting, Configuring, OnBlock

LEMMA LogInvariant == Spec => []LogInv
BY LogInit, LogStep, PTL DEF Spec

\* The log holds rows of changes that are possible for their schedules.
THEOREM LogTyped == Spec => []TypeOK
<1>1. LogInv => TypeOK
  BY DEF LogInv
<1> QED  BY <1>1, LogInvariant, PTL

\* The rows lie in the order they were saved in and no row of a former
\* sequence follows one of the present, however batches erase them.
THEOREM LogKeepsOrder == Spec => []LogOrdered
<1>1. LogInv => LogOrdered
  BY DEF LogInv
<1> QED  BY <1>1, LogInvariant, PTL

-----------------------------------------------------------------------------
(* Schedules of both queues, and changes applied to them.                  *)

Whole == {Told(s) : s \in Schedules}
Feedable == Whole \cup {Told([s EXCEPT !.backup = <<>>]) : s \in Schedules}
Held == [main : Members, backup : Members, fit : BOOLEAN]

LEMMA QueueOfHeld ==
  ASSUME NEW s \in Held, NEW q \in Queues
  PROVE  s[q] \in Members
BY DEF Held, Queues

LEMMA SameHeld ==
  ASSUME NEW s \in Held, NEW t \in Held, \A q \in Queues : s[q] = t[q], s.fit = t.fit
  PROVE  s = t
<1>1. s.main = t.main /\ s.backup = t.backup
  BY DEF Queues
<1> QED BY <1>1 DEF Held

LEMMA ScheduleMembers ==
  ASSUME NEW s \in Schedules
  PROVE  /\ s \in [main : Members, backup : Members]
         /\ DOMAIN s.main # {} /\ DOMAIN s.backup # {}
BY LogAssumption DEF LogAssumption

LEMMA WholeIs ==
  ASSUME NEW t \in Whole
  PROVE  /\ t \in Held /\ t.fit = TRUE /\ t \in Feedable
         /\ \A q \in Queues : t[q] # <<>>
<1>1. PICK s \in Schedules : t = Told(s)
  BY DEF Whole
<1>2. t = [main |-> s.main, backup |-> s.backup, fit |-> TRUE]
  BY <1>1 DEF Told
<1>3. s \in [main : Members, backup : Members]
  BY ScheduleMembers
<1>4. t \in Held /\ t.fit = TRUE
  BY <1>2, <1>3 DEF Held
<1>5. t.main = s.main /\ t.backup = s.backup
  BY <1>2
<1>6. s.main # <<>> /\ s.backup # <<>>
  BY ScheduleMembers, NobodyIsMembers
<1>7. \A q \in Queues : t[q] # <<>>
  BY <1>5, <1>6 DEF Queues
<1> QED BY <1>4, <1>7 DEF Feedable

LEMMA ScheduleOfWhole ==
  ASSUME NEW s \in Schedules
  PROVE  Told(s) \in Whole /\ Told(s).main = s.main /\ Told(s).backup = s.backup
BY DEF Whole, Told

LEMMA FeedableIs ==
  ASSUME NEW t \in Feedable
  PROVE  t \in Held /\ t.fit = TRUE
<1>1. CASE t \in Whole
  BY <1>1, WholeIs
<1>2. ASSUME NEW s \in Schedules, t = Told([s EXCEPT !.backup = <<>>])
      PROVE  t \in Held /\ t.fit = TRUE
  <2>1. s \in [main : Members, backup : Members]
    BY ScheduleMembers
  <2>2. t = [main |-> s.main, backup |-> <<>>, fit |-> TRUE]
    BY <1>2, <2>1 DEF Told
  <2> QED BY <2>1, <2>2, NobodyIsMembers DEF Held
<1> QED BY <1>1, <1>2 DEF Feedable

\* The keys changes of a queue are applied to.
Base(s, c, q) == IF c[q].clear THEN <<>> ELSE s[q]

LEMMA ProposalQueue ==
  ASSUME NEW c \in Proposals, NEW q \in Queues
  PROVE  /\ c[q] \in [clear : BOOLEAN, count : Nat, changes : KeyMaps]
         /\ c[q].clear \in BOOLEAN /\ c[q].count \in Nat /\ c[q].changes \in KeyMaps
<1>1. c[q] \in [clear : BOOLEAN, count : Nat, changes : KeyMaps]
  BY DEF Proposals
<1> QED BY <1>1

LEMMA BaseTyped ==
  ASSUME NEW s \in Held, NEW c \in Proposals, NEW q \in Queues
  PROVE  Base(s, c, q) \in Members
BY QueueOfHeld, NobodyIsMembers DEF Base

\* What the native system makes of a proposal.
LEMMA AppliedIs ==
  ASSUME NEW s \in Held, NEW c \in Proposals
  PROVE  /\ Applied(s, c) \in Held
         /\ \A q \in Queues : Applied(s, c)[q] = Apply(Base(s, c, q), c[q].changes)
         /\ Applied(s, c).fit <=>
              /\ s.fit
              /\ \A q \in Queues :
                   /\ Matches(Base(s, c, q), c[q].changes)
                   /\ Cardinality(DOMAIN Applied(s, c)[q]) = c[q].count
<1> DEFINE t == Applied(s, c)
<1>1. /\ t.main = Apply(Base(s, c, "main"), c["main"].changes)
      /\ t.backup = Apply(Base(s, c, "backup"), c["backup"].changes)
      /\ t.fit = (s.fit /\ Fits(s, c))
      /\ t = [main |-> t.main, backup |-> t.backup, fit |-> t.fit]
  BY DEF Applied, Base
<1>2. \A q \in Queues : t[q] = Apply(Base(s, c, q), c[q].changes)
  BY <1>1 DEF Queues
<1>3. \A q \in Queues : Base(s, c, q) \in Members /\ c[q].changes \in KeyMaps
  BY BaseTyped, ProposalQueue
<1>4. t.main \in Members /\ t.backup \in Members
  BY <1>1, <1>3, ApplyTyped DEF Queues
<1>5. (s.fit /\ Fits(s, c)) \in BOOLEAN
  BY DEF Held, Fits
<1> HIDE DEF t
<1>6. t \in Held
  BY <1>1, <1>4, <1>5 DEF Held
<1>7. Fits(s, c) <=> \A q \in Queues : FitsIn(Base(s, c, q), c[q].changes, c[q].count)
  BY DEF Fits, Base
<1>8. \A q \in Queues :
        FitsIn(Base(s, c, q), c[q].changes, c[q].count) <=>
          Matches(Base(s, c, q), c[q].changes) /\ Cardinality(DOMAIN t[q]) = c[q].count
  BY <1>2, <1>3, FitsInMeans
<1>9. t.fit <=> /\ s.fit
                /\ \A q \in Queues :
                     /\ Matches(Base(s, c, q), c[q].changes)
                     /\ Cardinality(DOMAIN t[q]) = c[q].count
  BY <1>1, <1>7, <1>8
<1> QED BY <1>2, <1>6, <1>9 DEF t

\* A proposal that leads from schedule s to schedule t.
Leads(c, s, t) ==
  /\ c \in Proposals
  /\ \A q \in Queues :
       /\ Matches(Base(s, c, q), c[q].changes)
       /\ Apply(Base(s, c, q), c[q].changes) = t[q]

\* It does so when applied, if it leads to the right counts.
LEMMA LeadingIsApplying ==
  ASSUME NEW s \in Held, NEW t \in Held, s.fit = TRUE, t.fit = TRUE,
         NEW c, Leads(c, s, t),
         \A q \in Queues : c[q].count = Cardinality(DOMAIN t[q])
  PROVE  Applied(s, c) = t
<1>1. c \in Proposals
  BY DEF Leads
<1>2. Applied(s, c) \in Held
  BY <1>1, AppliedIs
<1>3. \A q \in Queues : Applied(s, c)[q] = t[q]
  BY <1>1, AppliedIs DEF Leads
<1>4. Applied(s, c).fit
  BY <1>1, <1>3, AppliedIs DEF Leads
<1>5. Applied(s, c).fit = TRUE
  BY <1>2, <1>4 DEF Held
<1> QED BY <1>2, <1>3, <1>5, SameHeld

LEMMA NoProposalLeads ==
  ASSUME NEW s \in Held
  PROVE  Leads(NoProposal, s, s)
<1>1. NoChanges \in KeyMaps /\ \A p \in Producers : NoChanges[p] = None
  BY FormsAreChanges DEF NoChanges, KeyMaps
<1>2. \A q \in Queues : NoProposal[q] = [clear |-> FALSE, count |-> 0, changes |-> NoChanges]
  BY DEF NoProposal
<1>3. NoProposal \in Proposals
  BY <1>1 DEF NoProposal, Proposals
<1>4. ASSUME NEW q \in Queues
      PROVE  /\ Matches(Base(s, NoProposal, q), NoProposal[q].changes)
             /\ Apply(Base(s, NoProposal, q), NoProposal[q].changes) = s[q]
  <2>1. Base(s, NoProposal, q) = s[q] /\ NoProposal[q].changes = NoChanges
    BY <1>2 DEF Base
  <2>2. s[q] \in Members
    BY QueueOfHeld
  <2>3. Matches(s[q], NoChanges)
    BY <1>1, FieldsOfForms DEF Matches
  <2>4. Apply(s[q], NoChanges) = s[q]
    BY <1>1, <2>2, NoneLeadsNowhere
  <2> QED BY <2>1, <2>3, <2>4
<1> QED BY <1>3, <1>4 DEF Leads

\* A proposal merged with changes that fit what it leads to leads on.
LEMMA MergeLeadsOn ==
  ASSUME NEW s \in Held, NEW t \in Held, NEW c, Leads(c, s, t),
         NEW src \in Proposals, Applied(t, src).fit
  PROVE  /\ Leads(Merge(src, c), s, Applied(t, src))
         /\ \A q \in Queues : Merge(src, c)[q].count = Cardinality(DOMAIN Applied(t, src)[q])
<1> DEFINE both == Merge(src, c)
<1>1. c \in Proposals
  BY DEF Leads
<1>2. ASSUME NEW q \in Queues
      PROVE  /\ both[q] \in [clear : BOOLEAN, count : Nat, changes : KeyMaps]
             /\ Matches(Base(s, both, q), both[q].changes)
             /\ Apply(Base(s, both, q), both[q].changes) = Applied(t, src)[q]
             /\ both[q].count = Cardinality(DOMAIN Applied(t, src)[q])
  <2>1. both[q] = MergedQueue(src[q], c[q])
    BY DEF Merge
  <2>2. /\ Matches(Base(t, src, q), src[q].changes)
        /\ Applied(t, src)[q] = Apply(Base(t, src, q), src[q].changes)
        /\ src[q].count = Cardinality(DOMAIN Applied(t, src)[q])
    BY AppliedIs
  <2>3. src[q] \in [clear : BOOLEAN, count : Nat, changes : KeyMaps]
    BY ProposalQueue
  <2>4. CASE src[q].clear
    <3>1. both[q] = src[q]
      BY <2>1, <2>4 DEF MergedQueue
    <3>2. Base(s, both, q) = <<>> /\ Base(t, src, q) = <<>>
      BY <2>4, <3>1 DEF Base
    <3> HIDE DEF both
    <3> QED BY <2>2, <2>3, <3>1, <3>2
  <2>5. CASE ~ src[q].clear
    <3>1. c[q] \in [clear : BOOLEAN, count : Nat, changes : KeyMaps] /\ c[q].changes \in KeyMaps
      BY <1>1, ProposalQueue
    <3>2. both[q] = [c[q] EXCEPT !.count = src[q].count,
                                 !.changes = MergedChanges(c[q].changes, src[q].changes)]
      BY <2>1, <2>5 DEF MergedQueue, MergedChanges
    <3> HIDE DEF both
    <3>3. /\ both[q].clear = c[q].clear /\ both[q].count = src[q].count
          /\ both[q].changes = MergedChanges(c[q].changes, src[q].changes)
          /\ both[q] = [clear |-> both[q].clear, count |-> both[q].count, changes |-> both[q].changes]
      BY <3>1, <3>2
    <3>4. Base(s, both, q) = Base(s, c, q) /\ Base(t, src, q) = t[q]
      BY <2>5, <3>3 DEF Base
    <3>5. /\ Matches(Base(s, c, q), c[q].changes)
          /\ Apply(Base(s, c, q), c[q].changes) = t[q]
      BY DEF Leads
    <3>6. Base(s, c, q) \in Members /\ src[q].changes \in KeyMaps
      BY <1>1, <2>3, BaseTyped
    <3>7. Matches(Apply(Base(s, c, q), c[q].changes), src[q].changes)
      BY <2>2, <3>4, <3>5
    <3>8. /\ both[q].changes \in KeyMaps
          /\ Matches(Base(s, c, q), both[q].changes)
          /\ Apply(Base(s, c, q), both[q].changes)
               = Apply(Apply(Base(s, c, q), c[q].changes), src[q].changes)
      BY <3>1, <3>3, <3>5, <3>6, <3>7, MergingKeepsMeaning
    <3>9. both[q].clear \in BOOLEAN /\ both[q].count \in Nat
      BY <2>3, <3>1, <3>3
    <3>10. both[q] \in [clear : BOOLEAN, count : Nat, changes : KeyMaps]
      BY <3>3, <3>8, <3>9
    <3>11. Apply(Base(s, c, q), both[q].changes) = Applied(t, src)[q]
      BY <2>2, <3>4, <3>5, <3>8
    <3> QED BY <2>2, <3>3, <3>4, <3>8, <3>10, <3>11
  <2> QED BY <2>4, <2>5
<1>3. both \in Proposals
  <2>1. both = [q \in Queues |-> both[q]]
    BY DEF Merge
  <2> HIDE DEF both
  <2> QED BY <1>2, <2>1 DEF Proposals
<1> QED BY <1>2, <1>3 DEF Leads

-----------------------------------------------------------------------------
(* Schedules and proposals along a log.                                    *)

\* A row appended leads on, and changes nothing of what those before it lead
\* to.
LEMMA AfterAppend ==
  ASSUME NEW s, NEW rows \in Seq(LogRows), NEW seq, NEW row \in LogRows
  PROVE  /\ \A n \in 0 .. Len(rows) :
              After(s, Append(rows, row), seq)[n] = After(s, rows, seq)[n]
         /\ After(s, Append(rows, row), seq)[Len(rows) + 1]
              = Led(After(s, rows, seq)[Len(rows)], row, seq)
<1> DEFINE more == Append(rows, row)
           T == {n \in 0 .. Len(rows) : After(s, more, seq)[n] = After(s, rows, seq)[n]}
<1>1. /\ Len(rows) \in Nat /\ Len(more) = Len(rows) + 1
      /\ \A n \in 1 .. Len(rows) : more[n] = rows[n]
  BY AppendProperties
<1> HIDE DEF more
<1>2. 0 \in T
  BY <1>1, AfterIs
<1>3. ASSUME NEW n \in 0 .. Len(rows) - 1, n \in T PROVE n + 1 \in T
  <2>1. n + 1 \in 1 .. Len(rows) /\ n + 1 \in 1 .. Len(more) /\ (n + 1) - 1 = n
    BY <1>1
  <2>2. After(s, more, seq)[n + 1] = Led(After(s, more, seq)[n], more[n + 1], seq)
    <3>1. Len(more) \in Nat
      BY <1>1
    <3>2. After(s, more, seq)[n + 1] = Led(After(s, more, seq)[(n + 1) - 1], more[n + 1], seq)
      BY <2>1, <3>1, AfterIs
    <3> QED BY <2>1, <3>2
  <2>3. After(s, rows, seq)[n + 1] = Led(After(s, rows, seq)[n], rows[n + 1], seq)
    <3>1. After(s, rows, seq)[n + 1] = Led(After(s, rows, seq)[(n + 1) - 1], rows[n + 1], seq)
      BY <1>1, <2>1, AfterIs
    <3> QED BY <2>1, <3>1
  <2> QED BY <1>1, <1>3, <2>1, <2>2, <2>3
<1> HIDE DEF T
<1>4. \A n \in 0 .. Len(rows) : n \in T
  BY <1>1, <1>2, <1>3, IntervalInduction
<1>5. After(s, more, seq)[Len(rows) + 1] = Led(After(s, rows, seq)[Len(rows)], row, seq)
  <2>1. /\ Len(rows) + 1 \in 1 .. Len(more) /\ (Len(rows) + 1) - 1 = Len(rows)
        /\ Len(more) \in Nat /\ Len(rows) \in 0 .. Len(rows)
    BY <1>1
  <2>2. After(s, more, seq)[Len(rows) + 1]
          = Led(After(s, more, seq)[(Len(rows) + 1) - 1], more[Len(rows) + 1], seq)
    BY <2>1, AfterIs
  <2>3. After(s, more, seq)[Len(rows)] = After(s, rows, seq)[Len(rows)]
    BY <1>4, <2>1 DEF T
  <2>4. more[Len(rows) + 1] = row
    BY DEF more
  <2> QED BY <2>1, <2>2, <2>3, <2>4
<1> QED BY <1>4, <1>5 DEF T, more

\* What is left of a log leads on from what the rows erased led to.
LEMMA AfterErasing ==
  ASSUME NEW s, NEW rows \in Seq(LogRows), NEW seq, NEW m \in 0 .. Len(rows)
  PROVE  \A n \in 0 .. Len(rows) - m :
           After(After(s, rows, seq)[m], SubSeq(rows, m + 1, Len(rows)), seq)[n]
             = After(s, rows, seq)[m + n]
<1> DEFINE rest == SubSeq(rows, m + 1, Len(rows))
           told == After(s, rows, seq)[m]
           L == Len(rows) - m
           T == {n \in 0 .. L : After(told, rest, seq)[n] = After(s, rows, seq)[m + n]}
<1>1. /\ Len(rows) \in Nat /\ L \in Nat /\ Len(rest) = L
      /\ \A n \in 1 .. L : rest[n] = rows[m + n]
  OBVIOUS
<1> HIDE DEF rest, told
<1>2. 0 \in T
  <2>1. m + 0 = m
    OBVIOUS
  <2>2. After(told, rest, seq)[0] = told
    BY <1>1, AfterIs
  <2> QED BY <1>1, <2>1, <2>2 DEF told
<1>3. ASSUME NEW n \in 0 .. L - 1, n \in T PROVE n + 1 \in T
  <2>1. /\ n + 1 \in 1 .. L /\ (n + 1) - 1 = n
        /\ m + (n + 1) \in 1 .. Len(rows) /\ (m + (n + 1)) - 1 = m + n
    BY <1>1
  <2>2. /\ After(told, rest, seq)[n + 1] = Led(After(told, rest, seq)[n], rest[n + 1], seq)
        /\ After(s, rows, seq)[m + (n + 1)] = Led(After(s, rows, seq)[m + n], rows[m + (n + 1)], seq)
    BY <1>1, <2>1, AfterIs
  <2>3. rest[n + 1] = rows[m + (n + 1)]
    BY <1>1, <2>1
  <2>4. After(told, rest, seq)[n] = After(s, rows, seq)[m + n]
    BY <1>3
  <2>5. n + 1 \in 0 .. L
    BY <2>1
  <2> QED BY <2>2, <2>3, <2>4, <2>5
<1> HIDE DEF T
<1>4. \A n \in 0 .. L : n \in T
  BY <1>1, <1>2, <1>3, IntervalInduction
<1> QED BY <1>4 DEF T, rest, told

\* Rows of other sequences lead nowhere.
LEMMA AfterOthers ==
  ASSUME NEW s, NEW rows \in Seq(LogRows), NEW seq,
         \A n \in 1 .. Len(rows) : rows[n].seq # seq
  PROVE  \A n \in 0 .. Len(rows) : After(s, rows, seq)[n] = s
<1> DEFINE T == {n \in 0 .. Len(rows) : After(s, rows, seq)[n] = s}
<1>1. Len(rows) \in Nat
  OBVIOUS
<1>2. 0 \in T
  BY <1>1, AfterIs
<1>3. ASSUME NEW n \in 0 .. Len(rows) - 1, n \in T PROVE n + 1 \in T
  <2>1. n + 1 \in 1 .. Len(rows) /\ (n + 1) - 1 = n
    BY <1>1
  <2>2. After(s, rows, seq)[n + 1] = Led(After(s, rows, seq)[n], rows[n + 1], seq)
    BY <1>1, <2>1, AfterIs
  <2>3. Led(After(s, rows, seq)[n], rows[n + 1], seq) = After(s, rows, seq)[n]
    BY <2>1, LedIs
  <2> QED BY <1>3, <2>1, <2>2, <2>3
<1> HIDE DEF T
<1>4. \A n \in 0 .. Len(rows) : n \in T
  BY <1>1, <1>2, <1>3, IntervalInduction
<1> QED BY <1>4 DEF T

\* Every proposal merged of a batch leads to the schedule after its rows; it
\* has the right counts if a row of the present sequence is among them.
Among(rows, seq, n) == \E i \in 1 .. n : rows[i].seq = seq

LEMMA BatchLeads ==
  ASSUME NEW rows \in Seq(LogRows), NEW seq, NEW s \in Feedable,
         \A n \in 1 .. Len(rows) : rows[n].seq = seq => After(s, rows, seq)[n] \in Whole
  PROVE  \A n \in 0 .. Len(rows) :
           /\ Leads(Merged(rows, seq)[n], s, After(s, rows, seq)[n])
           /\ ~ Among(rows, seq, n) =>
                Merged(rows, seq)[n] = NoProposal /\ After(s, rows, seq)[n] = s
           /\ Among(rows, seq, n) =>
                /\ After(s, rows, seq)[n] \in Whole
                /\ \A q \in Queues :
                     Merged(rows, seq)[n][q].count = Cardinality(DOMAIN After(s, rows, seq)[n][q])
<1> DEFINE A == After(s, rows, seq)
           M == Merged(rows, seq)
           Good(n) == /\ Leads(M[n], s, A[n])
                      /\ ~ Among(rows, seq, n) => M[n] = NoProposal /\ A[n] = s
                      /\ Among(rows, seq, n) =>
                           /\ A[n] \in Whole
                           /\ \A q \in Queues : M[n][q].count = Cardinality(DOMAIN A[n][q])
           T == {n \in 0 .. Len(rows) : Good(n)}
<1>1. Len(rows) \in Nat /\ s \in Held /\ s.fit = TRUE
  <2>1. s \in Held /\ s.fit = TRUE
    BY FeedableIs
  <2>2. Len(rows) \in Nat
    OBVIOUS
  <2> QED BY <2>1, <2>2
<1>a. /\ A[0] = s
      /\ \A n \in 1 .. Len(rows) : A[n] = Led(A[n - 1], rows[n], seq)
  BY <1>1, AfterIs
<1>m. /\ M[0] = NoProposal
      /\ \A n \in 1 .. Len(rows) : M[n] = WithRow(M[n - 1], rows[n], seq)
  BY <1>1, MergedIs
<1>w. \A n \in 1 .. Len(rows) : rows[n].seq = seq => A[n] \in Whole
  OBVIOUS
<1> HIDE DEF A, M
<1>2. 0 \in T
  <2>1. ~ Among(rows, seq, 0)
    BY DEF Among
  <2> QED BY <1>1, <1>a, <1>m, <2>1, NoProposalLeads
<1>3. ASSUME NEW n \in 0 .. Len(rows) - 1, n \in T PROVE n + 1 \in T
  <2>1. n + 1 \in 1 .. Len(rows) /\ (n + 1) - 1 = n
    BY <1>1
  <2>2. A[n + 1] = Led(A[n], rows[n + 1], seq) /\ M[n + 1] = WithRow(M[n], rows[n + 1], seq)
    BY <1>a, <1>m, <2>1
  <2>3. Good(n)
    BY <1>3
  <2>4. Among(rows, seq, n + 1) <=> Among(rows, seq, n) \/ rows[n + 1].seq = seq
    <3>1. \A i : i \in 1 .. n + 1 <=> i \in 1 .. n \/ i = n + 1
      BY <2>1
    <3> QED BY <3>1 DEF Among
  <2>5. CASE rows[n + 1].seq = seq
    <3>1. A[n + 1] = Applied(A[n], rows[n + 1].changes) /\ M[n + 1] = Merge(rows[n + 1].changes, M[n])
      BY <2>2, <2>5, LedIs, WithRowIs
    <3>2. A[n + 1] \in Whole
      BY <1>w, <2>1, <2>5
    <3>3. A[n] \in Held
      BY <1>1, <2>3, WholeIs
    <3>4. rows[n + 1].changes \in Proposals
      <4>1. rows[n + 1] \in LogRows
        BY <2>1
      <4> QED BY <4>1 DEF LogRows
    <3>5. Applied(A[n], rows[n + 1].changes).fit
      BY <3>1, <3>2, WholeIs
    <3>6. /\ Leads(M[n + 1], s, A[n + 1])
          /\ \A q \in Queues : M[n + 1][q].count = Cardinality(DOMAIN A[n + 1][q])
      BY <1>1, <2>3, <3>1, <3>3, <3>4, <3>5, MergeLeadsOn
    <3>7. Good(n + 1)
      BY <2>4, <2>5, <3>2, <3>6
    <3> QED BY <2>1, <3>7
  <2>6. CASE rows[n + 1].seq # seq
    <3>1. A[n + 1] = A[n] /\ M[n + 1] = M[n]
      BY <2>2, <2>6, LedIs, WithRowIs
    <3>2. Good(n + 1)
      BY <2>3, <2>4, <2>6, <3>1
    <3> QED BY <2>1, <3>2
  <2> QED BY <2>5, <2>6
<1>4. \A n \in 0 .. Len(rows) : n \in T
  <2> HIDE DEF T
  <2> QED BY <1>1, <1>2, <1>3, IntervalInduction
<1>5. \A n \in 0 .. Len(rows) : Good(n)
  BY <1>4
<1> QED BY <1>5 DEF A, M

\* A proposal of no change.
LEMMA SizeIs ==
  ASSUME NEW c \in Proposals
  PROVE  /\ ChangeSize(c) \in Nat
         /\ ChangeSize(c) = 0 <=> \A q \in Queues, p \in Producers : c[q].changes[p] = None
<1> DEFINE S == {e \in Queues \X Producers : c[e[1]].changes[e[2]] # None}
<1>1. IsFiniteSet(Queues)
  <2>1. IsFiniteSet({"main"})
    BY FS_Singleton
  <2>2. IsFiniteSet({"main"} \cup {"backup"})
    BY <2>1, FS_AddElement
  <2>3. Queues = {"main"} \cup {"backup"}
    BY DEF Queues
  <2> QED BY <2>2, <2>3
<1>2. IsFiniteSet(Queues \X Producers)
  BY <1>1, LogAssumption, FS_Product DEF LogAssumption
<1>3. IsFiniteSet(S)
  BY <1>2, FS_Subset
<1>4. Cardinality(S) \in Nat /\ (Cardinality(S) = 0 <=> S = {})
  BY <1>3, FS_CardinalityType, FS_EmptySet
<1>5. S = {} <=> \A q \in Queues, p \in Producers : c[q].changes[p] = None
  <2>1. ASSUME S = {}, NEW q \in Queues, NEW p \in Producers PROVE c[q].changes[p] = None
    <3>1. <<q, p>> \in Queues \X Producers /\ <<q, p>>[1] = q /\ <<q, p>>[2] = p
      OBVIOUS
    <3> QED BY <2>1, <3>1
  <2> QED BY <2>1
<1>6. ChangeSize(c) = Cardinality(S)
  BY DEF ChangeSize
<1> HIDE DEF S
<1> QED BY <1>4, <1>5, <1>6

\* A proposal of no change to schedules with members leads nowhere.
LEMMA EmptyLeadsNowhere ==
  ASSUME NEW s \in Held, NEW t \in Whole, s.fit = TRUE, NEW c, Leads(c, s, t), ChangeSize(c) = 0
  PROVE  t = s
<1>1. c \in Proposals /\ t \in Held /\ t.fit = TRUE
  BY WholeIs DEF Leads
<1>2. ASSUME NEW q \in Queues PROVE t[q] = s[q]
  <2>1. c[q].changes \in KeyMaps /\ \A p \in Producers : c[q].changes[p] = None
    BY <1>1, SizeIs, ProposalQueue
  <2>2. Base(s, c, q) \in Members
    BY <1>1, BaseTyped
  <2>3. Apply(Base(s, c, q), c[q].changes) = Base(s, c, q)
    BY <2>1, <2>2, NoneLeadsNowhere
  <2>4. t[q] = Base(s, c, q) /\ t[q] # <<>>
    BY <2>3, WholeIs DEF Leads
  <2> QED BY <2>4 DEF Base
<1> QED BY <1>1, <1>2, SameHeld

\* The changes a handler saves lead from one elected schedule to the next.
LEMMA DifferenceLeads ==
  ASSUME NEW old \in Schedules, NEW new \in Schedules, NEW again \in BOOLEAN
  PROVE  /\ Difference(old, new, again) \in Proposals
         /\ Applied(Told(old), Difference(old, new, again)) = Told(new)
<1> DEFINE c == Difference(old, new, again)
<1>1. c \in Proposals
  BY DifferenceTyped
<1>2. \A q \in Queues : /\ c[q].clear = FALSE
                        /\ c[q].count = Cardinality(DOMAIN new[q])
                        /\ c[q].changes = Emitted(old[q], new[q], again)
  BY DEF Difference
<1> HIDE DEF c
<1>3. /\ Told(old) \in Held /\ Told(old).fit = TRUE
      /\ Told(new) \in Held /\ Told(new).fit = TRUE
      /\ \A q \in Queues : Told(old)[q] = old[q] /\ Told(new)[q] = new[q]
  BY ScheduleOfWhole, WholeIs DEF Queues
<1>4. ASSUME NEW q \in Queues
      PROVE  /\ Matches(Base(Told(old), c, q), c[q].changes)
             /\ Apply(Base(Told(old), c, q), c[q].changes) = Told(new)[q]
             /\ c[q].count = Cardinality(DOMAIN Told(new)[q])
  <2>1. Base(Told(old), c, q) = old[q]
    BY <1>2, <1>3 DEF Base
  <2>2. old[q] \in Members /\ new[q] \in Members
    BY <1>3, QueueOfHeld
  <2> QED BY <1>2, <1>3, <2>1, <2>2, EmittedLeads
<1>5. Leads(c, Told(old), Told(new))
  BY <1>1, <1>4 DEF Leads
<1> QED BY <1>1, <1>3, <1>4, <1>5, LeadingIsApplying DEF c

\* No change to save: the elected schedule is the same.
LEMMA NoDifference ==
  ASSUME NEW old \in Schedules, NEW new \in Schedules, NEW again \in BOOLEAN,
         ChangeSize(Difference(old, new, again)) = 0
  PROVE  Told(new) = Told(old)
<1> DEFINE c == Difference(old, new, again)
<1>1. c \in Proposals /\ Applied(Told(old), c) = Told(new)
  BY DifferenceLeads
<1>2. Told(old) \in Held /\ Told(old).fit = TRUE /\ Told(new) \in Whole /\ Told(new).fit = TRUE
  BY ScheduleOfWhole, WholeIs
<1> HIDE DEF c
<1>3. Leads(c, Told(old), Told(new))
  BY <1>1, <1>2, AppliedIs DEF Leads
<1>4. ChangeSize(c) = 0
  BY DEF c
<1> QED BY <1>2, <1>3, <1>4, EmptyLeadsNowhere

\* The members of rebuilt queues, added to cleared ones, replace any schedule.
LEMMA RebuiltLeads ==
  ASSUME NEW s \in Schedules, NEW t \in Held, t.fit = TRUE
  PROVE  Rebuilt(s) \in Proposals /\ Applied(t, Rebuilt(s)) = Told(s)
<1> DEFINE c == Rebuilt(s)
<1>1. c \in Proposals
  BY RebuiltTyped
<1>2. \A q \in Queues : /\ c[q].clear = TRUE
                        /\ c[q].count = Cardinality(DOMAIN s[q])
                        /\ c[q].changes = Emitted(<<>>, s[q], FALSE)
  BY DEF Rebuilt
<1> HIDE DEF c
<1>3. /\ Told(s) \in Held /\ Told(s).fit = TRUE
      /\ \A q \in Queues : Told(s)[q] = s[q]
  BY ScheduleOfWhole, WholeIs DEF Queues
<1>4. ASSUME NEW q \in Queues
      PROVE  /\ Matches(Base(t, c, q), c[q].changes)
             /\ Apply(Base(t, c, q), c[q].changes) = Told(s)[q]
             /\ c[q].count = Cardinality(DOMAIN Told(s)[q])
  <2>1. Base(t, c, q) = <<>>
    BY <1>2 DEF Base
  <2>2. <<>> \in Members /\ s[q] \in Members
    BY <1>3, QueueOfHeld, NobodyIsMembers
  <2>3. /\ Matches(<<>>, Emitted(<<>>, s[q], FALSE))
        /\ Apply(<<>>, Emitted(<<>>, s[q], FALSE)) = s[q]
    BY ONLY <2>2, EmittedLeads
  <2> QED BY ONLY <1>2, <1>3, <2>1, <2>3
<1>5. Leads(c, t, Told(s))
  BY <1>1, <1>4 DEF Leads
<1> QED BY <1>1, <1>3, <1>4, <1>5, LeadingIsApplying DEF c

-----------------------------------------------------------------------------
(* The invariant of the chain of schedules: while backup producers are     *)
(* elected, every row of the present sequence leads to a schedule that was *)
(* elected, and the last one to the present one.                           *)

ChainOf(s, rows, seq) ==
  \A n \in 1 .. Len(rows) : rows[n].seq = seq => After(s, rows, seq)[n] \in Whole

ChainInv ==
  /\ LogInv
  /\ native \in Feedable
  /\ version = Enabled => elected \in Schedules /\ ChainOf(native, log, sequence)
  /\ LogAddsUp

\* What a batch of the first m rows comes to.
LEMMA FlushTells ==
  ASSUME ChainInv, version = Enabled, NEW m \in 0 .. Len(log)
  PROVE  /\ IsMergeable(MergedRows(m))
         /\ ChangeSize(MergedRows(m)) \in Nat
         /\ ChangeSize(MergedRows(m)) > 0 =>
              Applied(native, MergedRows(m)) = After(native, log, sequence)[m]
         /\ ChangeSize(MergedRows(m)) = 0 => After(native, log, sequence)[m] = native
         /\ Among(log, sequence, m) => After(native, log, sequence)[m] \in Whole
         /\ ~ Among(log, sequence, m) => After(native, log, sequence)[m] = native
<1> DEFINE c == MergedRows(m)
           t == After(native, log, sequence)[m]
<1>1. /\ log \in Seq(LogRows) /\ native \in Feedable
      /\ ChainOf(native, log, sequence)
  BY DEF ChainInv, LogInv, TypeOK
<1>2. /\ Leads(c, native, t)
      /\ ~ Among(log, sequence, m) => c = NoProposal /\ t = native
      /\ Among(log, sequence, m) =>
           t \in Whole /\ \A q \in Queues : c[q].count = Cardinality(DOMAIN t[q])
  BY <1>1, BatchLeads DEF MergedRows, ChainOf
<1> HIDE DEF c, t
<1>3. native \in Held /\ native.fit = TRUE
  BY <1>1, FeedableIs
<1>4. c \in Proposals
  BY <1>2 DEF Leads
<1>5. IsMergeable(c)
  <2>1. ASSUME NEW q \in Queues, NEW p \in Producers PROVE c[q].changes[p].op # "bad"
    <3>1. c[q].changes[p] \in Changes
      BY <1>4, ProposalQueue DEF KeyMaps
    <3> QED BY <3>1, ChangeForms
  <2> QED BY <2>1 DEF IsMergeable, IsBad
<1>6. ChangeSize(c) \in Nat
  BY <1>4, SizeIs
<1>7. ~ Among(log, sequence, m) => ChangeSize(c) = 0
  <2>1. \A q \in Queues, p \in Producers : NoProposal[q].changes[p] = None
    BY DEF NoProposal, NoChanges
  <2>2. NoProposal \in Proposals
    BY <1>3, NoProposalLeads DEF Leads
  <2> QED BY <1>2, <2>1, <2>2, SizeIs
<1>8. ChangeSize(c) > 0 => Applied(native, c) = t
  <2> SUFFICES ASSUME ChangeSize(c) > 0 PROVE Applied(native, c) = t
    OBVIOUS
  <2>1. Among(log, sequence, m)
    BY <1>6, <1>7
  <2>2. t \in Held /\ t.fit = TRUE
    BY <1>2, <2>1, WholeIs
  <2> QED BY <1>2, <1>3, <2>1, <2>2, LeadingIsApplying
<1>9. ChangeSize(c) = 0 => t = native
  BY <1>2, <1>3, EmptyLeadsNowhere
<1> QED BY <1>2, <1>5, <1>6, <1>8, <1>9 DEF c, t

LEMMA ChainKept ==
  ASSUME ChainInv, UNCHANGED <<version, elected, interrupted, sequence, log, native>>
  PROVE  /\ native' \in Feedable
         /\ version' = Enabled => elected' \in Schedules /\ ChainOf(native', log', sequence')
         /\ LogAddsUp'
BY DEF ChainInv, LogAddsUp

\* A batch told, or one that comes to nothing, and erased.
LEMMA ErasingKeepsChain ==
  ASSUME ChainInv, version = Enabled, NEW m \in 0 .. Len(log), log' = Without(m),
         native' = After(native, log, sequence)[m],
         UNCHANGED <<version, elected, interrupted, sequence>>
  PROVE  /\ native' \in Feedable
         /\ version' = Enabled => elected' \in Schedules /\ ChainOf(native', log', sequence')
         /\ LogAddsUp'
<1>1. /\ log \in Seq(LogRows) /\ native \in Feedable /\ elected \in Schedules
      /\ ChainOf(native, log, sequence) /\ Len(log) \in Nat
  BY DEF ChainInv, LogInv, TypeOK
<1>2. native' \in Feedable
  <2>1. CASE Among(log, sequence, m)
    BY <2>1, FlushTells, WholeIs
  <2>2. CASE ~ Among(log, sequence, m)
    BY <1>1, <2>2, FlushTells
  <2> QED BY <2>1, <2>2
<1>3. /\ Len(log') = Len(log) - m
      /\ \A n \in 1 .. Len(log') : log'[n] = log[m + n]
  BY <1>1 DEF Without
<1>4. \A n \in 0 .. Len(log') :
        After(native', log', sequence')[n] = After(native, log, sequence)[m + n]
  <2>1. \A n \in 0 .. Len(log) - m :
          After(After(native, log, sequence)[m], SubSeq(log, m + 1, Len(log)), sequence)[n]
            = After(native, log, sequence)[m + n]
    BY <1>1, AfterErasing
  <2>2. log' = SubSeq(log, m + 1, Len(log)) /\ sequence' = sequence
    BY DEF Without
  <2> QED BY <1>3, <2>1, <2>2
<1>5. ASSUME NEW n \in 1 .. Len(log'), log'[n].seq = sequence'
      PROVE  After(native', log', sequence')[n] \in Whole
  <2>1. m + n \in 1 .. Len(log) /\ log[m + n].seq = sequence /\ n \in 0 .. Len(log')
    BY <1>1, <1>3, <1>5
  <2>2. After(native, log, sequence)[m + n] \in Whole
    BY <1>1, <2>1 DEF ChainOf
  <2> QED BY <1>4, <2>1, <2>2
<1>6. LogAddsUp'
  <2> SUFFICES ASSUME version' = Enabled, interrupted' = FALSE
               PROVE  After(native', log', sequence')[Len(log')] = Told(elected')
    BY DEF LogAddsUp, ChainInv, LogInv, TypeOK
  <2>1. After(native, log, sequence)[Len(log)] = Told(elected)
    BY DEF LogAddsUp, ChainInv
  <2>2. m + Len(log') = Len(log) /\ Len(log') \in 0 .. Len(log')
    BY <1>1, <1>3
  <2> QED BY <1>4, <2>1, <2>2
<1> QED BY <1>1, <1>2, <1>5, <1>6 DEF ChainOf

\* A row saved under the present sequence or a new one.
LEMMA AppendKeepsChain ==
  ASSUME ChainInv, NEW s \in Schedules, NEW seq \in Nat, NEW changes \in Proposals,
         seq = sequence => version = Enabled,
         seq # sequence => seq > sequence,
         Applied(After(native, log, seq)[Len(log)], changes) = Told(s),
         log' = Append(log, Row(seq, changes)),
         sequence' = seq, elected' = s, UNCHANGED <<version, native>>
  PROVE  /\ native' \in Feedable
         /\ version' = Enabled => elected' \in Schedules /\ ChainOf(native', log', sequence')
         /\ LogAddsUp'
<1>1. /\ log \in Seq(LogRows) /\ native \in Feedable /\ lastId \in Nat /\ sequence \in Nat
      /\ Len(log) \in Nat
      /\ version = Enabled => ChainOf(native, log, sequence)
      /\ \A i \in 1 .. Len(log) : log[i].seq \in Nat /\ log[i].seq <= sequence
  BY RowsTyped DEF ChainInv, LogInv, TypeOK, LogOrdered
<1>2. Row(seq, changes) \in LogRows /\ Row(seq, changes).seq = seq /\ Row(seq, changes).changes = changes
  BY <1>1 DEF Row, LogRows
<1>3. /\ Len(log') = Len(log) + 1
      /\ \A n \in 1 .. Len(log) : log'[n] = log[n]
      /\ log'[Len(log) + 1] = Row(seq, changes)
      /\ log' \in Seq(LogRows)
  BY <1>1, <1>2, AppendProperties
<1>4. /\ \A n \in 0 .. Len(log) : After(native, log', seq)[n] = After(native, log, seq)[n]
      /\ After(native, log', seq)[Len(log) + 1]
           = Led(After(native, log, seq)[Len(log)], Row(seq, changes), seq)
  BY <1>1, <1>2, AfterAppend
<1>5. After(native, log', seq)[Len(log')] = Told(s)
  <2>1. Led(After(native, log, seq)[Len(log)], Row(seq, changes), seq)
          = Applied(After(native, log, seq)[Len(log)], changes)
    BY <1>2, LedIs
  <2> QED BY <1>3, <1>4, <2>1
<1>6. ASSUME version' = Enabled PROVE ChainOf(native', log', sequence')
  <2>1. ASSUME NEW n \in 1 .. Len(log'), log'[n].seq = seq
        PROVE  After(native, log', seq)[n] \in Whole
    <3>1. CASE n = Len(log')
      BY <1>5, <3>1, ScheduleOfWhole
    <3>2. CASE n # Len(log')
      <4>1. n \in 1 .. Len(log) /\ n \in 0 .. Len(log)
        BY <1>1, <1>3, <3>2
      <4>2. log[n].seq = seq /\ log[n].seq <= sequence
        BY <1>1, <1>3, <2>1, <4>1
      <4>3. seq = sequence
        BY <1>1, <4>2
      <4>4. After(native, log, seq)[n] \in Whole
        BY <1>1, <1>6, <4>1, <4>2, <4>3 DEF ChainOf
      <4> QED BY <1>4, <4>1, <4>4
    <3> QED BY <3>1, <3>2
  <2> QED BY <2>1 DEF ChainOf
<1>7. LogAddsUp'
  BY <1>5 DEF LogAddsUp
<1> QED BY <1>1, <1>6, <1>7

\* A sequence without rows.
LEMMA NewSequenceLeads ==
  ASSUME LogInv, NEW s, NEW seq \in Nat, seq > sequence
  PROVE  /\ \A n \in 1 .. Len(log) : log[n].seq # seq
         /\ \A n \in 0 .. Len(log) : After(s, log, seq)[n] = s
<1>1. log \in Seq(LogRows) /\ sequence \in Nat
  BY DEF LogInv, TypeOK
<1>2. \A n \in 1 .. Len(log) : log[n].seq \in Nat /\ log[n].seq <= sequence
  BY RowsTyped DEF LogInv, LogOrdered
<1>3. \A n \in 1 .. Len(log) : log[n].seq # seq
  BY <1>1, <1>2
<1> QED BY <1>1, <1>3, AfterOthers

LEMMA ChainInit == Init => ChainInv
<1> SUFFICES ASSUME Init PROVE ChainInv
  OBVIOUS
<1>1. LogInv
  BY LogInit
<1>2. native \in Feedable
  BY DEF Init, Feedable
<1>3. version # Enabled
  BY DEF Init, Uninit, Enabled
<1> QED BY <1>1, <1>2, <1>3 DEF ChainInv, LogAddsUp

LEMMA ChainStep == ChainInv /\ [Next]_vars => ChainInv'
<1> SUFFICES ASSUME ChainInv, [Next]_vars PROVE ChainInv'
  OBVIOUS
<1> DEFINE Kept == /\ native' \in Feedable
                   /\ version' = Enabled => elected' \in Schedules /\ ChainOf(native', log', sequence')
                   /\ LogAddsUp'
<1>0. LogInv /\ native \in Feedable /\ native \in Held /\ native.fit = TRUE
  BY FeedableIs DEF ChainInv
<1>1. ASSUME NEW s \in Schedules, NEW again \in BOOLEAN, Emit(s, again)
      PROVE  Kept
  <2>1. /\ version = Enabled /\ interrupted = FALSE
        /\ elected \in Schedules
        /\ After(native, log, sequence)[Len(log)] = Told(elected)
    BY <1>1 DEF Emit, ChainInv, LogAddsUp, LogInv, TypeOK
  <2>2. elected' = s /\ UNCHANGED <<version, interrupted, sequence, native>>
    BY <1>1 DEF Emit
  <2>3. CASE ChangeSize(Difference(elected, s, again)) = 0
    <3>1. Told(s) = Told(elected)
      BY <2>1, <2>3, NoDifference
    <3>2. log' = log
      BY <1>1, <2>3 DEF Emit
    <3> QED BY <1>0, <2>1, <2>2, <3>1, <3>2 DEF ChainInv, LogAddsUp
  <2>4. CASE ChangeSize(Difference(elected, s, again)) # 0
    <3>1. log' = Append(log, Row(sequence, Difference(elected, s, again)))
      BY <1>1, <2>4 DEF Emit
    <3>2. /\ Difference(elected, s, again) \in Proposals
          /\ Applied(Told(elected), Difference(elected, s, again)) = Told(s)
      BY <2>1, DifferenceLeads
    <3>3. sequence \in Nat
      BY <1>0 DEF LogInv, TypeOK
    <3> QED BY <2>1, <2>2, <3>1, <3>2, <3>3, AppendKeepsChain
  <2> QED BY <2>3, <2>4
<1>2. ASSUME NEW s \in Schedules, Drop(s)
      PROVE  Kept
  BY <1>0, <1>2 DEF Drop, ChainInv, LogAddsUp
<1>3. ASSUME NEW s \in Schedules, Restart(s)
      PROVE  Kept
  <2>1. sequence + 1 \in Nat /\ sequence + 1 > sequence
    BY <1>0 DEF LogInv, TypeOK
  <2>2. Len(log) \in 0 .. Len(log)
    BY <1>0 DEF LogInv, TypeOK
  <2>3. After(native, log, sequence + 1)[Len(log)] = native
    BY <1>0, <2>1, <2>2, NewSequenceLeads
  <2>4. Rebuilt(s) \in Proposals /\ Applied(native, Rebuilt(s)) = Told(s)
    BY <1>0, RebuiltLeads
  <2>5. /\ elected' = s /\ sequence' = sequence + 1
        /\ log' = Append(log, Row(sequence + 1, Rebuilt(s)))
        /\ UNCHANGED <<version, native>>
    BY <1>3 DEF Restart
  <2>6. sequence + 1 # sequence
    BY <2>1
  <2> QED BY <2>1, <2>3, <2>4, <2>5, <2>6, AppendKeepsChain
<1>4. ASSUME NEW s \in Schedules, InitBbpElect(s)
      PROVE  Kept
  <2>1. /\ elected' = s /\ sequence' = sequence + 1 /\ native' = Applied(native, Rebuilt(s))
        /\ log' = log
    BY <1>4 DEF InitBbpElect
  <2>2. sequence + 1 \in Nat /\ sequence + 1 > sequence /\ Len(log) \in 0 .. Len(log)
    BY <1>0 DEF LogInv, TypeOK
  <2>3. native' = Told(s)
    BY <1>0, <2>1, RebuiltLeads
  <2>4. /\ \A n \in 1 .. Len(log) : log[n].seq # sequence + 1
        /\ \A n \in 0 .. Len(log) : After(Told(s), log, sequence + 1)[n] = Told(s)
    BY <1>0, <2>2, NewSequenceLeads
  <2>5. native' \in Feedable
    BY <2>3, ScheduleOfWhole, WholeIs
  <2>6. ChainOf(native', log', sequence')
    BY <2>1, <2>4 DEF ChainOf
  <2>7. LogAddsUp'
    BY <2>1, <2>2, <2>3, <2>4 DEF LogAddsUp
  <2> QED BY <2>1, <2>5, <2>6, <2>7
<1>5. ASSUME NEW s \in Schedules, UpgradeVote(s) \/ OnBlockWhole(s)
      PROVE  Kept
  <2>1. version' # Enabled
    BY <1>5 DEF UpgradeVote, OnBlockWhole, Disabled, Enabled
  <2>2. native' \in Feedable
    BY <1>0, <1>5 DEF UpgradeVote, OnBlockWhole, TellWhole, Feedable
  <2> QED BY <2>1, <2>2 DEF LogAddsUp
<1>6. ASSUME FlushMerged PROVE Kept
  <2>1. /\ version = Enabled /\ ChangeSize(MergedRows(Batch)) > 0
        /\ native' = Applied(native, MergedRows(Batch))
        /\ log' = Without(Batch)
        /\ UNCHANGED <<version, elected, interrupted, sequence>>
    BY <1>6 DEF FlushMerged
  <2>2. Batch \in 0 .. Len(log)
    BY <1>0, BatchIsPart DEF LogInv
  <2>3. native' = After(native, log, sequence)[Batch]
    BY <2>1, <2>2, FlushTells
  <2> QED BY <2>1, <2>2, <2>3, ErasingKeepsChain
<1>7. ASSUME FlushEmpty PROVE Kept
  <2>1. /\ version = Enabled /\ ChangeSize(MergedRows(Batch)) = 0
        /\ log' = Without(Batch) \/ log' = log
        /\ UNCHANGED <<version, elected, interrupted, sequence, native>>
    BY <1>7 DEF FlushEmpty
  <2>2. Batch \in 0 .. Len(log)
    BY <1>0, BatchIsPart DEF LogInv
  <2>3. native' = After(native, log, sequence)[Batch]
    BY <2>1, <2>2, FlushTells
  <2>4. CASE log' = Without(Batch)
    BY <2>1, <2>2, <2>3, <2>4, ErasingKeepsChain
  <2>5. CASE log' = log
    BY <2>1, <2>5, ChainKept
  <2> QED BY <2>1, <2>4, <2>5
<1>8. ASSUME NativeReady PROVE Kept
  BY <1>8, ChainKept DEF NativeReady
<1>9. ASSUME UNCHANGED vars PROVE Kept
  BY <1>9, ChainKept DEF vars
<1> HIDE DEF Kept
<1>10. Kept
  BY <1>1, <1>2, <1>3, <1>4, <1>5, <1>6, <1>7, <1>8, <1>9 DEF Next, Voting, Configuring, OnBlock
<1>11. LogInv'
  BY <1>0, LogStep
<1> QED BY <1>10, <1>11 DEF ChainInv, Kept

LEMMA ChainInvariant == Spec => []ChainInv
BY ChainInit, ChainStep, PTL DEF Spec

\* What the native system was told and the rows still in the log add up to
\* the elected schedule, however votes, batches and new starts alternate.
THEOREM LogAlwaysAddsUp == Spec => []LogAddsUp
<1>1. ChainInv => LogAddsUp
  BY DEF ChainInv
<1> QED BY <1>1, ChainInvariant, PTL

\* Merging the rows of any batch never aborts onblock.
THEOREM FlushesNeverAbort == Spec => []FlushNeverAborts
<1>1. ChainInv => FlushNeverAborts
  <2> SUFFICES ASSUME ChainInv, version = Enabled, NEW n \in 1 .. Len(log)
               PROVE  IsMergeable(MergedRows(n))
    BY DEF FlushNeverAborts
  <2>1. n \in 0 .. Len(log)
    OBVIOUS
  <2> QED BY <2>1, FlushTells
<1> QED BY <1>1, ChainInvariant, PTL

-----------------------------------------------------------------------------
(* The log implements the feed of schedules.  The rows of former sequences *)
(* are the first ones of the log; the others stand for pending schedules.  *)

\* Of the first numbers of an interval, those outside a set that holds with a
\* number all greater ones are as many as the greatest of them says.
LEMMA FirstOnes ==
  ASSUME NEW L \in Nat, NEW S \in SUBSET (1 .. L),
         \A i, j \in 1 .. L : i < j /\ j \in S => i \in S
  PROVE  Cardinality(S) \in 0 .. L /\ \A n \in 1 .. L : n \in S <=> n <= Cardinality(S)
<1> DEFINE T == {n \in 0 .. L : \E k \in 0 .. n : S \cap (1 .. n) = 1 .. k}
<1>1. 0 \in T
  <2>1. S \cap (1 .. 0) = 1 .. 0
    OBVIOUS
  <2> QED BY <2>1
<1>2. ASSUME NEW n \in 0 .. L - 1, n \in T PROVE n + 1 \in T
  <2>1. PICK k \in 0 .. n : S \cap (1 .. n) = 1 .. k
    BY <1>2
  <2>2. n + 1 \in 1 .. L
    OBVIOUS
  <2>3. CASE n + 1 \in S
    <3>1. \A i \in 1 .. n : i \in S
      BY <2>2, <2>3
    <3>2. S \cap (1 .. n + 1) = 1 .. n + 1
      BY <2>3, <3>1
    <3> QED BY <2>2, <3>2
  <2>4. CASE n + 1 \notin S
    <3>1. S \cap (1 .. n + 1) = S \cap (1 .. n)
      BY <2>4
    <3> QED BY <2>1, <2>2, <3>1
  <2> QED BY <2>3, <2>4
<1> HIDE DEF T
<1>3. L \in T
  BY <1>1, <1>2, IntervalInduction
<1>4. PICK k \in 0 .. L : S = 1 .. k
  BY <1>3 DEF T
<1>5. Cardinality(S) = k
  BY <1>4, FS_Interval
<1> QED BY <1>4, <1>5

LEMMA OldRowsFirst == LogInv =>
  /\ OldRows \in 0 .. Len(log)
  /\ \A n \in 1 .. Len(log) : log[n].seq # sequence <=> n <= OldRows
<1> SUFFICES ASSUME LogInv
             PROVE  /\ OldRows \in 0 .. Len(log)
                    /\ \A n \in 1 .. Len(log) : log[n].seq # sequence <=> n <= OldRows
  OBVIOUS
<1> DEFINE S == {n \in 1 .. Len(log) : log[n].seq # sequence}
<1>1. Len(log) \in Nat /\ sequence \in Nat
  BY DEF LogInv, TypeOK
<1>2. \A i, j \in 1 .. Len(log) : i < j => log[i].seq <= log[j].seq
  BY DEF LogInv, LogOrdered
<1>3. \A i \in 1 .. Len(log) : log[i].seq \in Nat /\ log[i].seq <= sequence
  BY RowsTyped DEF LogInv, LogOrdered
<1>4. S \in SUBSET (1 .. Len(log)) /\ \A i, j \in 1 .. Len(log) : i < j /\ j \in S => i \in S
  BY <1>1, <1>2, <1>3
<1>5. OldRows = Cardinality(S) /\ \A n \in 1 .. Len(log) : n \in S <=> log[n].seq # sequence
  BY DEF OldRows
<1> HIDE DEF S
<1> QED BY <1>1, <1>4, <1>5, FirstOnes

LEMMA OldRowsFirstAfter == (LogInv =>
  /\ OldRows \in 0 .. Len(log)
  /\ \A n \in 1 .. Len(log) : log[n].seq # sequence <=> n <= OldRows)'
BY OldRowsFirst, PTL

\* The schedules pending, one for each row of the present sequence.
LEMMA PendingIs == ChainInv =>
  /\ Pending \in Seq(Whole)
  /\ version # Enabled => Pending = <<>>
  /\ version = Enabled =>
       /\ Len(Pending) = Len(log) - OldRows
       /\ \A n \in 1 .. Len(log) - OldRows :
            Pending[n] = After(native, log, sequence)[OldRows + n]
<1> SUFFICES ASSUME ChainInv
             PROVE  /\ Pending \in Seq(Whole)
                    /\ version # Enabled => Pending = <<>>
                    /\ version = Enabled =>
                         /\ Len(Pending) = Len(log) - OldRows
                         /\ \A n \in 1 .. Len(log) - OldRows :
                              Pending[n] = After(native, log, sequence)[OldRows + n]
  OBVIOUS
<1>1. LogInv /\ Len(log) \in Nat
  BY DEF ChainInv, LogInv, TypeOK
<1>2. /\ OldRows \in 0 .. Len(log)
      /\ \A n \in 1 .. Len(log) : log[n].seq # sequence <=> n <= OldRows
  BY <1>1, OldRowsFirst
<1>3. CASE version # Enabled
  BY <1>3 DEF Pending
<1>4. CASE version = Enabled
  <2> DEFINE L == Len(log) - OldRows
  <2>1. ASSUME NEW n \in 1 .. L PROVE After(native, log, sequence)[OldRows + n] \in Whole
    <3>1. OldRows + n \in 1 .. Len(log) /\ ~ (OldRows + n <= OldRows)
      BY <1>1, <1>2
    <3>2. log[OldRows + n].seq = sequence
      BY <1>2, <3>1
    <3> QED BY <1>4, <3>1, <3>2 DEF ChainInv, ChainOf
  <2>2. L \in Nat
    BY <1>1, <1>2
  <2>3. Pending = [n \in 1 .. L |-> After(native, log, sequence)[OldRows + n]]
    BY <1>4 DEF Pending
  <2> HIDE DEF L
  <2>4. Pending \in [1 .. L -> Whole]
    BY <2>1, <2>3
  <2>5. Pending \in Seq(Whole) /\ Len(Pending) = L
    <3>1. Pending \in Seq(Whole)
      BY <2>2, <2>4, SeqDef
    <3>2. DOMAIN Pending = 1 .. L
      BY <2>4
    <3> QED BY <2>2, <3>1, <3>2
  <2> QED BY <1>4, <2>3, <2>5 DEF L
<1> QED BY <1>3, <1>4

LEMMA PendingAfter == (ChainInv =>
  /\ Pending \in Seq(Whole)
  /\ version # Enabled => Pending = <<>>
  /\ version = Enabled =>
       /\ Len(Pending) = Len(log) - OldRows
       /\ \A n \in 1 .. Len(log) - OldRows :
            Pending[n] = After(native, log, sequence)[OldRows + n])'
BY PendingIs, PTL

\* Two counts that divide an interval alike are the same.
LEMMA SameCut ==
  ASSUME NEW L \in Nat, NEW a \in 0 .. L, NEW b \in 0 .. L,
         \A n \in 1 .. L : n <= a <=> n <= b
  PROVE  a = b
<1>1. CASE a < b
  <2>1. b \in 1 .. L /\ b <= b /\ ~ (b <= a)
    BY <1>1
  <2> QED BY <2>1
<1>2. CASE b < a
  <2>1. a \in 1 .. L /\ a <= a /\ ~ (a <= b)
    BY <1>2
  <2> QED BY <2>1
<1> QED BY <1>1, <1>2

FeedStep == FeedOfSchedules!FeedNext \/ UNCHANGED <<native, Pending>>

\* What a step of the feed is.
LEMMA FeedSteps ==
  ASSUME \/ UNCHANGED <<native, Pending>>
         \/ \E t \in Feedable : native' = native /\ Pending' = Append(Pending, t)
         \/ \E t \in Feedable : native' = native /\ Pending' = <<t>>
         \/ native' \in Feedable /\ Pending' = <<>>
         \/ \E n \in 1 .. Len(Pending) :
              native' = Pending[n] /\ Pending' = SubSeq(Pending, n + 1, Len(Pending))
  PROVE  FeedStep
<1>1. CASE UNCHANGED <<native, Pending>>
  BY <1>1 DEF FeedStep
<1>2. ASSUME NEW t \in Feedable, native' = native, Pending' = Append(Pending, t)
      PROVE  FeedOfSchedules!FeedNext
  BY <1>2 DEF FeedOfSchedules!FeedNext, FeedOfSchedules!Decide, Feedable, Whole
<1>3. ASSUME NEW t \in Feedable, native' = native, Pending' = <<t>>
      PROVE  FeedOfSchedules!FeedNext
  BY <1>3 DEF FeedOfSchedules!FeedNext, FeedOfSchedules!StartAgain, Feedable, Whole
<1>4. ASSUME native' \in Feedable, Pending' = <<>>
      PROVE  FeedOfSchedules!FeedNext
  BY <1>4 DEF FeedOfSchedules!FeedNext, FeedOfSchedules!Replace, Feedable, Whole
<1>5. ASSUME NEW n \in 1 .. Len(Pending), native' = Pending[n],
             Pending' = SubSeq(Pending, n + 1, Len(Pending))
      PROVE  FeedOfSchedules!FeedNext
  BY <1>5 DEF FeedOfSchedules!FeedNext, FeedOfSchedules!Announce
<1> QED BY <1>1, <1>2, <1>3, <1>4, <1>5 DEF FeedStep

\* A row saved under the present sequence decides a schedule.
LEMMA AppendDecides ==
  ASSUME ChainInv, ChainInv', version = Enabled, interrupted' = FALSE,
         NEW s \in Schedules, elected' = s,
         NEW changes \in Proposals, log' = Append(log, Row(sequence, changes)),
         UNCHANGED <<version, sequence, native>>
  PROVE  Pending' = Append(Pending, Told(s))
<1>1. /\ LogInv /\ LogInv' /\ log \in Seq(LogRows) /\ Len(log) \in Nat /\ lastId \in Nat
      /\ sequence \in Nat
  BY DEF ChainInv, LogInv, TypeOK
<1>2. Row(sequence, changes) \in LogRows /\ Row(sequence, changes).seq = sequence
  BY <1>1 DEF Row, LogRows
<1>3. /\ Len(log') = Len(log) + 1
      /\ \A n \in 1 .. Len(log) : log'[n] = log[n]
      /\ log'[Len(log) + 1] = Row(sequence, changes)
  BY <1>1, <1>2, AppendProperties
<1>4. /\ OldRows \in 0 .. Len(log) /\ OldRows' \in 0 .. Len(log')
      /\ \A n \in 1 .. Len(log) : log[n].seq # sequence <=> n <= OldRows
      /\ \A n \in 1 .. Len(log') : log'[n].seq # sequence' <=> n <= OldRows'
  BY <1>1, OldRowsFirst, OldRowsFirstAfter
<1>5. OldRows' = OldRows
  <2>1. ~ (Len(log) + 1 <= OldRows')
    <3>1. Len(log) + 1 \in 1 .. Len(log')
      BY <1>1, <1>3
    <3> QED BY <1>2, <1>3, <1>4, <3>1
  <2>2. OldRows' \in 0 .. Len(log)
    BY <1>1, <1>3, <1>4, <2>1
  <2>3. \A n \in 1 .. Len(log) : n <= OldRows <=> n <= OldRows'
    <3> TAKE n \in 1 .. Len(log)
    <3>1. n \in 1 .. Len(log') /\ log'[n].seq = log[n].seq
      BY <1>1, <1>3
    <3> QED BY <1>4, <3>1
  <2> QED BY <1>1, <1>4, <2>2, <2>3, SameCut
<1>6. /\ Pending \in Seq(Whole) /\ Pending' \in Seq(Whole)
      /\ Len(Pending) = Len(log) - OldRows
      /\ \A n \in 1 .. Len(log) - OldRows : Pending[n] = After(native, log, sequence)[OldRows + n]
  BY PendingIs, PendingAfter
<1>7. /\ Len(Pending') = Len(log') - OldRows'
      /\ \A n \in 1 .. Len(log') - OldRows' :
           Pending'[n] = After(native', log', sequence')[OldRows' + n]
  BY PendingAfter
<1>8. \A n \in 0 .. Len(log) : After(native, log', sequence)[n] = After(native, log, sequence)[n]
  BY <1>1, <1>2, AfterAppend
<1>9. After(native', log', sequence')[Len(log')] = Told(s)
  <2>1. LogAddsUp'
    BY DEF ChainInv
  <2> QED BY <2>1 DEF LogAddsUp
<1>10. Told(s) \in Whole
  BY ScheduleOfWhole
<1> DEFINE more == Append(Pending, Told(s))
           L == Len(log) - OldRows
<1>11. /\ more \in Seq(Whole) /\ Len(more) = L + 1 /\ L \in Nat
       /\ \A n \in 1 .. L : more[n] = Pending[n]
       /\ more[L + 1] = Told(s)
  BY <1>1, <1>4, <1>6, <1>10, AppendProperties
<1> HIDE DEF more
<1>12. Len(Pending') = Len(more)
  BY <1>1, <1>3, <1>4, <1>5, <1>7, <1>11
<1>13. ASSUME NEW n \in 1 .. Len(Pending') PROVE Pending'[n] = more[n]
  <2>1. n \in 1 .. Len(log') - OldRows' /\ Pending'[n] = After(native, log', sequence)[OldRows + n]
    BY <1>5, <1>7
  <2>2. CASE n = L + 1
    <3>1. OldRows + n = Len(log')
      BY <1>1, <1>3, <1>4, <2>2
    <3> QED BY <1>9, <1>11, <2>1, <2>2, <3>1
  <2>3. CASE n # L + 1
    <3>1. n \in 1 .. L /\ OldRows + n \in 0 .. Len(log)
      BY <1>1, <1>4, <1>11, <1>12, <2>3
    <3> QED BY <1>6, <1>8, <1>11, <2>1, <3>1
  <2> QED BY <2>2, <2>3
<1> QED BY <1>6, <1>11, <1>12, <1>13, SeqEqual DEF more

\* A row saved under a new sequence starts again.
LEMMA RestartStarts ==
  ASSUME ChainInv, ChainInv', version = Enabled, interrupted' = FALSE,
         NEW s \in Schedules, elected' = s,
         NEW changes \in Proposals, log' = Append(log, Row(sequence + 1, changes)),
         sequence' = sequence + 1, UNCHANGED <<version, native>>
  PROVE  Pending' = <<Told(s)>>
<1>1. /\ LogInv /\ LogInv' /\ log \in Seq(LogRows) /\ Len(log) \in Nat /\ lastId \in Nat
      /\ sequence \in Nat
  BY DEF ChainInv, LogInv, TypeOK
<1>2. Row(sequence + 1, changes) \in LogRows /\ Row(sequence + 1, changes).seq = sequence + 1
  BY <1>1 DEF Row, LogRows
<1>3. /\ Len(log') = Len(log) + 1
      /\ \A n \in 1 .. Len(log) : log'[n] = log[n]
      /\ log'[Len(log) + 1] = Row(sequence + 1, changes)
  BY <1>1, <1>2, AppendProperties
<1>4. /\ OldRows' \in 0 .. Len(log')
      /\ \A n \in 1 .. Len(log') : log'[n].seq # sequence' <=> n <= OldRows'
  BY <1>1, OldRowsFirstAfter
<1>5. \A n \in 1 .. Len(log) : log[n].seq # sequence + 1
  <2>1. sequence + 1 \in Nat /\ sequence + 1 > sequence
    BY <1>1
  <2> QED BY <1>1, <2>1, NewSequenceLeads
<1>6. OldRows' = Len(log)
  <2>1. \A n \in 1 .. Len(log') : n <= OldRows' <=> n <= Len(log)
    <3> TAKE n \in 1 .. Len(log')
    <3>1. CASE n <= Len(log)
      <4>1. n \in 1 .. Len(log)
        BY <1>1, <3>1
      <4> QED BY <1>3, <1>4, <1>5, <4>1
    <3>2. CASE ~ (n <= Len(log))
      <4>1. n = Len(log) + 1
        BY <1>1, <1>3, <3>2
      <4> QED BY <1>2, <1>3, <1>4, <3>2, <4>1
    <3> QED BY <3>1, <3>2
  <2>2. Len(log') \in Nat /\ Len(log) \in 0 .. Len(log')
    BY <1>1, <1>3
  <2> QED BY <1>4, <2>1, <2>2, SameCut
<1>7. /\ Pending' \in Seq(Whole) /\ Len(Pending') = Len(log') - OldRows'
      /\ \A n \in 1 .. Len(log') - OldRows' :
           Pending'[n] = After(native', log', sequence')[OldRows' + n]
  BY PendingAfter
<1>8. After(native', log', sequence')[Len(log')] = Told(s)
  <2>1. LogAddsUp'
    BY DEF ChainInv
  <2> QED BY <2>1 DEF LogAddsUp
<1>9. Len(log') - OldRows' = 1 /\ OldRows' + 1 = Len(log') /\ 1 \in 1 .. 1
  BY <1>1, <1>3, <1>6
<1>10. Len(Pending') = 1 /\ Pending'[1] = Told(s)
  BY <1>7, <1>8, <1>9
<1>11. Told(s) \in Whole
  BY ScheduleOfWhole
<1>12. <<Told(s)>> \in Seq(Whole) /\ Len(<<Told(s)>>) = 1 /\ <<Told(s)>>[1] = Told(s)
  BY <1>11
<1>13. \A n \in 1 .. Len(Pending') : Pending'[n] = <<Told(s)>>[n]
  BY <1>10, <1>12
<1> QED BY <1>7, <1>10, <1>12, <1>13, SeqEqual

\* A new sequence without rows leaves nothing pending.
LEMMA NewSequencePends ==
  ASSUME ChainInv, ChainInv', sequence' = sequence + 1, log' = log, version' = Enabled
  PROVE  Pending' = <<>>
<1>1. LogInv /\ LogInv' /\ Len(log) \in Nat /\ sequence \in Nat
  BY DEF ChainInv, LogInv, TypeOK
<1>2. sequence + 1 \in Nat /\ sequence + 1 > sequence
  BY <1>1
<1>3. \A n \in 1 .. Len(log) : log[n].seq # sequence + 1
  BY <1>1, <1>2, NewSequenceLeads
<1>4. /\ OldRows' \in 0 .. Len(log')
      /\ \A n \in 1 .. Len(log') : log'[n].seq # sequence' <=> n <= OldRows'
  BY <1>1, OldRowsFirstAfter
<1>5. OldRows' = Len(log)
  <2>1. OldRows' \in 0 .. Len(log) /\ Len(log) \in 0 .. Len(log)
    BY <1>1, <1>4
  <2>2. \A n \in 1 .. Len(log) : n <= OldRows' <=> n <= Len(log)
    BY <1>1, <1>3, <1>4
  <2> QED BY <1>1, <2>1, <2>2, SameCut
<1>6. Pending' \in Seq(Whole) /\ Len(Pending') = Len(log') - OldRows'
  BY PendingAfter
<1>7. Len(Pending') = 0
  BY <1>1, <1>5, <1>6
<1> QED BY <1>6, <1>7, EmptySeq

\* A batch erased announces the schedule its last row leads to, if any of its
\* rows is of the present sequence.
LEMMA ErasingAnnounces ==
  ASSUME ChainInv, ChainInv', version = Enabled, NEW m \in 0 .. Len(log), log' = Without(m),
         native' = After(native, log, sequence)[m], UNCHANGED <<version, sequence>>
  PROVE  FeedStep
<1>1. /\ LogInv /\ LogInv' /\ log \in Seq(LogRows) /\ Len(log) \in Nat
  BY DEF ChainInv, LogInv, TypeOK
<1>2. /\ Len(log') = Len(log) - m
      /\ \A n \in 1 .. Len(log') : log'[n] = log[m + n]
  BY <1>1 DEF Without
<1>3. /\ OldRows \in 0 .. Len(log) /\ OldRows' \in 0 .. Len(log')
      /\ \A n \in 1 .. Len(log) : log[n].seq # sequence <=> n <= OldRows
      /\ \A n \in 1 .. Len(log') : log'[n].seq # sequence' <=> n <= OldRows'
  BY <1>1, OldRowsFirst, OldRowsFirstAfter
<1>4. \A n \in 0 .. Len(log') :
        After(native', log', sequence')[n] = After(native, log, sequence)[m + n]
  <2>1. \A n \in 0 .. Len(log) - m :
          After(After(native, log, sequence)[m], SubSeq(log, m + 1, Len(log)), sequence)[n]
            = After(native, log, sequence)[m + n]
    BY <1>1, AfterErasing
  <2>2. log' = SubSeq(log, m + 1, Len(log)) /\ sequence' = sequence
    BY DEF Without
  <2> QED BY <1>2, <2>1, <2>2
<1>5. /\ Pending \in Seq(Whole) /\ Len(Pending) = Len(log) - OldRows
      /\ \A n \in 1 .. Len(log) - OldRows : Pending[n] = After(native, log, sequence)[OldRows + n]
  BY PendingIs
<1>6. /\ Pending' \in Seq(Whole) /\ Len(Pending') = Len(log') - OldRows'
      /\ \A n \in 1 .. Len(log') - OldRows' :
           Pending'[n] = After(native', log', sequence')[OldRows' + n]
  BY PendingAfter
<1>7. \A n \in 1 .. Len(log') : n <= OldRows' <=> m + n <= OldRows
  <2> TAKE n \in 1 .. Len(log')
  <2>1. m + n \in 1 .. Len(log) /\ log'[n].seq = log[m + n].seq
    BY <1>1, <1>2
  <2> QED BY <1>3, <2>1
<1>8. CASE m > OldRows
  <2>1. OldRows' = 0
    <3>1. ASSUME OldRows' # 0 PROVE FALSE
      <4>1. 1 \in 1 .. Len(log') /\ 1 <= OldRows'
        BY <1>1, <1>2, <1>3, <3>1
      <4>2. m + 1 <= OldRows
        BY <1>7, <4>1
      <4> QED BY <1>3, <1>8, <4>2
    <3> QED BY <3>1
  <2> DEFINE n == m - OldRows
             rest == SubSeq(Pending, n + 1, Len(Pending))
  <2>2. n \in 1 .. Len(Pending) /\ n \in 1 .. Len(log) - OldRows /\ OldRows + n = m
    BY <1>1, <1>3, <1>5, <1>8
  <2>3. native' = Pending[n]
    BY <1>5, <2>2
  <2>4. /\ rest \in Seq(Whole) /\ Len(rest) = Len(Pending) - n
        /\ \A k \in 1 .. Len(rest) : rest[k] = Pending[n + k]
    BY <1>5, <2>2, SMTT(30)
  <2>5. Len(rest) = Len(log') /\ Len(Pending') = Len(log')
    BY <1>1, <1>2, <1>3, <1>5, <1>6, <2>1, <2>2, <2>4
  <2> HIDE DEF rest
  <2>6. ASSUME NEW k \in 1 .. Len(Pending') PROVE Pending'[k] = rest[k]
    <3>1. /\ k \in 1 .. Len(log') - OldRows' /\ OldRows' + k = k /\ k \in 0 .. Len(log')
          /\ n + k \in 1 .. Len(log) - OldRows /\ OldRows + (n + k) = m + k
          /\ k \in 1 .. Len(rest)
      BY <1>1, <1>2, <1>3, <2>1, <2>2, <2>5
    <3>2. Pending'[k] = After(native, log, sequence)[m + k]
      BY <1>4, <1>6, <3>1
    <3>3. rest[k] = After(native, log, sequence)[m + k]
      BY <1>5, <2>4, <3>1
    <3> QED BY <3>2, <3>3
  <2>7. Pending' = rest
    BY <1>6, <2>4, <2>5, <2>6, SeqEqual
  <2>8. native' = Pending[n] /\ Pending' = SubSeq(Pending, n + 1, Len(Pending))
    BY <2>3, <2>7 DEF rest
  <2> HIDE DEF n
  <2> QED BY <2>2, <2>8, FeedSteps
<1>9. CASE m <= OldRows
  <2>1. native' = native
    <3>1. ~ Among(log, sequence, m)
      <4> SUFFICES ASSUME NEW i \in 1 .. m, log[i].seq = sequence PROVE FALSE
        BY DEF Among
      <4>1. i \in 1 .. Len(log) /\ i <= OldRows
        BY <1>1, <1>3, <1>9
      <4> QED BY <1>3, <4>1
    <3> QED BY <3>1, FlushTells
  <2>2. OldRows' = OldRows - m
    <3>1. \A n \in 1 .. Len(log') : n <= OldRows' <=> n <= OldRows - m
      BY <1>1, <1>2, <1>3, <1>7
    <3>2. OldRows - m \in 0 .. Len(log') /\ Len(log') \in Nat
      BY <1>1, <1>2, <1>3, <1>9
    <3> QED BY <1>3, <3>1, <3>2, SameCut
  <2>3. Len(Pending') = Len(Pending)
    BY <1>1, <1>2, <1>3, <1>5, <1>6, <2>2
  <2>4. ASSUME NEW k \in 1 .. Len(Pending') PROVE Pending'[k] = Pending[k]
    <3>1. /\ k \in 1 .. Len(log') - OldRows' /\ OldRows' + k \in 0 .. Len(log')
          /\ k \in 1 .. Len(log) - OldRows /\ m + (OldRows' + k) = OldRows + k
      BY <1>1, <1>2, <1>3, <1>5, <1>6, <2>2, <2>3
    <3>2. Pending'[k] = After(native, log, sequence)[OldRows + k]
      BY <1>4, <1>6, <3>1
    <3> QED BY <1>5, <3>1, <3>2
  <2>5. Pending' = Pending
    BY <1>5, <1>6, <2>3, <2>4, SeqEqual
  <2> QED BY <2>1, <2>5, FeedSteps
<1> QED BY <1>1, <1>3, <1>8, <1>9

LEMMA PendingKept ==
  ASSUME UNCHANGED <<version, sequence, log, native>>
  PROVE  FeedStep
<1>1. Pending' = Pending
  BY DEF Pending, OldRows
<1> QED BY <1>1, FeedSteps

LEMMA FeedsFirst == Init => FeedOfSchedules!FeedInit
<1> SUFFICES ASSUME Init PROVE native \in Feedable /\ Pending = <<>>
  BY DEF FeedOfSchedules!FeedInit, Feedable, Whole
<1>1. native \in Feedable
  BY DEF Init, Feedable
<1>2. Pending = <<>>
  BY DEF Init, Pending, Uninit, Enabled
<1> QED BY <1>1, <1>2

LEMMA FeedsOn == ChainInv /\ ChainInv' /\ [Next]_vars => FeedStep
<1> SUFFICES ASSUME ChainInv, ChainInv', [Next]_vars PROVE FeedStep
  OBVIOUS
<1>0. /\ LogInv /\ native \in Feedable /\ native' \in Feedable
      /\ version # Enabled => Pending = <<>>
      /\ version' # Enabled => Pending' = <<>>
  BY PendingIs, PendingAfter DEF ChainInv
<1>1. ASSUME NEW s \in Schedules, NEW again \in BOOLEAN, Emit(s, again)
      PROVE  FeedStep
  <2>1. CASE ChangeSize(Difference(elected, s, again)) = 0
    BY <1>1, <2>1, PendingKept DEF Emit
  <2>2. CASE ChangeSize(Difference(elected, s, again)) # 0
    <3>1. /\ version = Enabled /\ interrupted' = FALSE /\ elected' = s
          /\ log' = Append(log, Row(sequence, Difference(elected, s, again)))
          /\ UNCHANGED <<version, sequence, native>>
      BY <1>0, <1>1, <2>2 DEF Emit, LogInv, TypeOK
    <3>2. Difference(elected, s, again) \in Proposals
      BY DifferenceTyped
    <3>3. Pending' = Append(Pending, Told(s))
      BY <3>1, <3>2, AppendDecides
    <3>4. Told(s) \in Feedable
      BY DEF Feedable, Whole
    <3> QED BY <3>1, <3>3, <3>4, FeedSteps
  <2> QED BY <2>1, <2>2
<1>2. ASSUME NEW s \in Schedules, Drop(s)
      PROVE  FeedStep
  BY <1>2, PendingKept DEF Drop
<1>3. ASSUME NEW s \in Schedules, Restart(s)
      PROVE  FeedStep
  <2>1. /\ interrupted' = FALSE /\ elected' = s /\ sequence' = sequence + 1
        /\ log' = Append(log, Row(sequence + 1, Rebuilt(s)))
        /\ UNCHANGED <<version, native>>
    BY <1>3 DEF Restart
  <2>2. CASE version = Enabled
    <3>1. Rebuilt(s) \in Proposals
      BY RebuiltTyped
    <3>2. Pending' = <<Told(s)>>
      BY <2>1, <2>2, <3>1, RestartStarts
    <3>3. Told(s) \in Feedable
      BY DEF Feedable, Whole
    <3> QED BY <2>1, <3>2, <3>3, FeedSteps
  <2>3. CASE version # Enabled
    BY <1>0, <2>1, <2>3, FeedSteps
  <2> QED BY <2>2, <2>3
<1>4. ASSUME NEW s \in Schedules, InitBbpElect(s)
      PROVE  FeedStep
  <2>1. sequence' = sequence + 1 /\ log' = log /\ version' = Enabled
    BY <1>4 DEF InitBbpElect
  <2>2. Pending' = <<>>
    BY <2>1, NewSequencePends
  <2> QED BY <1>0, <2>2, FeedSteps
<1>5. ASSUME NEW s \in Schedules, UpgradeVote(s) \/ OnBlockWhole(s)
      PROVE  FeedStep
  <2>1. version' # Enabled
    BY <1>5 DEF UpgradeVote, OnBlockWhole, Disabled, Enabled
  <2> QED BY <1>0, <2>1, FeedSteps
<1>6. ASSUME FlushMerged PROVE FeedStep
  <2>1. /\ version = Enabled /\ ChangeSize(MergedRows(Batch)) > 0
        /\ native' = Applied(native, MergedRows(Batch))
        /\ log' = Without(Batch)
        /\ UNCHANGED <<version, sequence>>
    BY <1>6 DEF FlushMerged
  <2>2. Batch \in 0 .. Len(log)
    BY <1>0, BatchIsPart DEF LogInv
  <2>3. native' = After(native, log, sequence)[Batch]
    BY <2>1, <2>2, FlushTells
  <2> QED BY <2>1, <2>2, <2>3, ErasingAnnounces
<1>7. ASSUME FlushEmpty PROVE FeedStep
  <2>1. /\ version = Enabled /\ ChangeSize(MergedRows(Batch)) = 0
        /\ log' = Without(Batch) \/ log' = log
        /\ UNCHANGED <<version, sequence, native>>
    BY <1>7 DEF FlushEmpty
  <2>2. Batch \in 0 .. Len(log)
    BY <1>0, BatchIsPart DEF LogInv
  <2>3. native' = After(native, log, sequence)[Batch]
    BY <2>1, <2>2, FlushTells
  <2>4. CASE log' = Without(Batch)
    BY <2>1, <2>2, <2>3, <2>4, ErasingAnnounces
  <2>5. CASE log' = log
    BY <2>1, <2>5, PendingKept
  <2> QED BY <2>1, <2>4, <2>5
<1>8. ASSUME NativeReady PROVE FeedStep
  BY <1>8, PendingKept DEF NativeReady
<1>9. ASSUME UNCHANGED vars PROVE FeedStep
  BY <1>9, PendingKept DEF vars
<1> QED
  BY <1>1, <1>2, <1>3, <1>4, <1>5, <1>6, <1>7, <1>8, <1>9 DEF Next, Voting, Configuring, OnBlock

\* The log implements the feed of schedules: what batches of any size tell
\* the native system are elected schedules, in the order they were elected,
\* as if its rows were told one by one.
THEOREM LogFeedsSchedules == Spec => IsScheduleFeed
<1>1. Init => FeedOfSchedules!FeedInit
  BY FeedsFirst
<1>2. ChainInv /\ ChainInv' /\ [Next]_vars => [FeedOfSchedules!FeedNext]_(FeedOfSchedules!feedVars)
  BY FeedsOn DEF FeedStep, FeedOfSchedules!feedVars
<1> QED BY <1>1, <1>2, ChainInvariant, PTL DEF Spec, IsScheduleFeed, FeedOfSchedules!Feed
=============================================================================
