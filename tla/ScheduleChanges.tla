-------------------------- MODULE ScheduleChanges --------------------------
(***************************************************************************)
(* Changes of the block-producer schedule, as amax.system computes, stores *)
(* and hands them to the native system (producer_change.hpp, and           *)
(* producer_change_helper in voting.cpp), and what they do to the schedule *)
(* they are applied to: a map from the name of each scheduled producer to  *)
(* its signing key, one for each of the two queues.                        *)
(***************************************************************************)
EXTENDS Integers, FiniteSets

CONSTANTS
  Producers,    \* the accounts that may register, named by numbers
  Keys,         \* block_signing_authority values
  NoKey         \* the authority deactivate() leaves: no keys, threshold 0

ASSUME KeysAssumption == NoKey \notin Keys

(* producer_change_map: at most one change per producer and queue.  The    *)
(* helpers add, modify and del fold a further change into the one recorded *)
(* and abort on a sequence that makes no sense, here the entry Bad.        *)

None      == [op |-> "none", key |-> NoKey]
Bad       == [op |-> "bad", key |-> NoKey]
Add(k)    == [op |-> "add", key |-> k]
Modify(k) == [op |-> "modify", key |-> k]
Del       == [op |-> "del", key |-> NoKey]
NoChanges == [p \in Producers |-> None]

\* A further change of a producer folded into the change c recorded of it.
Added(c, k) ==
  IF c.op = "none" THEN Add(k) ELSE IF c.op = "del" THEN Modify(k) ELSE Bad

Modified(c, k) ==
  IF c.op = "add" THEN Add(k)
  ELSE IF c.op \in {"none", "modify"} THEN Modify(k) ELSE Bad

DeletedAlways(c) == Del  \* mutant: an add is not taken back

Deleted(c) ==
  IF c.op = "add" THEN None ELSE IF c.op \in {"none", "modify"} THEN Del ELSE Bad

\* The changes with one more change, of the producer info i.
AddChange(changes, i) == [changes EXCEPT ![i.name] = Added(@, i.key)]

ModifyChangeLost(changes, i) == changes  \* mutant: a new key is not passed on

ModifyChange(changes, i) == [changes EXCEPT ![i.name] = Modified(@, i.key)]

DelChange(changes, i) == [changes EXCEPT ![i.name] = Deleted(@)]

IsBad(changes) == \E p \in Producers : changes[p].op = "bad"
IsEmpty(changes) == changes = NoChanges

-----------------------------------------------------------------------------
(* The native schedule of one queue.  Changes fit it unless they add a     *)
(* member, modify or remove a non-member, or lead to another count.        *)

FitsIn(keys, changes, count) ==
  LET added   == {p \in Producers : changes[p].op = "add"}
      removed == {p \in Producers : changes[p].op = "del"}
      changed == {p \in Producers : changes[p].op = "modify"}
  IN  /\ added \cap DOMAIN keys = {}
      /\ removed \cup changed \subseteq DOMAIN keys
      /\ Cardinality((DOMAIN keys \cup added) \ removed) = count

Apply(keys, changes) ==
  [p \in {q \in Producers : \/ changes[q].op \in {"add", "modify"}
                            \/ changes[q].op = "none" /\ q \in DOMAIN keys} |->
     IF changes[p].op = "none" THEN keys[p] ELSE changes[p].key]
=============================================================================
