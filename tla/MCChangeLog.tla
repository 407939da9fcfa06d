---------------------------- MODULE MCChangeLog ----------------------------
(***************************************************************************)
(* An instance of ChangeLog for TLC: three producers, one of them main and *)
(* one or two backup.  The schedules cover a new key, a swap of the two    *)
(* queues, and a backup producer that comes and goes.                      *)
(***************************************************************************)
EXTENDS ChangeLog, TLC

CONSTANTS k1, k2

MCSchedules == {
  [main |-> 1 :> k1, backup |-> 2 :> k1],
  [main |-> 2 :> k1, backup |-> 1 :> k2],
  [main |-> 1 :> k2, backup |-> 2 :> k1 @@ 3 :> k1]}
=============================================================================
