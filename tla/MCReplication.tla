---------------------------- MODULE MCReplication ----------------------------
(***************************************************************************)
(* Replication on small instances.  Paths are names and the configurations *)
(* list them.  Only the key 1 ever loses with a copy of its own: the       *)
(* largest key, 2, never loses, so no copy of it is ever named.  A name    *)
(* whose copy is not among the instance's paths stands for its own copy.   *)
(***************************************************************************)
EXTENDS Replication, TLC

CONSTANTS n1, n2, n3

\* The copy of p is p1, and so on.
CopyOf == [p |-> "p1", p1 |-> "p11", p11 |-> "p111", q |-> "q1"]

CopyName(p, v) ==
  IF v # MaxKey /\ p \in DOMAIN CopyOf /\ CopyOf[p] \in Path
  THEN CopyOf[p] ELSE p

Full == {<<n, m>> \in Node \X Node : n # m}
NoLinks == {}

\* n1 has passed its gate before; n2 joins.
OneJoins == {<<n1, n2>>}

OneEach == [n \in Node |-> 1]
TwoAndOne == [n \in Node |-> IF n = n1 THEN 2 ELSE 1]
TwoEach == [n \in Node |-> 2]

Symmetry == Permutations(Node)

=============================================================================
