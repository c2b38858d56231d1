----------------------------- MODULE MCMembership -----------------------------
(* Small instances of Membership for TLC. *)
EXTENDS Membership

CONSTANTS m1, m2

Add(m, n, k) == <<m, [epoch |-> n, kind |-> "Add", key |-> k]>>
Rem(m, n, k) == <<m, [epoch |-> n, kind |-> "Remove", key |-> k]>>

Seeded == {[m \in Member |-> IF m = m1 THEN 1 ELSE 0]}
Unseeded == {[m \in Member |-> 0]}

\* Two members, an Add and a Remove of the same epoch, and a re-add.
TwoMembers == {Add(m1, 1, 1), Rem(m1, 1, 1), Add(m1, 2, 2), Add(m2, 1, 1)}

\* A configured peer gets a new certificate and is then removed.
RekeyRemove == {Add(m1, 1, 2), Rem(m1, 2, 2)}

\* A configuration that lists m1, and one that lists nobody.
EitherSeeds == Seeded \cup Unseeded

\* The supervisor has made its first pass.
SettledInit ==
  /\ Loaded
  /\ tasks = effective
  /\ supervisor = [at |-> "idle", desired |-> effective]

SettledSpec == SettledInit /\ [][Next]_vars /\ Fairness
=============================================================================
