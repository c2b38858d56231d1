---------------------------- MODULE ConflictProofs ----------------------------
(***************************************************************************)
(* Version vectors form a lattice: the facts about merge and compare that  *)
(* src/vv.rs states as unit tests, for every set of ids and every value of *)
(* the counters.  From these: what a decision means, and what a conflict   *)
(* plan may do to the index, for any number of nodes, paths and values.    *)
(***************************************************************************)
EXTENDS Conflict, WellFoundedInduction, TLAPS

-----------------------------------------------------------------------------
(* Version vectors *)

\* A bounded nonempty set of naturals has a largest element.
LEMMA BoundedHasMax ==
  ASSUME NEW S, S \subseteq Nat, S # {},
         NEW b \in Nat, \A s \in S : s <= b
  PROVE  \E x \in S : \A s \in S : s <= x
<1> DEFINE T == {k \in Nat : b - k \in S}
<1>1. T # {}
  <2>1. PICK s \in S : TRUE
    OBVIOUS
  <2>2. b - s \in Nat /\ b - (b - s) = s
    BY <2>1
  <2> QED
    BY <2>1, <2>2
<1>2. IsWellFoundedOn(OpToRel(<, Nat), Nat)
  BY NatLessThanWellFounded
<1>3. \E k \in T : \A j \in T : ~ (<<j, k>> \in OpToRel(<, Nat))
  <2> HIDE DEF T
  <2>1. T \subseteq Nat
    BY DEF T
  <2> QED
    BY <1>1, <1>2, <2>1, WFMin
<1>4. PICK k \in T : \A j \in T : ~ (j < k)
  <2>1. ASSUME NEW k \in T, NEW j \in T, j < k
        PROVE  <<j, k>> \in OpToRel(<, Nat)
    BY <2>1 DEF OpToRel
  <2> QED
    BY <1>3, <2>1
<1>5. \A s \in S : s <= b - k
  <2> TAKE s \in S
  <2>1. b - s \in T
    <3>1. b - s \in Nat /\ b - (b - s) = s
      OBVIOUS
    <3> QED
      BY <3>1
  <2> QED
    BY <1>4, <2>1
<1> QED
  BY <1>4, <1>5

\* The componentwise maximum of a bounded nonempty set is a maximum of it.
LEMMA MaxOfBounded ==
  ASSUME NEW S, S \subseteq Nat, S # {},
         NEW b \in Nat, \A s \in S : s <= b
  PROVE  Max(S) \in S /\ \A s \in S : s <= Max(S)
<1>1. \E x \in S : \A y \in S : x >= y
  BY BoundedHasMax
<1> QED
  BY <1>1 DEF Max

\* Every vector is at most itself.
LEMMA LeqReflexive ==
  ASSUME NEW v \in VV
  PROVE  Leq(v, v)
BY DEF VV, Leq

\* The order of vectors is transitive.
LEMMA LeqTransitive ==
  ASSUME NEW u \in VV, NEW v \in VV, NEW w \in VV, Leq(u, v), Leq(v, w)
  PROVE  Leq(u, w)
<1> SUFFICES ASSUME NEW i \in Id PROVE u[i] <= w[i]
  BY DEF Leq
<1>1. u[i] \in Nat /\ v[i] \in Nat /\ w[i] \in Nat
  BY DEF VV
<1>2. u[i] <= v[i] /\ v[i] <= w[i]
  BY DEF Leq
<1> QED
  BY <1>1, <1>2

\* Equal vectors are the same vector: "Equal" in compare means identity.
LEMMA LeqAntisymmetric ==
  ASSUME NEW v \in VV, NEW w \in VV, Leq(v, w), Leq(w, v)
  PROVE  v = w
<1>1. \A i \in Id : v[i] = w[i]
  <2> TAKE i \in Id
  <2>1. v[i] \in Nat /\ w[i] \in Nat /\ v[i] <= w[i] /\ w[i] <= v[i]
    BY DEF VV, Leq
  <2> QED
    BY <2>1
<1> QED
  BY <1>1 DEF VV

\* A local write's vector strictly dominates the row it replaces.
LEMMA IncrementAdvances ==
  ASSUME NEW v \in VV, NEW i \in Id
  PROVE  Increment(v, i) \in VV /\ Less(v, Increment(v, i))
<1>1. Increment(v, i) \in VV
  BY DEF VV, Increment
<1>2. Leq(v, Increment(v, i))
  <2> SUFFICES ASSUME NEW j \in Id PROVE v[j] <= Increment(v, i)[j]
    BY DEF Leq
  <2>1. v[j] \in Nat
    BY DEF VV
  <2> QED
    BY <2>1 DEF VV, Increment
<1>3. ~ (Increment(v, i)[i] <= v[i])
  <2>1. v[i] \in Nat
    BY DEF VV
  <2> QED
    BY <2>1 DEF VV, Increment
<1> QED
  BY <1>1, <1>2, <1>3 DEF Less, Leq

\* Merge is the least upper bound.
THEOREM MergeIsLub ==
  ASSUME NEW v \in VV, NEW w \in VV
  PROVE  /\ Merge(v, w) \in VV
         /\ Leq(v, Merge(v, w)) /\ Leq(w, Merge(v, w))
         /\ \A u \in VV : Leq(v, u) /\ Leq(w, u) => Leq(Merge(v, w), u)
<1>1. \A i \in Id : v[i] \in Nat /\ w[i] \in Nat
  BY DEF VV
<1>2. Merge(v, w) \in VV
  BY <1>1 DEF VV, Merge
<1>3. Leq(v, Merge(v, w)) /\ Leq(w, Merge(v, w))
  BY <1>1 DEF Leq, Merge
<1>4. \A u \in VV : Leq(v, u) /\ Leq(w, u) => Leq(Merge(v, w), u)
  BY <1>1 DEF Leq, Merge
<1> QED
  BY <1>2, <1>3, <1>4

\* Merge commutes and is associative and idempotent, so the order in which
\* vectors arrive never matters (the doc comment of VersionVector::merge).
THEOREM MergeLaws ==
  ASSUME NEW u \in VV, NEW v \in VV, NEW w \in VV
  PROVE  /\ Merge(u, v) = Merge(v, u)
         /\ Merge(u, Merge(v, w)) = Merge(Merge(u, v), w)
         /\ Merge(v, v) = v
<1>1. \A i \in Id : u[i] \in Nat /\ v[i] \in Nat /\ w[i] \in Nat
  BY DEF VV
<1>2. Merge(u, v) = Merge(v, u)
  BY <1>1 DEF Merge
<1>3. Merge(u, Merge(v, w)) = Merge(Merge(u, v), w)
  BY <1>1 DEF Merge
<1>4. Merge(v, v) = v
  BY <1>1 DEF Merge, VV
<1> QED
  BY <1>2, <1>3, <1>4

\* Merging a bounded nonempty set of vectors bounds each of them, and takes
\* each component from one of them.
LEMMA MergeAllBounds ==
  ASSUME NEW S, S \subseteq VV, S # {},
         NEW B \in VV, \A v \in S : Leq(v, B)
  PROVE  /\ MergeAll(S) \in VV
         /\ Leq(MergeAll(S), B)
         /\ \A v \in S : Leq(v, MergeAll(S))
         /\ \A i \in Id : \E v \in S : MergeAll(S)[i] = v[i]
<1>1. ASSUME NEW i \in Id
      PROVE  /\ Max({v[i] : v \in S}) \in {v[i] : v \in S}
             /\ \A s \in {v[i] : v \in S} : s <= Max({v[i] : v \in S})
  <2> DEFINE C == {v[i] : v \in S}
  <2>1. C \subseteq Nat /\ C # {}
    BY DEF VV
  <2>2. B[i] \in Nat /\ \A s \in C : s <= B[i]
    BY DEF VV, Leq
  <2> HIDE DEF C
  <2>3. Max(C) \in C /\ \A s \in C : s <= Max(C)
    BY <2>1, <2>2, MaxOfBounded
  <2> QED
    BY <2>3 DEF C
<1>2. ASSUME NEW i \in Id
      PROVE  /\ MergeAll(S)[i] \in Nat
             /\ MergeAll(S)[i] <= B[i]
             /\ \A v \in S : v[i] <= MergeAll(S)[i]
             /\ \E v \in S : MergeAll(S)[i] = v[i]
  <2>1. PICK v \in S : MergeAll(S)[i] = v[i]
    BY <1>1 DEF MergeAll
  <2>2. MergeAll(S)[i] \in Nat /\ MergeAll(S)[i] <= B[i]
    BY <2>1 DEF VV, Leq
  <2>3. \A u \in S : u[i] <= MergeAll(S)[i]
    BY <1>1 DEF MergeAll
  <2> QED
    BY <2>1, <2>2, <2>3
<1>3. MergeAll(S) \in VV
  BY <1>2 DEF MergeAll, VV
<1> QED
  BY <1>2, <1>3 DEF Leq

\* Compare is exhaustive and means what it says.
LEMMA CompareCases ==
  ASSUME NEW v, NEW w
  PROVE  /\ Compare(v, w) \in {"Equal", "Dominates", "Dominated", "Concurrent"}
         /\ Compare(v, w) = "Equal" <=> Leq(v, w) /\ Leq(w, v)
         /\ Compare(v, w) = "Dominates" <=> Less(w, v)
         /\ Compare(v, w) = "Dominated" <=> Less(v, w)
         /\ Compare(v, w) = "Concurrent" <=> ~ Leq(v, w) /\ ~ Leq(w, v)
<1>1. CASE Leq(v, w) /\ Leq(w, v)
  BY <1>1 DEF Compare, Less
<1>2. CASE Leq(v, w) /\ ~ Leq(w, v)
  BY <1>2 DEF Compare, Less
<1>3. CASE ~ Leq(v, w) /\ Leq(w, v)
  BY <1>3 DEF Compare, Less
<1>4. CASE ~ Leq(v, w) /\ ~ Leq(w, v)
  BY <1>4 DEF Compare, Less
<1> QED
  BY <1>1, <1>2, <1>3, <1>4

-----------------------------------------------------------------------------
(* Decisions and plans *)

\* decide.rs in terms of the vector order: Apply, Ignore and Concurrent are
\* exactly "strictly later", "covered" and "neither covers the other".
LEMMA DecideCases ==
  ASSUME NEW row, NEW vv
  PROVE  /\ Decide(row, vv) \in {"Apply", "Ignore", "Concurrent"}
         /\ Decide(row, vv) = "Apply" <=> Less(row.vv, vv)
         /\ Decide(row, vv) = "Ignore" <=> Leq(vv, row.vv)
         /\ Decide(row, vv) = "Concurrent"
              <=> ~ Leq(vv, row.vv) /\ ~ Leq(row.vv, vv)
<1>1. CASE Compare(vv, row.vv) = "Dominates"
  <2>1. Less(row.vv, vv)
    BY <1>1, CompareCases
  <2>2. Decide(row, vv) = "Apply"
    BY <1>1, Zenon DEF Decide
  <2> QED
    BY <2>1, <2>2, Zenon DEF Less
<1>2. CASE Compare(vv, row.vv) \in {"Dominated", "Equal"}
  <2>1. Leq(vv, row.vv)
    BY <1>2, CompareCases DEF Less
  <2>2. Decide(row, vv) = "Ignore"
    BY <1>2, Zenon DEF Decide
  <2> QED
    BY <2>1, <2>2, Zenon DEF Less
<1>3. CASE Compare(vv, row.vv) = "Concurrent"
  <2>1. ~ Leq(vv, row.vv) /\ ~ Leq(row.vv, vv)
    BY <1>3, CompareCases
  <2>2. Decide(row, vv) = "Concurrent"
    BY <1>3, Zenon DEF Decide
  <2> QED
    BY <2>1, <2>2, Zenon DEF Less
<1> QED
  BY <1>1, <1>2, <1>3, CompareCases

\* The winner of an antichain is one of its versions (plan_candidates).
LEMMA WinnerExists ==
  ASSUME NEW A, A \subseteq Version, A # {}
  PROVE  /\ Winner(A) \in Value \cup {Tombstone}
         /\ \E a \in A : a.val = Winner(A)
<1> DEFINE K == {a.val : a \in A}
<1>1. /\ K \subseteq Nat /\ K # {}
      /\ \A k \in K : k <= MaxKey /\ k \in Value \cup {Tombstone}
  BY ConflictAssumption DEF Version, Value, Tombstone
<1>2. \E x \in K : \A k \in K : k <= x
  <2> HIDE DEF K
  <2> QED
    BY <1>1, BoundedHasMax, ConflictAssumption
<1>3. \E k \in Value \cup {Tombstone} :
        (\E a \in A : a.val = k) /\ \A a \in A : a.val <= k
  BY <1>1, <1>2
<1> QED
  BY <1>3 DEF Winner

\* The versions whose vectors stay within B.
VersionsUpTo(B) == {v \in Version : Leq(v.vv, B)}

\* B is a bound that every copy's own vector respects.
CopyBound(B) == B \in VV /\ \A cp \in Path : Leq(CopyVV(cp), B)

\* A conflict copy's synthetic vector is a vector.
LEMMA CopyVVType ==
  ASSUME NEW cp \in Path
  PROVE  CopyVV(cp) \in VV
BY DEF CopyVV, VV

\* A copy lands only where its vector is news, and then strictly above the
\* row it replaces: the Equal and Dominated arms of plan_candidates leave the
\* row alone.
LEMMA CopyAdvances ==
  ASSUME NEW B, CopyBound(B),
         NEW rows \in [Path -> VersionsUpTo(B)],
         NEW cp \in Path, NEW v \in Value,
         NEW r \in LinkRows(rows, cp, v)
  PROVE  /\ r \in PlannedRow
         /\ r.path = cp
         /\ Leq(r.vv, B)
         /\ Less(rows[cp].vv, r.vv)
<1> DEFINE w == Merge(rows[cp].vv, CopyVV(cp))
           x == IF Occupied(rows, cp) THEN Larger(v, rows[cp].val) ELSE v
<1>1. /\ rows[cp] \in Version /\ rows[cp].vv \in VV /\ Leq(rows[cp].vv, B)
      /\ rows[cp].val \in Value \cup {Tombstone}
  BY DEF VersionsUpTo, Version
<1>2. CopyVV(cp) \in VV /\ B \in VV /\ Leq(CopyVV(cp), B)
  BY CopyVVType DEF CopyBound
<1>3. /\ ~ Leq(CopyVV(cp), rows[cp].vv)
      /\ r = [path |-> cp, val |-> x, vv |-> w]
  BY DEF LinkRows
<1>4. w \in VV /\ Leq(rows[cp].vv, w) /\ Leq(CopyVV(cp), w) /\ Leq(w, B)
  BY <1>1, <1>2, MergeIsLub
<1>5. x \in Value \cup {Tombstone}
  BY <1>1 DEF Larger
<1>6. ~ Leq(w, rows[cp].vv)
  BY <1>1, <1>2, <1>3, <1>4, LeqTransitive
<1> HIDE DEF w, x
<1> QED
  BY <1>3, <1>4, <1>5, <1>6 DEF PlannedRow, Less

\* A plan has one row for the contested path, with the merge of all the
\* candidates' vectors; every other row is a copy that adds its synthetic
\* component to the row it replaces (plan_candidates skips a copy name that
\* the plan already holds).
LEMMA PlanShape ==
  ASSUME NEW rows, NEW path, NEW C, NEW plan \in Plans(path, C, rows)
  PROVE  /\ \E r \in plan : r.path = path
         /\ \A r \in plan : r.path = path =>
              r.vv = MergeAll({v.vv : v \in C})
         /\ \A r \in plan : r.path # path =>
              r.vv = Merge(rows[r.path].vv, CopyVV(r.path))
<1> DEFINE M == MergeAll({v.vv : v \in C})
<1>1. PICK A \in Antichains(C) : A # {} /\ plan = PlanOf(path, C, A, rows)
  BY DEF Plans
<1> DEFINE top == [path |-> path, val |-> Winner(A), vv |-> M]
<1>2. /\ top \in plan
      /\ \A r \in plan : \/ r = top
                         \/ \E k \in (Path \ {path}) \X Value :
                              r \in LinkRows(rows, k[1], k[2])
  BY <1>1, Zenon DEF PlanOf
<1>3. top.path = path /\ top.vv = M
  OBVIOUS
<1> HIDE DEF top, M
<1>4. ASSUME NEW r \in plan
      PROVE  /\ r.path = path => r.vv = M
             /\ r.path # path => r.vv = Merge(rows[r.path].vv, CopyVV(r.path))
  <2>1. CASE r = top
    BY <1>3, <2>1
  <2>2. CASE \E k \in (Path \ {path}) \X Value :
               r \in LinkRows(rows, k[1], k[2])
    <3>1. PICK k \in (Path \ {path}) \X Value :
            r \in LinkRows(rows, k[1], k[2])
      BY <2>2
    <3>2. r.path = k[1] /\ r.vv = Merge(rows[k[1]].vv, CopyVV(k[1]))
      BY <3>1 DEF LinkRows
    <3> QED
      BY <3>1, <3>2
  <2> QED
    BY <1>2, <2>1, <2>2
<1> QED
  BY <1>2, <1>3, <1>4 DEF M

\* The plan for a contested path.  Every row it writes is a row of the index
\* taken strictly forward, and no component of its vector exceeds what the
\* candidates and the index already knew: committing a plan never takes a row
\* back and never invents history (plan_candidates, resolve_rows).
THEOREM PlanAdvances ==
  ASSUME NEW B, CopyBound(B),
         NEW rows \in [Path -> VersionsUpTo(B)],
         NEW path \in Path,
         NEW C, C \subseteq VersionsUpTo(B), C # {},
         NEW remote \in C, ~ Leq(remote.vv, rows[path].vv),
         Leq(rows[path].vv, MergeAll({c.vv : c \in C})),
         NEW plan \in Plans(path, C, rows),
         NEW r \in plan
  PROVE  /\ r \in PlannedRow
         /\ Leq(r.vv, B)
         /\ Less(rows[r.path].vv, r.vv)
<1> DEFINE S == {c.vv : c \in C}
<1>1. PICK A \in Antichains(C) : A # {} /\ plan = PlanOf(path, C, A, rows)
  BY DEF Plans
<1>2. A \subseteq Version
  BY DEF Antichains, Maximal, VersionsUpTo
<1>3. S \subseteq VV /\ S # {} /\ B \in VV /\ \A v \in S : Leq(v, B)
  BY DEF VersionsUpTo, Version, CopyBound
<1>4. /\ MergeAll(S) \in VV /\ Leq(MergeAll(S), B)
      /\ \A v \in S : Leq(v, MergeAll(S))
  <2> HIDE DEF S
  <2> QED
    BY <1>3, MergeAllBounds
<1>5. rows[path].vv \in VV /\ remote.vv \in S /\ remote.vv \in VV
  BY DEF VersionsUpTo, Version
<1>6. ~ Leq(MergeAll(S), rows[path].vv)
  <2> HIDE DEF S
  <2> QED
    BY <1>4, <1>5, LeqTransitive
<1>7. \/ r = [path |-> path, val |-> Winner(A), vv |-> MergeAll(S)]
      \/ \E k \in Path \X Value : r \in LinkRows(rows, k[1], k[2])
  BY <1>1, Zenon DEF PlanOf
<1> HIDE DEF S
<1>8. CASE r = [path |-> path, val |-> Winner(A), vv |-> MergeAll(S)]
  <2>1. Winner(A) \in Value \cup {Tombstone}
    BY <1>1, <1>2, WinnerExists
  <2> QED
    BY <1>4, <1>6, <1>8, <2>1 DEF PlannedRow, Less, S
<1>9. CASE \E k \in Path \X Value : r \in LinkRows(rows, k[1], k[2])
  <2>1. PICK k \in Path \X Value : r \in LinkRows(rows, k[1], k[2])
    BY <1>9
  <2>2. k[1] \in Path /\ k[2] \in Value
    BY <2>1
  <2> QED
    BY <2>1, <2>2, CopyAdvances
<1> QED
  BY <1>7, <1>8, <1>9

=============================================================================
