------------------------------- MODULE Conflict -------------------------------
(***************************************************************************)
(* The causal decision of src/decide.rs and the deterministic conflict     *)
(* plan of src/conflict.rs, as pure operators.                             *)
(*                                                                         *)
(* A version's total-order key is (live?, content hash, metadata hash).    *)
(* Keys are fixed-width byte strings, so a live key is a number of         *)
(* 1..MaxKey and every tombstone has the one smallest key 0; a value IS    *)
(* its key.  Mode and uuid, which no key contains, are left out.           *)
(***************************************************************************)
EXTENDS VersionVector

CONSTANTS Path,              \* every path, conflict-copy names included
          MaxKey,
          CopyPathFor(_, _), \* copy_path_for: the name of a loser's copy
          MaxCopyDepth       \* MAX_COPY_DEPTH

Value == 1 .. MaxKey

Tombstone == 0

Version == [val : Value \cup {Tombstone}, vv : VV]

PlannedRow == [path : Path, val : Value \cup {Tombstone}, vv : VV]

(***************************************************************************)
(* A copy name names a path.  copy_origin hashes a copy path into an id of *)
(* its own; the model uses the path itself as that id.                     *)
(***************************************************************************)
ASSUME ConflictAssumption ==
  /\ Path \subseteq Id
  /\ MaxKey \in Nat
  /\ MaxCopyDepth \in Nat \ {0}
  /\ \A p \in Path, v \in Value : CopyPathFor(p, v) \in Path

\* A path without a row.  No operation ever produces a row whose vector is
\* Zero, and Decide and the plan treat it exactly as the code treats None.
NoRow == [val |-> Tombstone, vv |-> Zero]

-----------------------------------------------------------------------------
(* decide.rs *)

Decide(row, vv) ==
  LET ord == Compare(vv, row.vv)
  IN  CASE ord = "Dominates"              -> "Apply"
        [] ord \in {"Dominated", "Equal"} -> "Ignore"
        [] ord = "Concurrent"             -> "Concurrent"

-----------------------------------------------------------------------------
(* conflict.rs *)

CopyVV(cp) == [i \in Id |-> IF i = cp THEN 1 ELSE 0]

Maximal(C) == {c \in C : \A d \in C : ~ Less(c.vv, d.vv)}

(***************************************************************************)
(* The maximal antichain.  Of several candidates with one vector the code  *)
(* keeps the first that the unordered SELECT of ops_as_candidates returns: *)
(* any one of them.                                                        *)
(***************************************************************************)
Antichains(C) ==
  {A \in SUBSET Maximal(C) :
     /\ \A c \in Maximal(C) : \E a \in A : a.vv = c.vv
     /\ \A a, b \in A : a.vv = b.vv => a = b}

Winner(A) == CHOOSE k \in Value \cup {Tombstone} :
               /\ \E a \in A : a.val = k
               /\ \A a \in A : a.val <= k

\* Losing versions with content of their own.
Losers(A) == {a.val : a \in A} \ {Winner(A), Tombstone}

(***************************************************************************)
(* Copy chains.  A link <<cp, v>> says that content v is to land at cp.    *)
(* Losers are taken in descending key order and a name that is already     *)
(* planned is skipped, so of the losers that share a name the largest      *)
(* stands (the naming hash leaves out mtime and owner).                    *)
(***************************************************************************)
FirstLinks(path, A) ==
  {<<CopyPathFor(path, v), v>> : v \in
     {v \in Losers(A) : \A w \in Losers(A) :
        CopyPathFor(path, w) = CopyPathFor(path, v) => w <= v}}

\* An unrelated file occupies the copy name: the larger key takes the name
\* and the smaller is pushed one link further.
Occupied(rows, cp) == Compare(CopyVV(cp), rows[cp].vv) = "Concurrent"

Larger(v, w) == IF v >= w THEN v ELSE w

Smaller(v, w) == IF v >= w THEN w ELSE v

NextLinks(rows, cp, v) ==
  IF Occupied(rows, cp) /\ rows[cp].val \notin {Tombstone, v}
  THEN LET loser == Smaller(v, rows[cp].val)
       IN  {<<CopyPathFor(cp, loser), loser>>}
  ELSE {}

\* Equal (the copy is already there) and Dominated (a user has edited it)
\* leave the existing row alone.
LinkRows(rows, cp, v) ==
  IF Leq(CopyVV(cp), rows[cp].vv) THEN {}
  ELSE {[path |-> cp,
         val  |-> IF Occupied(rows, cp) THEN Larger(v, rows[cp].val) ELSE v,
         vv   |-> Merge(rows[cp].vv, CopyVV(cp))]}

\* The links at each depth of the chains.  A chain ends at a name the plan
\* already has, such as the contested path itself.
Links(path, A, rows) ==
  LET Level[d \in Nat \ {0}] ==
        IF d = 1 THEN FirstLinks(path, A)
        ELSE UNION {NextLinks(rows, k[1], k[2]) : k \in
                      {k \in Level[d - 1] : k[1] # path}}
  IN  Level

\* Mutant: the winner's row keeps the winner's own vector.
BugPlanOf(path, C, A, rows) ==
  {[path |-> path, val |-> a.val, vv |-> a.vv] :
     a \in {a \in A : a.val = Winner(A)}}

PlanOf(path, C, A, rows) ==
  LET Level == Links(path, A, rows)
      Planned == {k \in (Path \ {path}) \X Value :
                    \E d \in 1 .. MaxCopyDepth : k \in Level[d]}
  IN  {[path |-> path, val |-> Winner(A), vv |-> MergeAll({c.vv : c \in C})]}
        \cup UNION {LinkRows(rows, k[1], k[2]) : k \in Planned}

\* Mutant: a chain that is too deep is cut short.
BugPlans(path, C, rows) ==
  {PlanOf(path, C, A, rows) : A \in Antichains(C)}

\* plan_candidates: the plans the code can derive for path from the candidate
\* set C and the index rows; none when there is no candidate or a copy chain
\* is too deep.
Plans(path, C, rows) ==
  {PlanOf(path, C, A, rows) : A \in
     {A \in Antichains(C) :
        A # {} /\ Links(path, A, rows)[MaxCopyDepth + 1] = {}}}

=============================================================================
