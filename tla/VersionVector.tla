---------------------------- MODULE VersionVector ----------------------------
(***************************************************************************)
(* Version vectors (src/vv.rs).  The code keeps a map from node id to a    *)
(* positive counter and reads an absent entry as zero, so a vector is a    *)
(* total function from ids to naturals and the empty map is Zero.          *)
(*                                                                         *)
(* Ids are node ids together with the synthetic ids that conflict copies   *)
(* carry (conflict.rs copy_origin).                                        *)
(***************************************************************************)
EXTENDS Naturals, FiniteSetsExt

CONSTANT Id

VV == [Id -> Nat]

Zero == [i \in Id |-> 0]

Increment(v, i) == [v EXCEPT ![i] = @ + 1]

Merge(v, w) == [i \in Id |-> IF v[i] >= w[i] THEN v[i] ELSE w[i]]

\* Folding merge over a nonempty set of vectors: the componentwise maximum.
MergeAll(S) == [i \in Id |-> Max({v[i] : v \in S})]

Leq(v, w) == \A i \in Id : v[i] <= w[i]

Less(v, w) == Leq(v, w) /\ ~ Leq(w, v)

\* The four-way comparison Ord3, read "v ... w".
Compare(v, w) ==
  LET le == Leq(v, w)
      ge == Leq(w, v)
  IN  CASE le /\ ge     -> "Equal"
        [] ge /\ ~ le   -> "Dominates"
        [] le /\ ~ ge   -> "Dominated"
        [] ~ le /\ ~ ge -> "Concurrent"

=============================================================================
