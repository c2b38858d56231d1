-------------------------------- MODULE Merkle --------------------------------
(***************************************************************************)
(* The walk of an anti-entropy session: the initiator compares the tree of *)
(* its own index with the tree that the responder serves from a snapshot,  *)
(* descends into the directories whose hashes differ and hands the leaves  *)
(* that differ to handle_leaf (src/merkle.rs, and QuicReconcile in         *)
(* src/net.rs).  What handle_leaf does with a leaf is Replication's        *)
(* subject.                                                                *)
(*                                                                         *)
(* A path is a sequence of names, names are ordered, and an index maps     *)
(* paths to rows.  Both trees are built once and do not change during the  *)
(* session.  Hashes do not collide.                                        *)
(***************************************************************************)
EXTENDS Naturals, Sequences, FiniteSets

CONSTANTS Name,      \* names, as numbers in their order (at most 255 bytes each)
          Index,     \* the indexes a tree may be built from
          TreePage   \* children in one page

Prefix == Seq(Name)

ASSUME MerkleAssumption ==
  /\ Name \subseteq Nat \ {0} /\ IsFiniteSet(Name)
  /\ TreePage \in Nat \ {0}
  /\ \A t \in Index : DOMAIN t \subseteq Prefix \ {<<>>}

VARIABLES
  local,   \* the initiator's index when the session began
  remote,  \* the responder's snapshot
  phase,   \* where the session stands
  queue,   \* directories still to be listed
  at,      \* the directory being listed or compared
  after,   \* the last name listed
  kids,    \* children of at that are listed and not compared
  handled, \* history: leaves handed to handle_leaf
  listed   \* history: directories listed

vars == <<local, remote, phase, queue, at, after, kids, handled, listed>>

\* What the session does next: ask for the root (Begin), take a directory, ask
\* for a page of it (TreeReq), compare its children, or nothing more.
Phase == {"root", "pop", "list", "compare", "done", "lost"}

-----------------------------------------------------------------------------
(* The tree of an index *)

Below(d, p) == Len(d) < Len(p) /\ SubSeq(p, 1, Len(d)) = d

\* The ancestors of a row are directories, whatever else they are.
IsDir(t, c) == \E p \in DOMAIN t : Below(c, p)

\* The entry of a directory takes the place of a row at the same path.
Leaves(t) == {p \in DOMAIN t : ~ IsDir(t, p)}

\* leaf_hash covers the path and all of the row.
LeafHash(t, p) == <<p, t[p]>>

\* A directory's hash is determined by the leaves below it.
HashAt(t, c) == {LeafHash(t, p) : p \in {q \in Leaves(t) : q = c \/ Below(c, q)}}

IsChild(t, c) == c \in DOMAIN t \/ IsDir(t, c)

Children(t, d) == {n \in Name : IsChild(t, Append(d, n))}

\* The first TreePage children after a name, and whether there are more.
Page(t, d, a) ==
  {n \in Children(t, d) :
     /\ a < n
     /\ Cardinality({m \in Children(t, d) : a < m /\ m < n}) < TreePage}

\* Mutant: a page that is full counts as the last one.
BugMore(t, d, a) == FALSE

More(t, d, a) == \E n \in Children(t, d) \ Page(t, d, a) : a < n

-----------------------------------------------------------------------------
(* reconcile_pull *)

Init ==
  /\ local \in Index
  /\ remote \in Index
  /\ phase = "root"
  /\ queue = {}
  /\ at = <<>>
  /\ after = 0
  /\ kids = {}
  /\ handled = {}
  /\ listed = {}

\* The roots are compared first.
CompareRoots ==
  /\ phase = "root"
  /\ IF HashAt(remote, <<>>) = HashAt(local, <<>>)
     THEN phase' = "done" /\ UNCHANGED queue
     ELSE phase' = "pop" /\ queue' = {<<>>}
  /\ UNCHANGED <<local, remote, at, after, kids, handled, listed>>

\* The order of the descent is of no consequence.
PopDirectory(d) ==
  /\ phase = "pop" /\ d \in queue
  /\ queue' = queue \ {d}
  /\ at' = d /\ after' = 0 /\ kids' = {}
  /\ listed' = listed \cup {d}
  /\ phase' = "list"
  /\ UNCHANGED <<local, remote, handled>>

\* One TreeReq and its answer.
ListPage ==
  LET page == Page(remote, at, after)
  IN  /\ phase = "list"
      /\ kids' = kids \cup page
      /\ IF page = {} THEN after' = after
         ELSE after' \in page /\ \A n \in page : n <= after'
      /\ phase' = IF More(remote, at, after) THEN "list" ELSE "compare"
      /\ UNCHANGED <<local, remote, queue, at, handled, listed>>

\* Mutant: only leaves are pruned.
BugPruned(c) == /\ c \in DOMAIN local
                /\ HashAt(local, c) = HashAt(remote, c)

\* The pruning rule: an identical hash is an identical subtree or leaf.
Pruned(c) == IsChild(local, c) /\ HashAt(local, c) = HashAt(remote, c)

\* Mutant: a leaf is descended into.
BugCompareChild(n) ==
  LET c == Append(at, n)
  IN  /\ phase = "compare" /\ n \in kids
      /\ kids' = kids \ {n}
      /\ queue' = IF ~ Pruned(c) THEN queue \cup {c} ELSE queue
      /\ UNCHANGED <<local, remote, phase, at, after, handled, listed>>

CompareChild(n) ==
  LET c == Append(at, n)
  IN  /\ phase = "compare" /\ n \in kids
      /\ kids' = kids \ {n}
      /\ queue' = IF ~ Pruned(c) /\ IsDir(remote, c)
                  THEN queue \cup {c} ELSE queue
      /\ handled' = IF ~ Pruned(c) /\ ~ IsDir(remote, c)
                    THEN handled \cup {c} ELSE handled
      /\ UNCHANGED <<local, remote, phase, at, after, listed>>

DirectoryDone ==
  /\ phase = "compare" /\ kids = {}
  /\ phase' = "pop"
  /\ UNCHANGED <<local, remote, queue, at, after, kids, handled, listed>>

SessionDone ==
  /\ phase = "pop" /\ queue = {}
  /\ phase' = "done"
  /\ UNCHANGED <<local, remote, queue, at, after, kids, handled, listed>>

\* The stream fails; the next session begins at the root.
Lose ==
  /\ phase \notin {"done", "lost"}
  /\ phase' = "lost"
  /\ UNCHANGED <<local, remote, queue, at, after, kids, handled, listed>>

Next ==
  \/ CompareRoots \/ ListPage \/ DirectoryDone \/ SessionDone \/ Lose
  \/ \E d \in queue : PopDirectory(d)
  \/ \E n \in kids : CompareChild(n)

Spec == Init /\ [][Next]_vars

-----------------------------------------------------------------------------
(* Properties *)

\* Every variable has its type; only the responder's directories are listed
\* and only their children are compared.
TypeOK ==
  /\ local \in Index /\ remote \in Index
  /\ phase \in Phase
  /\ queue \subseteq Prefix /\ at \in Prefix
  /\ \A d \in queue \ {<<>>} : IsDir(remote, d)
  /\ after \in Name \cup {0}
  /\ kids \subseteq Children(remote, at)
  /\ handled \subseteq Leaves(remote)
  /\ listed \subseteq Prefix

\* The leaves of the responder that the initiator does not have as they are.
Differing ==
  {p \in Leaves(remote) : p \notin Leaves(local) \/ local[p] # remote[p]}

\* A session that ends well has handed over every leaf that differs and no
\* other, however its directories are nested and however their listings are
\* paged: the hashes prune nothing that matters.
Complete == phase = "done" => handled = Differing

\* The same of every row.  It does not hold: a directory's entry hides the row
\* at its path from build's tree.
EveryRowCompared ==
  phase = "done" => \A p \in DOMAIN remote :
    p \in handled \/ (p \in DOMAIN local /\ local[p] = remote[p])

\* O(diff): no directory is listed that the two trees have alike.
OnlyDifferences ==
  \A d \in listed : ~ (IsDir(local, d) /\ HashAt(local, d) = HashAt(remote, d))
=============================================================================
