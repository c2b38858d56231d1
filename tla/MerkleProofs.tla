----------------------------- MODULE MerkleProofs -----------------------------
(***************************************************************************)
(* A session's walk misses no leaf that differs and lists no directory     *)
(* that does not, for all trees, nestings and page sizes.                  *)
(***************************************************************************)
EXTENDS Merkle, FiniteSetTheorems, TLAPS

-----------------------------------------------------------------------------
(* Paths *)

\* The name that leads from directory d towards p.
Step(d, p) == p[Len(d) + 1]

\* One step below a directory lies the path itself or another directory.
LEMMA StepDown ==
  ASSUME NEW d \in Prefix, NEW p \in Prefix, Below(d, p)
  PROVE  /\ Step(d, p) \in Name
         /\ Append(d, Step(d, p)) \in Prefix
         /\ p = Append(d, Step(d, p)) \/ Below(Append(d, Step(d, p)), p)
<1> DEFINE n == Step(d, p)
           c == Append(d, n)
<1>1. Len(d) \in Nat /\ Len(p) \in Nat /\ Len(d) + 1 \in 1 .. Len(p)
  BY DEF Below, Prefix
<1>2. n \in Name
  BY <1>1 DEF Step, Prefix
<1>3. c \in Prefix /\ Len(c) = Len(d) + 1
  BY <1>2 DEF Prefix
<1>4. ASSUME NEW i \in 1 .. Len(c) PROVE c[i] = p[i]
  <2>1. CASE i = Len(d) + 1
    BY <2>1, <1>2 DEF Step, Prefix
  <2>2. CASE i \in 1 .. Len(d)
    <3>1. c[i] = d[i]
      BY <2>2, <1>2 DEF Prefix
    <3>2. SubSeq(p, 1, Len(d))[i] = p[i]
      BY <2>2, <1>1 DEF Prefix
    <3> QED BY <3>1, <3>2 DEF Below
  <2> QED BY <2>1, <2>2, <1>1, <1>3
<1>5. CASE Len(p) = Len(d) + 1
  <2>1. p = c
    BY <1>3, <1>4, <1>5 DEF Prefix
  <2> QED BY <2>1, <1>2, <1>3
<1>6. CASE Len(d) + 1 < Len(p)
  <2>1. SubSeq(p, 1, Len(c)) = c
    BY <1>1, <1>3, <1>4, <1>6 DEF Prefix
  <2> QED BY <2>1, <1>2, <1>3, <1>6 DEF Below
<1> QED BY <1>1, <1>5, <1>6

\* Everything lies below the root.
LEMMA RootAbove ==
  ASSUME NEW p \in Prefix \ {<<>>}
  PROVE  <<>> \in Prefix /\ Below(<<>>, p)
BY DEF Below, Prefix

-----------------------------------------------------------------------------
(* Trees *)

\* Whatever an index holds below a directory shows in its listing.
LEMMA StepListed ==
  ASSUME NEW t \in Index, NEW d \in Prefix, NEW p \in DOMAIN t, Below(d, p)
  PROVE  Step(d, p) \in Children(t, d)
<1>1. p \in Prefix
  BY MerkleAssumption
<1> QED BY <1>1, StepDown DEF Children, IsChild, IsDir

\* Pages go by the order of names: a child after the page's last name is not
\* skipped.
LEMMA PageInOrder ==
  ASSUME NEW t, NEW d, NEW a \in Nat,
         NEW n \in Children(t, d), a < n, n \notin Page(t, d, a),
         NEW x \in Page(t, d, a)
  PROVE  x < n
<1> DEFINE Before(y) == {m \in Children(t, d) : a < m /\ m < y}
<1>1. Children(t, d) \subseteq Nat /\ IsFiniteSet(Children(t, d))
  <2>1. Children(t, d) \in SUBSET Name
    BY DEF Children
  <2> QED BY <2>1, FS_Subset, MerkleAssumption
<1>2. x \in Children(t, d) /\ a < x /\ Cardinality(Before(x)) < TreePage
  BY DEF Page
<1>3. Cardinality(Before(n)) >= TreePage
  <2>1. IsFiniteSet(Before(n))
    BY <1>1, FS_Subset
  <2>2. Cardinality(Before(n)) \in Nat
    BY <2>1, FS_CardinalityType
  <2> QED BY <2>2, MerkleAssumption DEF Page
<1>4. SUFFICES ASSUME n <= x PROVE FALSE
  BY <1>1, <1>2
<1>5. Before(n) \in SUBSET Before(x)
  BY <1>1, <1>2, <1>4
<1>6. IsFiniteSet(Before(x))
  BY <1>1, FS_Subset
<1>7. Cardinality(Before(n)) <= Cardinality(Before(x))
  BY <1>5, <1>6, FS_Subset
<1>8. Cardinality(Before(n)) \in Nat /\ Cardinality(Before(x)) \in Nat
  BY <1>5, <1>6, FS_Subset, FS_CardinalityType
<1> QED BY <1>2, <1>3, <1>7, <1>8, MerkleAssumption

\* A leaf that differs makes the hashes of everything above it differ.
LEMMA DifferenceShows ==
  ASSUME NEW c, NEW p \in Differing, p = c \/ Below(c, p)
  PROVE  HashAt(local, c) # HashAt(remote, c)
<1>1. LeafHash(remote, p) \in HashAt(remote, c)
  BY DEF HashAt, Differing
<1>2. LeafHash(remote, p) \notin HashAt(local, c)
  BY DEF HashAt, LeafHash, Differing
<1> QED BY <1>1, <1>2

\* A leaf is only handed over when it differs.
LEMMA HandledDiffers ==
  ASSUME NEW c, IsChild(remote, c), ~ IsDir(remote, c), ~ Pruned(c)
  PROVE  c \in Differing
<1>1. c \in Leaves(remote)
  BY DEF IsChild, Leaves
<1>2. SUFFICES ASSUME c \in Leaves(local), local[c] = remote[c] PROVE FALSE
  BY <1>1 DEF Differing
<1>3. HashAt(remote, c) = {LeafHash(remote, c)}
  BY <1>1 DEF HashAt, IsDir, Leaves
<1>4. HashAt(local, c) = {LeafHash(local, c)}
  BY <1>2 DEF HashAt, IsDir, Leaves
<1> QED BY <1>2, <1>3, <1>4 DEF Pruned, IsChild, Leaves, LeafHash

-----------------------------------------------------------------------------
(* The inductive invariant *)

\* The session still has work that leads to p: a directory above p waits in
\* the queue, or the child of the current directory that leads to p has yet
\* to be listed or compared.
Ahead(p) ==
  \/ /\ phase \in {"pop", "list", "compare"}
     /\ \E d \in queue : Below(d, p)
  \/ /\ phase \in {"list", "compare"}
     /\ Below(at, p)
     /\ Step(at, p) \in kids \/ (phase = "list" /\ after < Step(at, p))

Covered ==
  phase \notin {"root", "lost"} => \A p \in Differing : p \in handled \/ Ahead(p)

Justified ==
  /\ handled \subseteq Differing
  /\ \A d \in queue \cup listed :
       ~ (IsDir(local, d) /\ HashAt(local, d) = HashAt(remote, d))

IInv == TypeOK /\ Covered /\ Justified

\* Nothing is listed or handed over at first.
LEMMA InitIInv == Init => IInv
<1> SUFFICES ASSUME Init PROVE IInv
  OBVIOUS
<1>1. TypeOK
  BY DEF Init, TypeOK, Phase, Prefix, Children
<1>2. Covered /\ Justified
  BY DEF Init, Covered, Justified
<1> QED BY <1>1, <1>2 DEF IInv

\* Leaves that differ are paths of the responder's tree.
LEMMA DifferingPaths ==
  ASSUME TypeOK, NEW p \in Differing
  PROVE  /\ p \in DOMAIN remote /\ p \in Prefix \ {<<>>}
         /\ ~ IsDir(remote, p)
BY MerkleAssumption DEF TypeOK, Differing, Leaves

\* The trees stay as they are.
LEMMA TreesStay ==
  ASSUME Next
  PROVE  /\ local' = local /\ remote' = remote
         /\ Differing' = Differing
         /\ \A d : /\ IsDir(remote, d)' = IsDir(remote, d)
                  /\ IsDir(local, d)' = IsDir(local, d)
                  /\ HashAt(remote, d)' = HashAt(remote, d)
                  /\ HashAt(local, d)' = HashAt(local, d)
                  /\ Children(remote, d)' = Children(remote, d)
         /\ Leaves(remote)' = Leaves(remote)
<1>1. local' = local /\ remote' = remote
  BY DEF Next, CompareRoots, ListPage, DirectoryDone, SessionDone, Lose,
         PopDirectory, CompareChild
<1> QED BY <1>1 DEF Differing, Leaves, IsDir, HashAt, LeafHash, Children, IsChild

\* Only the responder's directories and their children are looked at.
LEMMA NextTypeOK == TypeOK /\ Next => TypeOK'
<1> SUFFICES ASSUME TypeOK, Next PROVE TypeOK'
  OBVIOUS
<1> USE DEF TypeOK, Phase
<1>0. /\ local' \in Index /\ remote' \in Index
      /\ Leaves(remote)' = Leaves(remote)
      /\ \A d : /\ IsDir(remote, d)' = IsDir(remote, d)
               /\ Children(remote, d)' = Children(remote, d)
  BY TreesStay
<1>1. CASE CompareRoots
  <2>1. <<>> \in Prefix
    BY DEF Prefix
  <2>2. queue' = queue \/ queue' = {<<>>}
    BY <1>1 DEF CompareRoots
  <2>3. queue' \subseteq Prefix /\ \A d \in queue' \ {<<>>} : IsDir(remote, d)
    BY <2>1, <2>2
  <2> QED BY <1>0, <1>1, <2>3 DEF CompareRoots
<1>2. CASE ListPage
  BY <1>0, <1>2 DEF ListPage, Page, Children
<1>3. CASE DirectoryDone \/ SessionDone \/ Lose
  BY <1>0, <1>3 DEF DirectoryDone, SessionDone, Lose
<1>4. ASSUME NEW d \in queue, PopDirectory(d) PROVE TypeOK'
  BY <1>0, <1>4 DEF PopDirectory
<1>5. ASSUME NEW n \in kids, CompareChild(n) PROVE TypeOK'
  <2>1. n \in Name /\ IsChild(remote, Append(at, n))
    BY DEF Children
  <2>2. Append(at, n) \in Prefix
    BY <2>1 DEF Prefix
  <2>3. ~ IsDir(remote, Append(at, n)) => Append(at, n) \in Leaves(remote)
    BY <2>1 DEF IsChild, Leaves
  <2> QED BY <1>0, <1>5, <2>2, <2>3 DEF CompareChild
<1> QED BY <1>1, <1>2, <1>3, <1>4, <1>5 DEF Next

\* No difference is pruned, passed over by a page or dropped from the queue.
LEMMA NextCovered == TypeOK /\ Covered /\ Next => Covered'
<1> SUFFICES ASSUME TypeOK, Covered, Next, phase' \notin {"root", "lost"},
                    NEW p \in Differing
             PROVE  (p \in handled \/ Ahead(p))'
  BY TreesStay DEF Covered
<1>0. p \in DOMAIN remote /\ p \in Prefix \ {<<>>} /\ ~ IsDir(remote, p)
  BY DifferingPaths
<1>1. CASE CompareRoots
  <2>1. HashAt(remote, <<>>) # HashAt(local, <<>>) /\ Below(<<>>, p)
    BY <1>0, RootAbove, DifferenceShows
  <2> QED BY <1>1, <2>1 DEF CompareRoots, Ahead
<1>2. CASE ListPage
  <2>1. p \in handled \/ Ahead(p)
    BY <1>2 DEF ListPage, Covered
  <2>2. CASE p \in handled \/ \E d \in queue : Below(d, p)
    BY <1>2, <2>2 DEF ListPage, Ahead
  <2>3. CASE Below(at, p) /\ Step(at, p) \in kids
    BY <1>2, <2>3 DEF ListPage, Ahead, Step
  <2>4. CASE Below(at, p) /\ after < Step(at, p)
    <3> DEFINE n == Step(at, p)
               page == Page(remote, at, after)
    <3>1. n \in Children(remote, at)
      BY <1>0, <2>4, StepListed DEF TypeOK
    <3>2. n' = n
      BY <1>2 DEF ListPage, Step
    <3>3. CASE n \in page
      BY <1>2, <2>4, <3>2, <3>3 DEF ListPage, Ahead
    <3>4. CASE n \notin page
      <4>1. More(remote, at, after)
        BY <2>4, <3>1, <3>4 DEF More
      <4>2. after \in Nat
        BY MerkleAssumption DEF TypeOK
      <4>3. \A x \in page : x < n
        BY <2>4, <3>1, <3>4, <4>2, PageInOrder
      <4>4. after' < n
        BY <1>2, <2>4, <4>3 DEF ListPage
      <4>5. phase' = "list" /\ at' = at
        BY <1>2, <4>1 DEF ListPage
      <4> QED BY <2>4, <3>2, <4>4, <4>5 DEF Ahead
    <3> QED BY <3>3, <3>4
  <2> QED BY <2>1, <2>2, <2>3, <2>4 DEF Ahead
<1>3. CASE DirectoryDone \/ SessionDone
  BY <1>3 DEF DirectoryDone, SessionDone, Ahead, Covered
<1>4. CASE Lose
  BY <1>4 DEF Lose
<1>5. ASSUME NEW d \in queue, PopDirectory(d) PROVE (p \in handled \/ Ahead(p))'
  <2>1. p \in handled \/ \E e \in queue : Below(e, p)
    BY <1>5 DEF PopDirectory, Ahead, Covered
  <2>2. CASE Below(d, p)
    <3>1. Step(d, p) \in Name
      BY <1>0, <2>2, StepDown DEF TypeOK
    <3>2. 0 < Step(d, p)
      <4>1. \A x \in Nat \ {0} : 0 < x
        OBVIOUS
      <4>2. Step(d, p) \in Nat \ {0}
        BY <3>1, MerkleAssumption
      <4> QED BY <4>1, <4>2
    <3>3. phase' = "list" /\ at' = d /\ after' = 0
      BY <1>5 DEF PopDirectory
    <3>4. Step(at, p)' = Step(d, p)
      BY <3>3 DEF Step
    <3> QED BY <2>2, <3>2, <3>3, <3>4 DEF Ahead
  <2> QED BY <1>5, <2>1, <2>2 DEF PopDirectory, Ahead
<1>6. ASSUME NEW m \in kids, CompareChild(m) PROVE (p \in handled \/ Ahead(p))'
  <2> DEFINE c == Append(at, m)
  <2>1. p \in handled \/ Ahead(p)
    BY <1>6 DEF CompareChild, Covered
  <2>2. CASE p \in handled \/ \E d \in queue : Below(d, p)
    BY <1>6, <2>2 DEF CompareChild, Ahead
  <2>3. CASE Below(at, p) /\ Step(at, p) \in kids /\ Step(at, p) # m
    BY <1>6, <2>3 DEF CompareChild, Ahead, Step
  <2>4. CASE Below(at, p) /\ Step(at, p) = m
    <3>1. p = c \/ Below(c, p)
      BY <1>0, <2>4, StepDown DEF TypeOK
    <3>2. ~ Pruned(c)
      BY <3>1, DifferenceShows DEF Pruned
    <3>3. CASE p = c
      BY <1>0, <1>6, <3>2, <3>3 DEF CompareChild
    <3>4. CASE Below(c, p)
      <4>1. IsDir(remote, c)
        BY <1>0, <3>4 DEF IsDir
      <4> QED BY <1>6, <3>2, <3>4, <4>1 DEF CompareChild, Ahead
    <3> QED BY <3>1, <3>3, <3>4
  <2> QED BY <1>6, <2>1, <2>2, <2>3, <2>4 DEF Ahead, CompareChild
<1> QED BY <1>1, <1>2, <1>3, <1>4, <1>5, <1>6 DEF Next

\* What is queued or handed over has shown a difference.
LEMMA NextJustified == TypeOK /\ Justified /\ Next => Justified'
<1> SUFFICES ASSUME TypeOK, Justified, Next PROVE Justified'
  OBVIOUS
<1>0. /\ Differing' = Differing
      /\ \A d : /\ IsDir(local, d)' = IsDir(local, d)
               /\ HashAt(remote, d)' = HashAt(remote, d)
               /\ HashAt(local, d)' = HashAt(local, d)
  BY TreesStay
<1>1. CASE CompareRoots
  BY <1>0, <1>1 DEF CompareRoots, Justified
<1>2. CASE ListPage \/ DirectoryDone \/ SessionDone \/ Lose
  BY <1>0, <1>2 DEF ListPage, DirectoryDone, SessionDone, Lose, Justified
<1>3. ASSUME NEW d \in queue, PopDirectory(d) PROVE Justified'
  BY <1>0, <1>3 DEF PopDirectory, Justified
<1>4. ASSUME NEW n \in kids, CompareChild(n) PROVE Justified'
  <2> DEFINE c == Append(at, n)
  <2>1. IsChild(remote, c)
    BY DEF TypeOK, Children
  <2>2. ~ IsDir(remote, c) /\ ~ Pruned(c) => c \in Differing
    BY <2>1, HandledDiffers
  <2>3. ~ Pruned(c) => ~ (IsDir(local, c) /\ HashAt(local, c) = HashAt(remote, c))
    BY DEF Pruned, IsChild
  <2> QED BY <1>0, <1>4, <2>2, <2>3 DEF CompareChild, Justified
<1> QED BY <1>1, <1>2, <1>3, <1>4 DEF Next

\* The walk of a session keeps a way to every difference it has not handled.
THEOREM Invariance == Spec => []IInv
<1>1. Init => IInv
  BY InitIInv
<1>2. IInv /\ [Next]_vars => IInv'
  <2>1. IInv /\ Next => IInv'
    BY NextTypeOK, NextCovered, NextJustified DEF IInv
  <2>2. IInv /\ UNCHANGED vars => IInv'
    BY DEF vars, IInv, TypeOK, Covered, Justified, Ahead, Step, Differing, Leaves,
           IsDir, HashAt, LeafHash, Children, IsChild
  <2> QED BY <2>1, <2>2
<1> QED BY <1>1, <1>2, PTL DEF Spec

-----------------------------------------------------------------------------
(* What follows *)

\* Types, for every set of indexes and every page size.
THEOREM TypeCorrect == Spec => []TypeOK
<1>1. IInv => TypeOK
  BY DEF IInv
<1> QED BY <1>1, Invariance, PTL

\* A session that ends well has handed over exactly the leaves that differ:
\* pruning by hash and paging lose nothing.
THEOREM WalkIsComplete == Spec => []Complete
<1>1. IInv => Complete
  BY DEF IInv, Covered, Justified, Complete, Ahead
<1> QED BY <1>1, Invariance, PTL

\* No directory that both trees have alike is ever listed: a session costs
\* what the difference costs.
THEOREM WalkIsFrugal == Spec => []OnlyDifferences
<1>1. IInv => OnlyDifferences
  BY DEF IInv, Justified, OnlyDifferences
<1> QED BY <1>1, Invariance, PTL
=============================================================================
