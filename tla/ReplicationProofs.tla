-------------------------- MODULE ReplicationProofs --------------------------
(***************************************************************************)
(* What holds of the replicated index for any number of nodes, links,      *)
(* paths and values, and any number of crashes, lost connections and       *)
(* failures.                                                               *)
(*                                                                         *)
(* The rows alone are not inductive: a row receives vectors from ops,      *)
(* staged remote versions and snapshots that are in flight.  The inductive *)
(* invariant therefore bounds every vector in the state, stored or in      *)
(* flight, by the one vector Bound of what the nodes have originated.      *)
(***************************************************************************)
EXTENDS Replication, ConflictProofs

\* The most any vector may claim: each node's own ops, and one for each copy.
Bound == [i \in Id |-> IF i \in Node THEN latest[i] ELSE 1]

OpsUpTo(B) == {o \in Op : Leq(o.vv, B)}

ContestsUpTo(B) == {c \in Contest : c.remote \in VersionsUpTo(B)}

\* Only a rename has a source to look at.
JobsUpTo(B) ==
  {k \in Job : /\ k.op \in OpsUpTo(B)
               /\ k.contest \in ContestsUpTo(B)
               /\ k.st = "source" => k.op.old \in Path}

SessionsUpTo(B) == {s \in Session : s.rows \in [Path -> VersionsUpTo(B)]}

LeavesUpTo(B) == {k \in Leaf : k.contest \in ContestsUpTo(B)}

\* Every vector of the state is within B.
Fits(B) ==
  /\ files \in [Node -> [Path -> VersionsUpTo(B)]]
  /\ oplog \in [Node -> SUBSET OpsUpTo(B)]
  /\ job \in [Link -> SUBSET JobsUpTo(B)]
  /\ session \in [Link -> SUBSET SessionsUpTo(B)]
  /\ leaf \in [Link -> SUBSET LeavesUpTo(B)]

Counters ==
  /\ latest \in [Node -> Nat]
  /\ \A n \in Node : latest[n] <= MaxOps[n]
  /\ cursor \in [Node -> [Node -> Nat]]
  /\ conn \in [Link -> {"down", "gate", "live"}]
  /\ seen \in [Node -> [Path -> SUBSET OpId]]
  /\ drops \in 0 .. MaxDrops
  /\ skips \in 0 .. MaxSkips

\* Nothing of a subscription outlives it, and no op is handled in the gate.
Lifetimes ==
  \A l \in Link :
    /\ conn[l] # "live" => job[l] = {}
    /\ conn[l] = "down" => session[l] = {}
    /\ session[l] = {} => leaf[l] = {}

IInv == Fits(Bound) /\ Counters /\ Lifetimes

-----------------------------------------------------------------------------
(* The bound *)

\* The bound on all vectors is itself a vector.
LEMMA BoundIsVV ==
  ASSUME latest \in [Node -> Nat]
  PROVE  CopyBound(Bound)
<1>1. Bound \in VV
  BY ReplicationAssumption DEF Bound, VV
<1>2. \A cp \in Path : Leq(CopyVV(cp), Bound)
  BY ReplicationAssumption DEF Bound, Leq, CopyVV
<1> QED
  BY <1>1, <1>2 DEF CopyBound

\* The vector of an absent row is below every vector.
LEMMA ZeroIsLeast ==
  ASSUME NEW B \in VV
  PROVE  NoRow \in VersionsUpTo(B)
BY DEF NoRow, VersionsUpTo, Version, VV, Zero, Leq, Tombstone

\* Vectors within B are within any larger bound: what is in flight stays
\* legal when a node originates another op.
LEMMA FitsGrows ==
  ASSUME NEW B \in VV, NEW D \in VV, Leq(B, D)
  PROVE  /\ VersionsUpTo(B) \subseteq VersionsUpTo(D)
         /\ OpsUpTo(B) \subseteq OpsUpTo(D)
         /\ ContestsUpTo(B) \subseteq ContestsUpTo(D)
         /\ JobsUpTo(B) \subseteq JobsUpTo(D)
         /\ SessionsUpTo(B) \subseteq SessionsUpTo(D)
         /\ LeavesUpTo(B) \subseteq LeavesUpTo(D)
<1>1. VersionsUpTo(B) \subseteq VersionsUpTo(D)
  BY LeqTransitive DEF VersionsUpTo, Version
<1>2. OpsUpTo(B) \subseteq OpsUpTo(D)
  BY LeqTransitive DEF OpsUpTo, Op
<1>3. ContestsUpTo(B) \subseteq ContestsUpTo(D)
  BY <1>1 DEF ContestsUpTo
<1>4. JobsUpTo(B) \subseteq JobsUpTo(D)
  BY <1>2, <1>3 DEF JobsUpTo
<1>5. SessionsUpTo(B) \subseteq SessionsUpTo(D)
  BY <1>1 DEF SessionsUpTo
<1>6. LeavesUpTo(B) \subseteq LeavesUpTo(D)
  BY <1>3 DEF LeavesUpTo
<1> QED
  BY <1>1, <1>2, <1>3, <1>4, <1>5, <1>6

\* The links of a subscription are nodes.
LEMMA LinkEnds ==
  ASSUME NEW l \in Link
  PROVE  l[1] \in Node /\ l[2] \in Node
BY ReplicationAssumption

-----------------------------------------------------------------------------
(* Tasks *)

\* The effect of a bounded op on either of its paths is a bounded version.
LEMMA EffectType ==
  ASSUME NEW B, NEW o \in OpsUpTo(B), NEW p \in Path
  PROVE  /\ EffectAt(o, p) \in VersionsUpTo(B)
         /\ EffectAt(o, p).vv = o.vv
         /\ History(o) \in SUBSET OpId
<1>1. EffectAt(o, p) \in VersionsUpTo(B) /\ EffectAt(o, p).vv = o.vv
  BY DEF EffectAt, OpsUpTo, Op, VersionsUpTo, Version
<1>2. History(o) \in SUBSET OpId
  BY DEF OpsUpTo, Op, History, OpIdOf, OpId
<1> QED
  BY <1>1, <1>2

\* A resolution starts well typed and bounded.
LEMMA ContendType ==
  ASSUME NEW B, NEW p \in Path, NEW v \in VersionsUpTo(B),
         NEW h \in SUBSET OpId
  PROVE  /\ Contend(p, v, h) \in ContestsUpTo(B)
         /\ Contend(p, v, h).calls = 0
BY ReplicationAssumption DEF Contend, ContestsUpTo, Contest, VersionsUpTo

\* Staging a bounded plan keeps a resolution bounded, while calls remain.
LEMMA RestageType ==
  ASSUME NEW B, NEW c \in ContestsUpTo(B), c.calls < MaxCalls,
         NEW plan \in SUBSET PlannedRow
  PROVE  Restage(c, plan) \in ContestsUpTo(B)
<1>1. /\ c.at \in Path /\ c.past \in SUBSET OpId
      /\ c.remote \in Version /\ c.remote \in VersionsUpTo(B)
      /\ c.calls \in 0 .. MaxCalls
  BY DEF ContestsUpTo, Contest
<1> DEFINE x == c.calls + 1
<1>2. x \in 0 .. MaxCalls
  BY <1>1, ReplicationAssumption
<1>3. Restage(c, plan) = [c EXCEPT !.plan = plan, !.calls = x]
  BY DEF Restage
<1> HIDE DEF x
<1> QED
  BY <1>1, <1>2, <1>3 DEF ContestsUpTo, Contest

\* Moving a job to its next stage, or to a new contest, keeps it bounded.
LEMMA JobType ==
  ASSUME NEW B, NEW k \in JobsUpTo(B)
  PROVE  /\ \A st \in {"fetch", "resolve", "record", "quarantine", "late"} :
              [k EXCEPT !.st = st] \in JobsUpTo(B)
         /\ \A c \in ContestsUpTo(B) :
              /\ [k EXCEPT !.contest = c] \in JobsUpTo(B)
              /\ [k EXCEPT !.st = "settle", !.contest = c] \in JobsUpTo(B)
         /\ Then(k) \in SUBSET JobsUpTo(B)
<1>1. \A st \in {"fetch", "resolve", "record", "quarantine", "late"} :
         [k EXCEPT !.st = st] \in JobsUpTo(B)
  BY DEF JobsUpTo, Job
<1>2. \A c \in ContestsUpTo(B) :
        /\ [k EXCEPT !.contest = c] \in JobsUpTo(B)
        /\ [k EXCEPT !.st = "settle", !.contest = c] \in JobsUpTo(B)
  BY DEF JobsUpTo, Job, ContestsUpTo
<1>3. Then(k) \in SUBSET JobsUpTo(B)
  <2>1. k.op.old \in Path \cup {NoPath}
    BY DEF JobsUpTo, Job, Op
  <2> QED
    BY <2>1 DEF Then, JobsUpTo, Job
<1> QED
  BY <1>1, <1>2, <1>3

\* What process_remote_op does after a resolution is a bounded job.
LEMMA AfterType ==
  ASSUME NEW B, NEW k \in JobsUpTo(B), Resolving(k)
  PROVE  After(k) \in SUBSET JobsUpTo(B)
<1>1. CASE k.st = "resolve"
  <2>1. After(k) = {[k EXCEPT !.st = "record"]}
    BY <1>1, Zenon DEF After
  <2> QED
    BY <2>1, JobType
<1>2. CASE k.st = "late"
  <2>1. After(k) = Then(k)
    BY <1>2, Zenon DEF After
  <2> QED
    BY <2>1, JobType
<1>3. CASE k.st = "settle"
  <2>1. After(k) = {}
    BY <1>3, Zenon DEF After
  <2> QED
    BY <2>1
<1> QED
  BY <1>1, <1>2, <1>3 DEF Resolving

\* The job that a pushed op starts is bounded.
LEMMA Job0Type ==
  ASSUME NEW B, NEW o \in OpsUpTo(B), NEW st \in {"fetch", "resolve"}
  PROVE  /\ Job0(o, st) \in JobsUpTo(B)
         /\ Job0(o, st).st = st
         /\ Job0(o, st).contest.calls = 0
         /\ Job0(o, st).contest.at = o.path
         /\ Job0(o, st).contest.remote.vv = o.vv
<1>1. o.path \in Path /\ o \in Op
  BY DEF OpsUpTo, Op
<1> DEFINE c == Contend(o.path, EffectAt(o, o.path), History(o))
<1>2. c \in ContestsUpTo(B) /\ c.calls = 0
  BY <1>1, EffectType, ContendType
<1>3. c.at = o.path /\ c.remote.vv = o.vv
  BY <1>1, EffectType DEF Contend
<1>4. Job0(o, st) = [st |-> st, op |-> o, contest |-> c]
  BY DEF Job0
<1> HIDE DEF c
<1> QED
  BY <1>1, <1>2, <1>3, <1>4 DEF JobsUpTo, Job, ContestsUpTo

-----------------------------------------------------------------------------
(* Row updates *)

\* A dominating version replaces a row strictly forward (the Apply arm of
\* apply_remote and of reconcile_upsert).
LEMMA AdoptAdvances ==
  ASSUME NEW B \in VV, NEW row \in VersionsUpTo(B),
         NEW v \in VersionsUpTo(B), Decide(row, v.vv) = "Apply"
  PROVE  /\ Adopt(row, v) \in VersionsUpTo(B)
         /\ Less(row.vv, Adopt(row, v).vv)
<1> DEFINE w == Merge(row.vv, v.vv)
<1>1. /\ row.vv \in VV /\ v.vv \in VV /\ Leq(row.vv, B) /\ Leq(v.vv, B)
      /\ v.val \in Value \cup {Tombstone}
  BY DEF VersionsUpTo, Version
<1>2. w \in VV /\ Leq(row.vv, w) /\ Leq(v.vv, w) /\ Leq(w, B)
  BY <1>1, MergeIsLub
<1>3. ~ Leq(v.vv, row.vv)
  BY DecideCases DEF Less
<1>4. ~ Leq(w, row.vv)
  BY <1>1, <1>2, <1>3, LeqTransitive
<1>5. Adopt(row, v) = [val |-> v.val, vv |-> w]
  BY DEF Adopt
<1> HIDE DEF w
<1> QED
  BY <1>1, <1>2, <1>4, <1>5 DEF VersionsUpTo, Version, Less

\* apply_remote, whatever was decided before it.
LEMMA ApplyRemoteSafe ==
  ASSUME IInv, NEW l \in Link, NEW o \in OpsUpTo(Bound),
         NEW targets, targets \subseteq Path, ApplyRemote(l, o, targets)
  PROVE  /\ files' \in [Node -> [Path -> VersionsUpTo(Bound)]]
         /\ oplog' \in [Node -> SUBSET OpsUpTo(Bound)]
         /\ cursor' \in [Node -> [Node -> Nat]]
         /\ seen' \in [Node -> [Path -> SUBSET OpId]]
         /\ RowsAdvance
<1> DEFINE n == l[1]
           D == Dominated(n, o, targets \cup ({o.old} \ {NoPath}))
<1>1. n \in Node /\ Bound \in VV
  BY LinkEnds, BoundIsVV DEF IInv, Counters, CopyBound
<1>2. /\ o.origin \in Node /\ o.seq \in Nat /\ o.vv \in VV
      /\ o.old \in Path \cup {NoPath}
  BY DEF OpsUpTo, Op
<1>3. D \subseteq Path /\ \A p \in D : Decide(files[n][p], o.vv) = "Apply"
  BY <1>2 DEF Dominated
<1>4. /\ files \in [Node -> [Path -> VersionsUpTo(Bound)]]
      /\ oplog \in [Node -> SUBSET OpsUpTo(Bound)]
      /\ cursor \in [Node -> [Node -> Nat]]
      /\ seen \in [Node -> [Path -> SUBSET OpId]]
  BY DEF IInv, Fits, Counters
<1>5. /\ oplog' = [oplog EXCEPT ![n] = @ \cup {o}]
      /\ cursor' = [cursor EXCEPT ![n][o.origin] = Larger(@, o.seq)]
      /\ files' = [files EXCEPT ![n] = [p \in Path |->
                     IF p \in D THEN Adopt(@[p], EffectAt(o, p)) ELSE @[p]]]
      /\ seen' = [seen EXCEPT ![n] = [p \in Path |->
                     IF p \in D THEN @[p] \cup History(o) ELSE @[p]]]
  BY DEF ApplyRemote
<1> HIDE DEF n, D
<1>6. \A p \in D :
        /\ Adopt(files[n][p], EffectAt(o, p)) \in VersionsUpTo(Bound)
        /\ Less(files[n][p].vv, Adopt(files[n][p], EffectAt(o, p)).vv)
  <2> SUFFICES ASSUME NEW p \in D
               PROVE  /\ Adopt(files[n][p], EffectAt(o, p))
                           \in VersionsUpTo(Bound)
                      /\ Less(files[n][p].vv,
                              Adopt(files[n][p], EffectAt(o, p)).vv)
    OBVIOUS
  <2>1. p \in Path /\ files[n][p] \in VersionsUpTo(Bound)
    BY <1>1, <1>3, <1>4
  <2>2. /\ EffectAt(o, p) \in VersionsUpTo(Bound)
        /\ Decide(files[n][p], EffectAt(o, p).vv) = "Apply"
    BY <1>3, <2>1, EffectType
  <2> QED
    BY <1>1, <2>1, <2>2, AdoptAdvances
<1>7. files' \in [Node -> [Path -> VersionsUpTo(Bound)]] /\ RowsAdvance
  <2>1. files' \in [Node -> [Path -> VersionsUpTo(Bound)]]
    BY <1>1, <1>3, <1>4, <1>5, <1>6
  <2>2. \A m \in Node, p \in Path :
          files'[m][p] # files[m][p] =>
            /\ m = n /\ p \in D
            /\ files'[m][p] = Adopt(files[n][p], EffectAt(o, p))
    BY <1>1, <1>4, <1>5
  <2> QED
    BY <1>6, <2>1, <2>2 DEF RowsAdvance
<1>8. oplog' \in [Node -> SUBSET OpsUpTo(Bound)]
  BY <1>1, <1>4, <1>5
<1>9. cursor' \in [Node -> [Node -> Nat]]
  <2>1. Larger(cursor[n][o.origin], o.seq) \in Nat
    BY <1>1, <1>2, <1>4 DEF Larger
  <2> QED
    BY <1>1, <1>2, <1>4, <1>5, <2>1
<1>10. seen' \in [Node -> [Path -> SUBSET OpId]]
  <2>1. History(o) \in SUBSET OpId
    BY DEF OpsUpTo, Op, History, OpIdOf, OpId
  <2> QED
    BY <1>1, <1>4, <1>5, <2>1
<1> QED
  BY <1>7, <1>8, <1>9, <1>10

-----------------------------------------------------------------------------
(* Resolution *)

\* The candidates of a contest: the remote version is one of them, and their
\* merge covers the row, because the row joins them when the recorded ops do
\* not explain it (the coverage rule of resolve_rows).
LEMMA CandidatesCover ==
  ASSUME IInv, NEW n \in Node, NEW c \in ContestsUpTo(Bound)
  PROVE  /\ Candidates(n, c) \subseteq VersionsUpTo(Bound)
         /\ c.remote \in Candidates(n, c)
         /\ Leq(files[n][c.at].vv, MergeAll({v.vv : v \in Candidates(n, c)}))
<1> DEFINE ops == {EffectAt(o, c.at) : o \in {o \in oplog[n] :
                                               Affects(o, c.at)}}
                    \cup {c.remote}
           covered == Leq(files[n][c.at].vv, MergeAll({v.vv : v \in ops}))
           S == {v.vv : v \in Candidates(n, c)}
<1>1. Bound \in VV
  BY BoundIsVV DEF IInv, Counters, CopyBound
<1>2. c.at \in Path /\ c.remote \in VersionsUpTo(Bound)
  BY DEF ContestsUpTo, Contest
<1>3. files[n][c.at] \in VersionsUpTo(Bound) /\ oplog[n] \subseteq OpsUpTo(Bound)
  BY <1>2 DEF IInv, Fits
<1>4. ops \subseteq VersionsUpTo(Bound) /\ c.remote \in ops
  BY <1>2, <1>3, EffectType
<1>5. Candidates(n, c) = IF covered THEN ops ELSE ops \cup {files[n][c.at]}
  BY DEF Candidates
<1> HIDE DEF ops
<1>6. Candidates(n, c) \subseteq VersionsUpTo(Bound) /\ c.remote \in Candidates(n, c)
  BY <1>3, <1>4, <1>5
<1>7. CASE covered
  BY <1>5, <1>6, <1>7
<1>8. CASE ~ covered
  <2>1. /\ files[n][c.at].vv \in S /\ S \subseteq VV
        /\ \A v \in S : Leq(v, Bound)
    BY <1>3, <1>5, <1>6, <1>8 DEF VersionsUpTo, Version
  <2> HIDE DEF S
  <2>2. \A v \in S : Leq(v, MergeAll(S))
    BY <1>1, <2>1, MergeAllBounds
  <2>3. Leq(files[n][c.at].vv, MergeAll(S))
    BY <2>1, <2>2
  <2> QED
    BY <1>6, <2>3 DEF S
<1> QED
  BY <1>7, <1>8

\* A plan derived under the store's transaction moves every row it names
\* forward and stays within the bound (resolve_rows).
LEMMA DerivableAdvances ==
  ASSUME IInv, NEW n \in Node, NEW c \in ContestsUpTo(Bound),
         Contested(n, c), NEW plan \in Derivable(n, c)
  PROVE  \A r \in plan : /\ r \in PlannedRow
                         /\ Leq(r.vv, Bound)
                         /\ Less(files[n][r.path].vv, r.vv)
<1> SUFFICES ASSUME NEW r \in plan
             PROVE  /\ r \in PlannedRow
                    /\ Leq(r.vv, Bound)
                    /\ Less(files[n][r.path].vv, r.vv)
  OBVIOUS
<1> DEFINE C == Candidates(n, c)
           rows == files[n]
<1>1. CopyBound(Bound)
  BY BoundIsVV DEF IInv, Counters
<1>2. rows \in [Path -> VersionsUpTo(Bound)] /\ c.at \in Path
  BY DEF IInv, Fits, ContestsUpTo, Contest
<1>3. /\ C \subseteq VersionsUpTo(Bound) /\ c.remote \in C /\ C # {}
      /\ Leq(rows[c.at].vv, MergeAll({v.vv : v \in C}))
  BY CandidatesCover
<1>4. ~ Leq(c.remote.vv, rows[c.at].vv)
  BY DecideCases DEF Contested
<1>5. plan \in Plans(c.at, C, rows)
  BY DEF Derivable
<1> HIDE DEF C, rows
<1>6. /\ r \in PlannedRow /\ Leq(r.vv, Bound)
      /\ Less(rows[r.path].vv, r.vv)
  BY <1>1, <1>2, <1>3, <1>4, <1>5, PlanAdvances
<1> QED
  BY <1>6 DEF rows

\* resolve_rows commits only plans derived from the rows it replaces.
LEMMA CommitSafe ==
  ASSUME IInv, NEW n \in Node, NEW c \in ContestsUpTo(Bound), Commit(n, c)
  PROVE  /\ files' \in [Node -> [Path -> VersionsUpTo(Bound)]]
         /\ seen' \in [Node -> [Path -> SUBSET OpId]]
         /\ RowsAdvance
<1>1. /\ files \in [Node -> [Path -> VersionsUpTo(Bound)]]
      /\ oplog \in [Node -> SUBSET OpsUpTo(Bound)]
      /\ seen \in [Node -> [Path -> SUBSET OpId]]
  BY DEF IInv, Fits, Counters
<1>2. \A r \in c.plan : /\ r \in PlannedRow
                        /\ Leq(r.vv, Bound)
                        /\ Less(files[n][r.path].vv, r.vv)
  BY DerivableAdvances DEF Commit
<1>3. \A p \in Path :
        /\ Install(files[n], c.plan)[p] \in VersionsUpTo(Bound)
        /\ \/ Install(files[n], c.plan)[p] = files[n][p]
           \/ Less(files[n][p].vv, Install(files[n], c.plan)[p].vv)
  <2> SUFFICES ASSUME NEW p \in Path
               PROVE  /\ Install(files[n], c.plan)[p] \in VersionsUpTo(Bound)
                      /\ \/ Install(files[n], c.plan)[p] = files[n][p]
                         \/ Less(files[n][p].vv,
                                 Install(files[n], c.plan)[p].vv)
    OBVIOUS
  <2>1. CASE \E r \in c.plan : r.path = p
    <3> DEFINE r == CHOOSE r \in c.plan : r.path = p
    <3>1. r \in c.plan /\ r.path = p
      BY <2>1
    <3>2. Install(files[n], c.plan)[p] = [val |-> r.val, vv |-> r.vv]
      BY <2>1 DEF Install
    <3> HIDE DEF r
    <3>3. r \in PlannedRow /\ Leq(r.vv, Bound) /\ Less(files[n][p].vv, r.vv)
      BY <1>2, <3>1
    <3> QED
      BY <3>2, <3>3 DEF PlannedRow, VersionsUpTo, Version
  <2>2. CASE ~ \E r \in c.plan : r.path = p
    <3>1. Install(files[n], c.plan)[p] = files[n][p]
      BY <2>2 DEF Install
    <3> QED
      BY <1>1, <3>1
  <2> QED
    BY <2>1, <2>2
<1>4. /\ files' = [files EXCEPT ![n] = Install(files[n], c.plan)]
      /\ seen' = [seen EXCEPT ![n][c.at] = Absorbed(n, c)]
  BY <1>1 DEF Commit
<1>5. Install(files[n], c.plan) \in [Path -> VersionsUpTo(Bound)]
  <2>1. Install(files[n], c.plan)
          = [p \in Path |-> Install(files[n], c.plan)[p]]
    BY DEF Install
  <2> QED
    BY <1>3, <2>1
<1>6. files' \in [Node -> [Path -> VersionsUpTo(Bound)]]
  BY <1>1, <1>4, <1>5
<1>7. RowsAdvance
  BY <1>1, <1>3, <1>4 DEF RowsAdvance
<1>8. seen' \in [Node -> [Path -> SUBSET OpId]]
  <2>1. c.at \in Path /\ c.past \in SUBSET OpId
    BY DEF ContestsUpTo, Contest
  <2>2. \A o \in oplog[n] : History(o) \in SUBSET OpId
    BY <1>1, <2>1, EffectType
  <2>3. Absorbed(n, c) \in SUBSET OpId
    BY <1>1, <2>1, <2>2 DEF Absorbed
  <2> QED
    BY <1>1, <1>4, <2>1, <2>3
<1> QED
  BY <1>6, <1>7, <1>8

-----------------------------------------------------------------------------
(* Steps: each action preserves the invariant and only advances rows. *)

\* An action that originates no op keeps the bound.
LEMMA SameBound ==
  ASSUME latest' = latest,
         files' \in [Node -> [Path -> VersionsUpTo(Bound)]],
         oplog' \in [Node -> SUBSET OpsUpTo(Bound)],
         job' \in [Link -> SUBSET JobsUpTo(Bound)],
         session' \in [Link -> SUBSET SessionsUpTo(Bound)],
         leaf' \in [Link -> SUBSET LeavesUpTo(Bound)],
         Counters', Lifetimes'
  PROVE  IInv'
<1>1. Bound' = Bound
  BY DEF Bound
<1> QED
  BY <1>1 DEF IInv, Fits

\* A step that leaves the index alone takes no row back.
LEMMA SameRows ==
  ASSUME files' = files
  PROVE  RowsAdvance
BY DEF RowsAdvance

\* A fresh store satisfies the inductive invariant.
LEMMA InitSafe ==
  ASSUME Init
  PROVE  IInv
<1>1. latest \in [Node -> Nat] /\ Counters /\ Lifetimes
  BY ReplicationAssumption DEF Init, Counters, Lifetimes
<1>2. Bound \in VV
  BY <1>1, BoundIsVV DEF CopyBound
<1>3. NoRow \in VersionsUpTo(Bound)
  BY <1>2, ZeroIsLeast
<1>4. Fits(Bound)
  BY <1>3 DEF Init, Fits
<1> QED
  BY <1>1, <1>4 DEF IInv

\* append_local keeps the invariant and advances its row.
LEMMA AppendLocalSafe ==
  ASSUME IInv, NEW n \in Node, NEW p \in UserPath,
         NEW v \in Value \cup {Tombstone}, AppendLocal(n, p, v)
  PROVE  IInv' /\ RowsAdvance
<1> DEFINE w == Increment(files[n][p].vv, n)
           op == [origin |-> n, seq |-> latest[n] + 1, path |-> p,
                  old |-> NoPath, val |-> v, vv |-> w, past |-> seen[n][p]]
<1>1. p \in Path /\ n \in Id /\ Bound \in VV
  BY BoundIsVV, ReplicationAssumption DEF IInv, Counters, CopyBound
<1>2. files[n][p].vv \in VV /\ Leq(files[n][p].vv, Bound)
  BY <1>1 DEF IInv, Fits, VersionsUpTo, Version
<1>3. /\ latest[n] < MaxOps[n]
      /\ latest' = [latest EXCEPT ![n] = @ + 1]
      /\ oplog' = [oplog EXCEPT ![n] = @ \cup {op}]
      /\ files' = [files EXCEPT ![n][p] = [val |-> v, vv |-> w]]
      /\ seen' = [seen EXCEPT ![n][p] = @ \cup {OpIdOf(op)}]
      /\ UNCHANGED <<cursor, conn, job, session, leaf, drops, skips>>
  BY DEF AppendLocal
<1>4. latest \in [Node -> Nat] /\ MaxOps \in [Node -> Nat]
  BY ReplicationAssumption DEF IInv, Counters
<1>5. /\ latest' \in [Node -> Nat] /\ \A m \in Node : latest'[m] <= MaxOps[m]
      /\ latest[n] + 1 \in Nat
  BY <1>3, <1>4 DEF IInv, Counters
<1>6. Bound' \in VV /\ Leq(Bound, Bound') /\ Leq(w, Bound')
  <2>1. Bound' = [i \in Id |-> IF i \in Node THEN latest'[i] ELSE 1]
    BY DEF Bound
  <2>2. Bound' \in VV
    BY <1>5, <2>1 DEF VV
  <2>3. Leq(Bound, Bound')
    BY <1>3, <1>4, <2>1 DEF Bound, Leq
  <2>4. Leq(w, Bound')
    BY <1>1, <1>2, <1>3, <1>4, <2>1 DEF Bound, Leq, Increment, VV
  <2> QED
    BY <2>2, <2>3, <2>4
<1>7. w \in VV /\ Less(files[n][p].vv, w)
  BY <1>1, <1>2, IncrementAdvances
<1>8. op \in OpsUpTo(Bound') /\ OpIdOf(op) \in OpId
  <2> HIDE DEF w
  <2>1. seen[n][p] \in SUBSET OpId
    BY <1>1 DEF IInv, Counters
  <2> QED
    BY <1>1, <1>5, <1>6, <1>7, <2>1 DEF OpsUpTo, Op, OpIdOf, OpId
<1>9. [val |-> v, vv |-> w] \in VersionsUpTo(Bound')
  <2> HIDE DEF w
  <2> QED
    BY <1>6, <1>7 DEF VersionsUpTo, Version
<1> HIDE DEF w, op
<1>10. Fits(Bound')
  BY <1>1, <1>6, FitsGrows DEF IInv, Fits
<1>11. Fits(Bound)'
  BY <1>1, <1>3, <1>8, <1>9, <1>10 DEF Fits
<1>12. Counters' /\ Lifetimes'
  <2>1. Counters'
    BY <1>1, <1>3, <1>5, <1>8 DEF IInv, Counters
  <2>2. Lifetimes'
    BY <1>3 DEF IInv, Lifetimes
  <2> QED
    BY <2>1, <2>2
<1>13. RowsAdvance
  BY <1>1, <1>3, <1>7 DEF RowsAdvance, IInv, Fits
<1> QED
  BY <1>11, <1>12, <1>13 DEF IInv

\* append_local_rename keeps the invariant and advances both of its rows.
LEMMA AppendLocalRenameSafe ==
  ASSUME IInv, NEW n \in Node, NEW p \in UserPath, NEW q \in UserPath,
         AppendLocalRename(n, p, q)
  PROVE  IInv' /\ RowsAdvance
<1> DEFINE w == Increment(Merge(files[n][p].vv, files[n][q].vv), n)
           h == seen[n][p] \cup seen[n][q]
           op == [origin |-> n, seq |-> latest[n] + 1, path |-> q, old |-> p,
                  val |-> files[n][p].val, vv |-> w, past |-> h]
<1>1. p \in Path /\ q \in Path /\ n \in Id /\ Bound \in VV
  BY BoundIsVV, ReplicationAssumption DEF IInv, Counters, CopyBound
<1>2. /\ files[n][p].vv \in VV /\ Leq(files[n][p].vv, Bound)
      /\ files[n][q].vv \in VV /\ Leq(files[n][q].vv, Bound)
      /\ files[n][p].val \in Value \cup {Tombstone}
  BY <1>1 DEF IInv, Fits, VersionsUpTo, Version
<1>3. /\ p # q
      /\ latest[n] < MaxOps[n]
      /\ latest' = [latest EXCEPT ![n] = @ + 1]
      /\ oplog' = [oplog EXCEPT ![n] = @ \cup {op}]
      /\ files' = [files EXCEPT ![n][p] = [val |-> Tombstone, vv |-> w],
                                ![n][q] = [val |-> op.val, vv |-> w]]
      /\ seen' = [seen EXCEPT ![n][p] = @ \cup History(op),
                              ![n][q] = @ \cup History(op)]
      /\ UNCHANGED <<cursor, conn, job, session, leaf, drops, skips>>
  BY DEF AppendLocalRename
<1>4. latest \in [Node -> Nat] /\ MaxOps \in [Node -> Nat]
  BY ReplicationAssumption DEF IInv, Counters
<1>5. /\ latest' \in [Node -> Nat] /\ \A m \in Node : latest'[m] <= MaxOps[m]
      /\ latest[n] + 1 \in Nat
  BY <1>3, <1>4 DEF IInv, Counters
<1> DEFINE u == Merge(files[n][p].vv, files[n][q].vv)
<1>6. /\ u \in VV /\ Leq(u, Bound)
      /\ Leq(files[n][p].vv, u) /\ Leq(files[n][q].vv, u)
  BY <1>1, <1>2, MergeIsLub
<1>7. w \in VV /\ Less(u, w)
  <2> HIDE DEF u
  <2>1. Increment(u, n) \in VV /\ Less(u, Increment(u, n))
    BY <1>1, <1>6, IncrementAdvances
  <2> QED
    BY <2>1 DEF u
<1>8. Bound' \in VV /\ Leq(Bound, Bound') /\ Leq(w, Bound')
  <2>1. Bound' = [i \in Id |-> IF i \in Node THEN latest'[i] ELSE 1]
    BY DEF Bound
  <2>2. Bound' \in VV
    BY <1>5, <2>1 DEF VV
  <2>3. Leq(Bound, Bound')
    BY <1>3, <1>4, <2>1 DEF Bound, Leq
  <2> HIDE DEF u
  <2>4. Leq(Increment(u, n), Bound')
    <3> SUFFICES ASSUME NEW i \in Id
                 PROVE  Increment(u, n)[i] <= Bound'[i]
      BY DEF Leq
    <3>1. u[i] \in Nat /\ Bound[i] \in Nat /\ u[i] <= Bound[i]
      BY <1>1, <1>6 DEF VV, Leq
    <3>2. CASE i = n
      <4>1. Increment(u, n)[i] = u[i] + 1
        BY <1>1, <1>6, <3>2 DEF Increment, VV
      <4>2. Bound[i] = latest[n] /\ Bound'[i] = latest[n] + 1
        BY <1>1, <1>3, <1>4, <2>1, <3>2 DEF Bound
      <4> QED
        BY <3>1, <4>1, <4>2
    <3>3. CASE i # n
      <4>1. Increment(u, n)[i] = u[i]
        BY <1>1, <1>6, <3>3 DEF Increment, VV
      <4>2. Bound'[i] = Bound[i]
        BY <1>3, <1>4, <2>1, <3>3 DEF Bound
      <4> QED
        BY <3>1, <4>1, <4>2
    <3> QED
      BY <3>2, <3>3
  <2> QED
    BY <2>2, <2>3, <2>4 DEF u
<1>9. Less(files[n][p].vv, w) /\ Less(files[n][q].vv, w)
  <2> HIDE DEF u, w
  <2> QED
    BY <1>2, <1>6, <1>7, LeqTransitive DEF Less
<1>10. op \in OpsUpTo(Bound') /\ op.val = files[n][p].val
  <2> HIDE DEF w
  <2>1. h \in SUBSET OpId
    BY <1>1 DEF IInv, Counters
  <2> HIDE DEF h
  <2> QED
    BY <1>1, <1>2, <1>5, <1>7, <1>8, <2>1 DEF OpsUpTo, Op
<1>11. /\ [val |-> Tombstone, vv |-> w] \in VersionsUpTo(Bound')
       /\ [val |-> op.val, vv |-> w] \in VersionsUpTo(Bound')
  <2> HIDE DEF w, op
  <2> QED
    BY <1>2, <1>7, <1>8, <1>10 DEF VersionsUpTo, Version
<1> HIDE DEF w, op, h, u
<1>12. History(op) \in SUBSET OpId
  BY <1>1, <1>10, EffectType
<1>13. Fits(Bound')
  BY <1>1, <1>8, FitsGrows DEF IInv, Fits
<1>14. Fits(Bound)'
  BY <1>1, <1>3, <1>10, <1>11, <1>13 DEF Fits
<1>15. Counters' /\ Lifetimes'
  <2>1. seen' \in [Node -> [Path -> SUBSET OpId]]
    BY <1>1, <1>3, <1>12 DEF IInv, Counters
  <2> QED
    BY <1>3, <1>5, <2>1 DEF IInv, Counters, Lifetimes
<1>16. RowsAdvance
  <2>1. files \in [Node -> [Path -> VersionsUpTo(Bound)]]
    BY DEF IInv, Fits
  <2>2. /\ files'[n][p].vv = w /\ files'[n][q].vv = w
        /\ \A m \in Node, r \in Path :
             files'[m][r] # files[m][r] => m = n /\ r \in {p, q}
    BY <1>1, <1>3, <2>1
  <2> QED
    BY <1>9, <2>2 DEF RowsAdvance
<1> QED
  BY <1>14, <1>15, <1>16 DEF IInv

\* Deciding on a pushed op keeps the invariant, whatever the decision.
LEMMA ReceiveSafe ==
  ASSUME IInv, NEW l \in Link, Receive(l)
  PROVE  IInv' /\ RowsAdvance
<1> DEFINE n == l[1]
<1>1. PICK o \in Delivered(l) :
        LET d == Decide(files[n][o.path], o.vv)
            k == Job0(o, "resolve")
        IN  /\ conn[l] = "live"
            /\ job[l] = {}
            /\ \/ /\ d = "Apply"
                  /\ job' = [job EXCEPT ![l] = {Job0(o, "fetch")}]
                  /\ UNCHANGED <<files, oplog, cursor, seen>>
               \/ /\ d = "Ignore"
                  /\ ApplyRemote(l, o, {})
                  /\ job' = [job EXCEPT ![l] = Then(k)]
               \/ /\ d = "Concurrent"
                  /\ \/ \E plan \in Derivable(n, k.contest) :
                          job' = [job EXCEPT ![l] =
                            {[k EXCEPT !.contest = Restage(@, plan)]}]
                     \/ /\ Derivable(n, k.contest) = {}
                        /\ job' = [job EXCEPT ![l] = After(k)]
                  /\ UNCHANGED <<files, oplog, cursor, seen>>
            /\ UNCHANGED <<latest, conn, session, leaf, drops, skips>>
  BY DEF Receive
<1> DEFINE k == Job0(o, "resolve")
           J == JobsUpTo(Bound)
<1>2. n \in Node /\ l[2] \in Node
  BY LinkEnds
<1>3. o \in OpsUpTo(Bound)
  BY <1>2 DEF Delivered, IInv, Fits
<1>4. /\ k \in J /\ Job0(o, "fetch") \in J /\ k.st = "resolve"
      /\ k.contest.calls = 0 /\ k.contest \in ContestsUpTo(Bound)
      /\ k.contest.at = o.path /\ k.contest.remote.vv = o.vv
  BY <1>3, Job0Type DEF JobsUpTo
<1>5. Then(k) \in SUBSET J /\ After(k) \in SUBSET J
  BY <1>4, JobType, AfterType DEF Resolving
<1> HIDE DEF k, J
<1>6. ASSUME NEW X \in SUBSET J, job' = [job EXCEPT ![l] = X],
             UNCHANGED <<files, oplog, cursor, seen>>
      PROVE  IInv' /\ RowsAdvance
  <2>1. job' \in [Link -> SUBSET J] /\ conn[l] = "live"
    BY <1>1, <1>6 DEF IInv, Fits, J
  <2>2. Counters' /\ Lifetimes'
    BY <1>1, <1>6 DEF IInv, Counters, Lifetimes, Fits
  <2> QED
    BY <1>1, <1>6, <2>1, <2>2, SameBound, SameRows DEF IInv, Fits, J
<1>7. CASE job' = [job EXCEPT ![l] = {Job0(o, "fetch")}]
           /\ UNCHANGED <<files, oplog, cursor, seen>>
  BY <1>4, <1>6, <1>7
<1>8. CASE ApplyRemote(l, o, {}) /\ job' = [job EXCEPT ![l] = Then(k)]
  <2>1. /\ files' \in [Node -> [Path -> VersionsUpTo(Bound)]]
        /\ oplog' \in [Node -> SUBSET OpsUpTo(Bound)]
        /\ cursor' \in [Node -> [Node -> Nat]]
        /\ seen' \in [Node -> [Path -> SUBSET OpId]]
        /\ RowsAdvance
    BY <1>3, <1>8, ApplyRemoteSafe
  <2>2. job' \in [Link -> SUBSET J]
    BY <1>5, <1>8 DEF IInv, Fits, J
  <2>3. Counters' /\ Lifetimes'
    BY <1>1, <1>8, <2>1 DEF IInv, Counters, Lifetimes, Fits
  <2> QED
    BY <1>1, <2>1, <2>2, <2>3, SameBound DEF IInv, Fits, J
<1>9. ASSUME Decide(files[n][o.path], o.vv) = "Concurrent",
             NEW plan \in Derivable(n, k.contest),
             job' = [job EXCEPT ![l] = {[k EXCEPT !.contest = Restage(@, plan)]}],
             UNCHANGED <<files, oplog, cursor, seen>>
      PROVE  IInv' /\ RowsAdvance
  <2>1. Contested(n, k.contest)
    BY <1>4, <1>9, DecideCases DEF Contested
  <2>2. plan \in SUBSET PlannedRow
    BY <1>2, <1>4, <1>9, <2>1, DerivableAdvances
  <2>3. Restage(k.contest, plan) \in ContestsUpTo(Bound)
    BY <1>4, <2>2, RestageType, ReplicationAssumption
  <2>4. [k EXCEPT !.contest = Restage(@, plan)] \in J
    BY <1>4, <2>3, JobType DEF J
  <2> QED
    BY <1>6, <1>9, <2>4
<1>10. CASE job' = [job EXCEPT ![l] = After(k)]
            /\ UNCHANGED <<files, oplog, cursor, seen>>
  BY <1>5, <1>6, <1>10
<1> QED
  BY <1>1, <1>7, <1>8, <1>9, <1>10 DEF k

\* Recording an op and going on to the task state X.
LEMMA RecordSafe ==
  ASSUME IInv, NEW l \in Link, NEW k \in job[l],
         NEW targets, targets \subseteq Path,
         ApplyRemote(l, k.op, targets),
         NEW X \in SUBSET JobsUpTo(Bound),
         job' = [job EXCEPT ![l] = X],
         UNCHANGED <<latest, conn, session, leaf, drops, skips>>
  PROVE  IInv' /\ RowsAdvance
<1>1. k \in JobsUpTo(Bound) /\ k.op \in OpsUpTo(Bound)
  BY DEF IInv, Fits, JobsUpTo
<1>2. /\ files' \in [Node -> [Path -> VersionsUpTo(Bound)]]
      /\ oplog' \in [Node -> SUBSET OpsUpTo(Bound)]
      /\ cursor' \in [Node -> [Node -> Nat]]
      /\ seen' \in [Node -> [Path -> SUBSET OpId]]
      /\ RowsAdvance
  BY <1>1, ApplyRemoteSafe
<1>3. job' \in [Link -> SUBSET JobsUpTo(Bound)]
  BY DEF IInv, Fits
<1>4. Counters' /\ Lifetimes'
  BY <1>2 DEF IInv, Counters, Lifetimes, Fits
<1> QED
  BY <1>2, <1>3, <1>4, SameBound DEF IInv, Fits

\* Committing a materialized op, stale or not, keeps the invariant.
LEMMA FetchedSafe ==
  ASSUME IInv, NEW l \in Link, Fetched(l)
  PROVE  IInv' /\ RowsAdvance
<1>1. PICK k \in job[l] :
        /\ ApplyRemote(l, k.op, {k.op.path})
        /\ job' = [job EXCEPT ![l] =
             IF Decide(files[l[1]][k.op.path], k.op.vv) = "Concurrent"
             THEN {[k EXCEPT !.st = "late"]} ELSE Then(k)]
        /\ UNCHANGED <<latest, conn, session, leaf, drops, skips>>
  BY DEF Fetched
<1> DEFINE T == {k.op.path}
           X == IF Decide(files[l[1]][k.op.path], k.op.vv) = "Concurrent"
                THEN {[k EXCEPT !.st = "late"]} ELSE Then(k)
<1>2. k \in JobsUpTo(Bound) /\ T \subseteq Path
  BY DEF IInv, Fits, JobsUpTo, Job, Op
<1>3. X \in SUBSET JobsUpTo(Bound)
  BY <1>2, JobType
<1>4. ApplyRemote(l, k.op, T) /\ job' = [job EXCEPT ![l] = X]
  BY <1>1
<1> HIDE DEF T, X
<1> QED
  BY <1>1, <1>2, <1>3, <1>4, RecordSafe

\* Recording an op without its target effect keeps the invariant.
LEMMA RecordedSafe ==
  ASSUME IInv, NEW l \in Link, Record(l)
  PROVE  IInv' /\ RowsAdvance
<1>1. PICK k \in job[l] :
        /\ ApplyRemote(l, k.op, {})
        /\ job' = [job EXCEPT ![l] = IF k.st = "record" THEN Then(k) ELSE {}]
        /\ UNCHANGED <<latest, conn, session, leaf, drops, skips>>
  BY DEF Record
<1> DEFINE T == {}
           X == IF k.st = "record" THEN Then(k) ELSE {}
<1>2. k \in JobsUpTo(Bound) /\ T \subseteq Path
  BY DEF IInv, Fits
<1>3. X \in SUBSET JobsUpTo(Bound)
  BY <1>2, JobType
<1>4. ApplyRemote(l, k.op, T) /\ job' = [job EXCEPT ![l] = X]
  BY <1>1
<1> HIDE DEF T, X
<1> QED
  BY <1>1, <1>2, <1>3, <1>4, RecordSafe

\* A step of an op task that leaves the index alone.
LEMMA TaskSafe ==
  ASSUME IInv, NEW l \in Link, job[l] # {},
         NEW X \in SUBSET JobsUpTo(Bound), job' = [job EXCEPT ![l] = X],
         skips' \in 0 .. MaxSkips,
         UNCHANGED <<files, oplog, latest, cursor, conn, session, leaf, seen,
                     drops>>
  PROVE  IInv' /\ RowsAdvance
<1>1. job' \in [Link -> SUBSET JobsUpTo(Bound)]
  BY DEF IInv, Fits
<1>2. Counters' /\ Lifetimes'
  BY DEF IInv, Counters, Lifetimes, Fits
<1> QED
  BY <1>1, <1>2, SameBound, SameRows DEF IInv, Fits

\* A permanent failure stays within its bound.
LEMMA SkipCounted ==
  ASSUME IInv, skips < MaxSkips, skips' = skips + 1
  PROVE  skips' \in 0 .. MaxSkips
BY ReplicationAssumption DEF IInv, Counters

\* Quarantining an op keeps the invariant.
LEMMA QuarantineSafe ==
  ASSUME IInv, NEW l \in Link, Quarantine(l)
  PROVE  IInv' /\ RowsAdvance
<1>1. PICK k \in job[l] :
        /\ skips < MaxSkips /\ skips' = skips + 1
        /\ job' = [job EXCEPT ![l] = {[k EXCEPT !.st = "quarantine"]}]
        /\ UNCHANGED <<files, oplog, latest, cursor, conn, session, leaf, seen,
                       drops>>
  BY DEF Quarantine, PermanentFailure
<1>2. k \in JobsUpTo(Bound)
  BY DEF IInv, Fits
<1>3. {[k EXCEPT !.st = "quarantine"]} \in SUBSET JobsUpTo(Bound)
  BY <1>2, JobType
<1> QED
  BY <1>1, <1>3, SkipCounted, TaskSafe

\* Abandoning a resolution keeps the invariant.
LEMMA AbandonOpSafe ==
  ASSUME IInv, NEW l \in Link, AbandonOp(l)
  PROVE  IInv' /\ RowsAdvance
<1>1. PICK k \in job[l] :
        /\ Resolving(k)
        /\ skips < MaxSkips /\ skips' = skips + 1
        /\ job' = [job EXCEPT ![l] = After(k)]
        /\ UNCHANGED <<files, oplog, latest, cursor, conn, session, leaf, seen,
                       drops>>
  BY DEF AbandonOp, PermanentFailure
<1>2. k \in JobsUpTo(Bound)
  BY DEF IInv, Fits
<1>3. After(k) \in SUBSET JobsUpTo(Bound)
  BY <1>1, <1>2, AfterType
<1> QED
  BY <1>1, <1>3, SkipCounted, TaskSafe

\* Looking at a rename's source keeps the invariant.
LEMMA CheckSourceSafe ==
  ASSUME IInv, NEW l \in Link, CheckSource(l)
  PROVE  IInv' /\ RowsAdvance
<1>1. PICK k \in job[l] :
        /\ k.st = "source"
        /\ LET old == k.op.old
           IN  job' = [job EXCEPT ![l] =
                 IF Decide(files[l[1]][old], k.op.vv) = "Concurrent"
                 THEN {[k EXCEPT !.st = "settle",
                                 !.contest = Contend(old, EffectAt(k.op, old),
                                                     History(k.op))]}
                 ELSE {}]
        /\ UNCHANGED <<files, oplog, latest, cursor, conn, session, leaf, seen,
                       drops, skips>>
  BY DEF CheckSource
<1> DEFINE old == k.op.old
           c == Contend(old, EffectAt(k.op, old), History(k.op))
           X == IF Decide(files[l[1]][old], k.op.vv) = "Concurrent"
                THEN {[k EXCEPT !.st = "settle", !.contest = c]} ELSE {}
<1>2. k \in JobsUpTo(Bound) /\ k.op \in OpsUpTo(Bound) /\ old \in Path
  BY <1>1 DEF IInv, Fits, JobsUpTo
<1>3. c \in ContestsUpTo(Bound)
  BY <1>2, EffectType, ContendType
<1>4. job' = [job EXCEPT ![l] = X] /\ skips' \in 0 .. MaxSkips
  BY <1>1 DEF IInv, Counters
<1> HIDE DEF c
<1>5. X \in SUBSET JobsUpTo(Bound)
  BY <1>2, <1>3, JobType
<1> HIDE DEF X
<1> QED
  BY <1>1, <1>4, <1>5, TaskSafe

\* A resolution of an op: committed, staged again, or given up.
LEMMA ResolveOpSafe ==
  ASSUME IInv, NEW l \in Link, ResolveOp(l)
  PROVE  IInv' /\ RowsAdvance
<1>1. PICK k \in job[l] :
        /\ Resolving(k)
        /\ \/ /\ Commit(l[1], k.contest)
              /\ job' = [job EXCEPT ![l] = After(k)]
           \/ \E plan \in Derivable(l[1], k.contest) :
                /\ Stale(l[1], k.contest, plan)
                /\ job' = [job EXCEPT ![l] =
                     {[k EXCEPT !.contest = Restage(@, plan)]}]
                /\ UNCHANGED <<files, seen>>
           \/ /\ GiveUp(l[1], k.contest)
              /\ job' = [job EXCEPT ![l] = After(k)]
              /\ UNCHANGED <<files, seen>>
        /\ UNCHANGED <<oplog, latest, cursor, conn, session, leaf, drops, skips>>
  BY DEF ResolveOp
<1> DEFINE n == l[1]
           c == k.contest
<1>2. n \in Node /\ k \in JobsUpTo(Bound) /\ c \in ContestsUpTo(Bound)
  BY LinkEnds DEF IInv, Fits, JobsUpTo
<1>3. After(k) \in SUBSET JobsUpTo(Bound)
  BY <1>1, <1>2, AfterType
<1> HIDE DEF n, c
<1>4. CASE Commit(n, c) /\ job' = [job EXCEPT ![l] = After(k)]
  <2>1. /\ files' \in [Node -> [Path -> VersionsUpTo(Bound)]]
        /\ seen' \in [Node -> [Path -> SUBSET OpId]]
        /\ RowsAdvance
    BY <1>2, <1>4, CommitSafe
  <2>2. job' \in [Link -> SUBSET JobsUpTo(Bound)]
    BY <1>3, <1>4 DEF IInv, Fits
  <2>3. Counters' /\ Lifetimes'
    BY <1>1, <1>4, <2>1 DEF IInv, Counters, Lifetimes, Fits
  <2> QED
    BY <1>1, <2>1, <2>2, <2>3, SameBound DEF IInv, Fits
<1>5. ASSUME NEW plan \in Derivable(n, c), Stale(n, c, plan),
             job' = [job EXCEPT ![l] = {[k EXCEPT !.contest = Restage(c, plan)]}],
             UNCHANGED <<files, seen>>
      PROVE  IInv' /\ RowsAdvance
  <2>1. Contested(n, c) /\ c.calls < MaxCalls
    BY <1>2, <1>5, ReplicationAssumption DEF Stale, ContestsUpTo, Contest
  <2>2. plan \in SUBSET PlannedRow
    BY <1>2, <1>5, <2>1, DerivableAdvances
  <2>3. Restage(c, plan) \in ContestsUpTo(Bound)
    BY <1>2, <2>1, <2>2, RestageType
  <2> DEFINE X == {[k EXCEPT !.contest = Restage(c, plan)]}
  <2>4. X \in SUBSET JobsUpTo(Bound) /\ job' = [job EXCEPT ![l] = X]
    BY <1>2, <1>5, <2>3, JobType
  <2>5. skips' \in 0 .. MaxSkips
    BY <1>1 DEF IInv, Counters
  <2> HIDE DEF X
  <2> QED
    BY <1>1, <1>5, <2>4, <2>5, TaskSafe
<1>6. CASE /\ job' = [job EXCEPT ![l] = After(k)]
           /\ UNCHANGED <<files, seen>>
  <2>1. skips' \in 0 .. MaxSkips
    BY <1>1 DEF IInv, Counters
  <2> QED
    BY <1>1, <1>3, <1>6, <2>1, TaskSafe
<1> QED
  BY <1>1, <1>4, <1>5, <1>6 DEF n, c

\* snapshot_for_join returns bounded rows.
LEMMA SnapshotType ==
  ASSUME IInv, NEW m \in Node
  PROVE  Snapshot(m) \in SessionsUpTo(Bound)
<1>1. /\ files[m] \in [Path -> VersionsUpTo(Bound)]
      /\ seen[m] \in [Path -> SUBSET OpId] /\ latest[m] \in Nat
  BY DEF IInv, Fits, Counters
<1>2. files[m] \in [Path -> Version]
  BY <1>1 DEF VersionsUpTo
<1> QED
  BY <1>1, <1>2 DEF Snapshot, SessionsUpTo, Session

\* Starting the gate keeps the invariant.
LEMMA ConnectSafe ==
  ASSUME IInv, NEW l \in Link, Connect(l)
  PROVE  IInv' /\ RowsAdvance
<1>1. session' \in [Link -> SUBSET SessionsUpTo(Bound)]
  BY LinkEnds, SnapshotType DEF Connect, IInv, Fits
<1>2. Counters'
  BY DEF Connect, IInv, Counters
<1>3. Lifetimes'
  BY DEF Connect, IInv, Fits, Counters, Lifetimes
<1> QED
  BY <1>1, <1>2, <1>3, SameBound, SameRows DEF Connect, IInv, Fits

\* Starting a periodic session keeps the invariant.
LEMMA PeriodicReconcileSafe ==
  ASSUME IInv, NEW l \in Link, PeriodicReconcile(l)
  PROVE  IInv' /\ RowsAdvance
<1>1. session' \in [Link -> SUBSET SessionsUpTo(Bound)]
  BY LinkEnds, SnapshotType DEF PeriodicReconcile, IInv, Fits
<1>2. Counters'
  BY DEF PeriodicReconcile, IInv, Counters
<1>3. Lifetimes'
  BY DEF PeriodicReconcile, IInv, Fits, Counters, Lifetimes
<1> QED
  BY <1>1, <1>2, <1>3, SameBound, SameRows DEF PeriodicReconcile, IInv, Fits

\* The leaf being handled is bounded when its contest is.
LEMMA LeafType ==
  ASSUME NEW B, NEW c \in ContestsUpTo(B), NEW st \in {"fetch", "resolve"}
  PROVE  [st |-> st, contest |-> c] \in LeavesUpTo(B)
BY DEF LeavesUpTo, Leaf, ContestsUpTo

\* Deciding on a leaf keeps the invariant, whatever the decision.
LEMMA HandleLeafSafe ==
  ASSUME IInv, NEW l \in Link, NEW p \in Path, HandleLeaf(l, p)
  PROVE  IInv' /\ RowsAdvance
<1> DEFINE n == l[1]
<1>1. PICK s \in session[l] :
        LET d == Decide(files[n][p], s.rows[p].vv)
            k == Contend(p, s.rows[p], s.seen[p])
        IN  /\ \/ leaf' = [leaf EXCEPT ![l] =
                            {[st |-> "fetch", contest |-> k]}]
               \/ /\ d = "Concurrent"
                  /\ \E plan \in Derivable(n, k) :
                       leaf' = [leaf EXCEPT ![l] =
                         {[st |-> "resolve", contest |-> Restage(k, plan)]}]
               \/ UNCHANGED leaf
            /\ session' = [session EXCEPT ![l] = {[s EXCEPT !.rows[p] = NoRow]}]
            /\ UNCHANGED <<files, oplog, latest, cursor, conn, job, seen, drops,
                           skips>>
  BY DEF HandleLeaf
<1> DEFINE k == Contend(p, s.rows[p], s.seen[p])
<1>2. n \in Node /\ s \in SessionsUpTo(Bound) /\ Bound \in VV
  BY LinkEnds, BoundIsVV DEF IInv, Fits, Counters, CopyBound
<1>3. s.rows[p] \in VersionsUpTo(Bound) /\ s.seen[p] \in SUBSET OpId
  BY <1>2 DEF SessionsUpTo, Session
<1>4. /\ k \in ContestsUpTo(Bound) /\ k.calls = 0 /\ k.at = p
      /\ k.remote = s.rows[p]
  BY <1>3, ContendType DEF Contend
<1> HIDE DEF k
<1>5. [s EXCEPT !.rows[p] = NoRow] \in SessionsUpTo(Bound)
  <2>1. NoRow \in VersionsUpTo(Bound) /\ NoRow \in Version
    BY <1>2, ZeroIsLeast DEF VersionsUpTo
  <2> QED
    BY <1>2, <2>1 DEF SessionsUpTo, Session
<1>6. session' \in [Link -> SUBSET SessionsUpTo(Bound)] /\ session'[l] # {}
  BY <1>1, <1>5 DEF IInv, Fits
<1>7. leaf' \in [Link -> SUBSET LeavesUpTo(Bound)]
      /\ \A j \in Link : j # l => leaf'[j] = leaf[j]
  <2>1. CASE leaf' = [leaf EXCEPT ![l] = {[st |-> "fetch", contest |-> k]}]
    BY <1>4, <2>1, LeafType DEF IInv, Fits
  <2>2. ASSUME Decide(files[n][p], s.rows[p].vv) = "Concurrent",
               NEW plan \in Derivable(n, k),
               leaf' = [leaf EXCEPT ![l] =
                         {[st |-> "resolve", contest |-> Restage(k, plan)]}]
        PROVE  leaf' \in [Link -> SUBSET LeavesUpTo(Bound)]
               /\ \A j \in Link : j # l => leaf'[j] = leaf[j]
    <3>1. Contested(n, k)
      BY <1>4, <2>2 DEF Contested
    <3>2. plan \in SUBSET PlannedRow
      BY <1>2, <1>4, <2>2, <3>1, DerivableAdvances
    <3>3. Restage(k, plan) \in ContestsUpTo(Bound)
      BY <1>4, <3>2, RestageType, ReplicationAssumption
    <3>4. [st |-> "resolve", contest |-> Restage(k, plan)] \in LeavesUpTo(Bound)
      BY <3>3, LeafType
    <3> QED
      BY <2>2, <3>4 DEF IInv, Fits
  <2>3. CASE UNCHANGED leaf
    BY <2>3 DEF IInv, Fits
  <2> QED
    BY <1>1, <2>1, <2>2, <2>3 DEF k
<1>8. Counters'
  BY <1>1 DEF IInv, Counters
<1>9. Lifetimes'
  <2>1. \A j \in Link : j # l => session'[j] = session[j]
    BY <1>1 DEF IInv, Fits
  <2>2. session[l] # {} /\ conn' = conn /\ job' = job
    BY <1>1
  <2> QED
    BY <1>6, <1>7, <2>1, <2>2 DEF IInv, Lifetimes
<1> QED
  BY <1>1, <1>6, <1>7, <1>8, <1>9, SameBound, SameRows DEF IInv, Fits

\* Committing a leaf, stale or not, keeps the invariant.
LEMMA UpsertSafe ==
  ASSUME IInv, NEW l \in Link, Upsert(l)
  PROVE  IInv' /\ RowsAdvance
<1> DEFINE n == l[1]
<1>1. PICK k \in leaf[l] :
        LET c == k.contest
            d == Decide(files[n][c.at], c.remote.vv)
        IN  /\ files' = [files EXCEPT ![n][c.at] =
                 IF d = "Apply" THEN Adopt(@, c.remote) ELSE @]
            /\ seen' = [seen EXCEPT ![n][c.at] =
                 IF d = "Apply" THEN @ \cup c.past ELSE @]
            /\ leaf' = [leaf EXCEPT ![l] =
                 IF d = "Concurrent" THEN {[k EXCEPT !.st = "resolve"]} ELSE {}]
            /\ UNCHANGED <<oplog, latest, cursor, conn, job, session, drops,
                           skips>>
  BY DEF Upsert
<1> DEFINE c == k.contest
           d == Decide(files[n][c.at], c.remote.vv)
<1>2. /\ n \in Node /\ Bound \in VV
      /\ k \in LeavesUpTo(Bound) /\ c \in ContestsUpTo(Bound)
  BY LinkEnds, BoundIsVV DEF IInv, Fits, Counters, CopyBound, LeavesUpTo
<1>3. /\ c.at \in Path /\ c.past \in SUBSET OpId
      /\ c.remote \in VersionsUpTo(Bound)
  BY <1>2 DEF ContestsUpTo, Contest
<1>4. /\ files \in [Node -> [Path -> VersionsUpTo(Bound)]]
      /\ seen \in [Node -> [Path -> SUBSET OpId]]
  BY DEF IInv, Fits, Counters
<1>5. [k EXCEPT !.st = "resolve"] \in LeavesUpTo(Bound)
  BY <1>2 DEF LeavesUpTo, Leaf
<1>6. d = "Apply" => /\ Adopt(files[n][c.at], c.remote) \in VersionsUpTo(Bound)
                     /\ Less(files[n][c.at].vv,
                             Adopt(files[n][c.at], c.remote).vv)
  BY <1>2, <1>3, <1>4, AdoptAdvances
<1>7. /\ files' = [files EXCEPT ![n][c.at] =
            IF d = "Apply" THEN Adopt(@, c.remote) ELSE @]
      /\ seen' = [seen EXCEPT ![n][c.at] =
            IF d = "Apply" THEN @ \cup c.past ELSE @]
      /\ leaf' = [leaf EXCEPT ![l] =
            IF d = "Concurrent" THEN {[k EXCEPT !.st = "resolve"]} ELSE {}]
      /\ UNCHANGED <<oplog, latest, cursor, conn, job, session, drops, skips>>
  BY <1>1
<1> HIDE DEF n, c, d
<1>8. /\ files' \in [Node -> [Path -> VersionsUpTo(Bound)]]
      /\ seen' \in [Node -> [Path -> SUBSET OpId]]
  BY <1>2, <1>3, <1>4, <1>6, <1>7
<1>9. RowsAdvance
  BY <1>2, <1>3, <1>4, <1>6, <1>7 DEF RowsAdvance
<1>10. leaf' \in [Link -> SUBSET LeavesUpTo(Bound)]
  BY <1>5, <1>7 DEF IInv, Fits
<1>11. Counters' /\ Lifetimes'
  BY <1>7, <1>8 DEF IInv, Counters, Lifetimes, Fits
<1> QED
  BY <1>7, <1>8, <1>9, <1>10, <1>11, SameBound DEF IInv, Fits

\* A step of a leaf task that leaves the index alone.
LEMMA LeafTaskSafe ==
  ASSUME IInv, NEW l \in Link, leaf[l] # {},
         NEW X \in SUBSET LeavesUpTo(Bound), leaf' = [leaf EXCEPT ![l] = X],
         skips' \in 0 .. MaxSkips,
         UNCHANGED <<files, oplog, latest, cursor, conn, job, session, seen,
                     drops>>
  PROVE  IInv' /\ RowsAdvance
<1>1. leaf' \in [Link -> SUBSET LeavesUpTo(Bound)]
  BY DEF IInv, Fits
<1>2. Counters' /\ Lifetimes'
  BY DEF IInv, Counters, Lifetimes, Fits
<1> QED
  BY <1>1, <1>2, SameBound, SameRows DEF IInv, Fits

\* Each call of resolve_rows for a leaf keeps the invariant.
LEMMA ResolveLeafSafe ==
  ASSUME IInv, NEW l \in Link, ResolveLeaf(l)
  PROVE  IInv' /\ RowsAdvance
<1>1. PICK k \in leaf[l] :
        /\ \/ /\ Commit(l[1], k.contest)
              /\ leaf' = [leaf EXCEPT ![l] = {}]
           \/ \E plan \in Derivable(l[1], k.contest) :
                /\ Stale(l[1], k.contest, plan)
                /\ leaf' = [leaf EXCEPT ![l] =
                     {[k EXCEPT !.contest = Restage(@, plan)]}]
                /\ UNCHANGED <<files, seen>>
           \/ /\ leaf' = [leaf EXCEPT ![l] = {}]
              /\ UNCHANGED <<files, seen>>
        /\ UNCHANGED <<oplog, latest, cursor, conn, job, session, drops, skips>>
  BY DEF ResolveLeaf
<1> DEFINE n == l[1]
           c == k.contest
<1>2. n \in Node /\ k \in LeavesUpTo(Bound) /\ c \in ContestsUpTo(Bound)
  BY LinkEnds DEF IInv, Fits, LeavesUpTo
<1>3. skips' \in 0 .. MaxSkips
  BY <1>1 DEF IInv, Counters
<1> HIDE DEF n, c
<1>4. CASE Commit(n, c) /\ leaf' = [leaf EXCEPT ![l] = {}]
  <2>1. /\ files' \in [Node -> [Path -> VersionsUpTo(Bound)]]
        /\ seen' \in [Node -> [Path -> SUBSET OpId]]
        /\ RowsAdvance
    BY <1>2, <1>4, CommitSafe
  <2>2. leaf' \in [Link -> SUBSET LeavesUpTo(Bound)]
    BY <1>4 DEF IInv, Fits
  <2>3. Counters' /\ Lifetimes'
    BY <1>1, <1>4, <2>1 DEF IInv, Counters, Lifetimes, Fits
  <2> QED
    BY <1>1, <2>1, <2>2, <2>3, SameBound DEF IInv, Fits
<1>5. ASSUME NEW plan \in Derivable(n, c), Stale(n, c, plan),
             leaf' = [leaf EXCEPT ![l] =
                       {[k EXCEPT !.contest = Restage(c, plan)]}],
             UNCHANGED <<files, seen>>
      PROVE  IInv' /\ RowsAdvance
  <2>1. Contested(n, c) /\ c.calls < MaxCalls
    BY <1>2, <1>5, ReplicationAssumption DEF Stale, ContestsUpTo, Contest
  <2>2. plan \in SUBSET PlannedRow
    BY <1>2, <1>5, <2>1, DerivableAdvances
  <2>3. Restage(c, plan) \in ContestsUpTo(Bound)
    BY <1>2, <2>1, <2>2, RestageType
  <2> DEFINE X == {[k EXCEPT !.contest = Restage(c, plan)]}
  <2>4. X \in SUBSET LeavesUpTo(Bound) /\ leaf' = [leaf EXCEPT ![l] = X]
    BY <1>2, <1>5, <2>3 DEF LeavesUpTo, Leaf, ContestsUpTo
  <2> HIDE DEF X
  <2> QED
    BY <1>1, <1>3, <1>5, <2>4, LeafTaskSafe
<1>6. CASE leaf' = [leaf EXCEPT ![l] = {}] /\ UNCHANGED <<files, seen>>
  <2> DEFINE X == {}
  <2>1. X \in SUBSET LeavesUpTo(Bound) /\ leaf' = [leaf EXCEPT ![l] = X]
    BY <1>6
  <2> HIDE DEF X
  <2> QED
    BY <1>1, <1>3, <1>6, <2>1, LeafTaskSafe
<1> QED
  BY <1>1, <1>4, <1>5, <1>6 DEF n, c

\* Skipping a leaf keeps the invariant.
LEMMA SkipLeafSafe ==
  ASSUME IInv, NEW l \in Link, SkipLeaf(l)
  PROVE  IInv' /\ RowsAdvance
<1>1. /\ leaf[l] # {} /\ leaf' = [leaf EXCEPT ![l] = {}]
      /\ skips < MaxSkips /\ skips' = skips + 1
      /\ UNCHANGED <<files, oplog, latest, cursor, conn, job, session, seen,
                     drops>>
  BY DEF SkipLeaf, PermanentFailure
<1> QED
  BY <1>1, SkipCounted, LeafTaskSafe

\* Ending a session, and moving the cursor to its frontier, keeps the invariant.
LEMMA SessionDoneSafe ==
  ASSUME IInv, NEW l \in Link, SessionDone(l)
  PROVE  IInv' /\ RowsAdvance
<1>1. PICK s \in session[l] :
        /\ leaf[l] = {}
        /\ session' = [session EXCEPT ![l] = {}]
        /\ conn' = [conn EXCEPT ![l] = "live"]
        /\ cursor' = [cursor EXCEPT ![l[1]][l[2]] =
             IF conn[l] = "gate" THEN Larger(@, s.frontier) ELSE @]
        /\ UNCHANGED <<files, oplog, latest, job, leaf, seen, drops, skips>>
  BY DEF SessionDone
<1>2. s.frontier \in Nat /\ l[1] \in Node /\ l[2] \in Node
  BY LinkEnds DEF IInv, Fits, SessionsUpTo, Session
<1>3. cursor' \in [Node -> [Node -> Nat]]
  BY <1>1, <1>2 DEF IInv, Counters, Larger
<1>4. Counters' /\ Lifetimes'
  BY <1>1, <1>3 DEF IInv, Counters, Lifetimes, Fits
<1>5. session' \in [Link -> SUBSET SessionsUpTo(Bound)]
  BY <1>1 DEF IInv, Fits
<1> QED
  BY <1>1, <1>4, <1>5, SameBound, SameRows DEF IInv, Fits

\* Losing connections and crashing: only tasks disappear.
LEMMA CutSafe ==
  ASSUME IInv, NEW L, Cut(L)
  PROVE  IInv' /\ RowsAdvance
<1>1. Counters'
  BY ReplicationAssumption DEF IInv, Counters, Cut
<1>2. Lifetimes'
  BY DEF IInv, Lifetimes, Cut
<1>3. /\ job' \in [Link -> SUBSET JobsUpTo(Bound)]
      /\ session' \in [Link -> SUBSET SessionsUpTo(Bound)]
      /\ leaf' \in [Link -> SUBSET LeavesUpTo(Bound)]
  BY DEF IInv, Fits, Cut
<1>4. UNCHANGED <<files, oplog, latest>>
  BY DEF Cut
<1> QED
  BY <1>1, <1>2, <1>3, <1>4, SameBound, SameRows DEF IInv, Fits

\* Losing a periodic session keeps the invariant.
LEMMA AbortSessionSafe ==
  ASSUME IInv, NEW l \in Link, AbortSession(l)
  PROVE  IInv' /\ RowsAdvance
<1>1. Counters' /\ Lifetimes'
  <2>1. Counters'
    BY ReplicationAssumption DEF IInv, Counters, AbortSession
  <2>2. Lifetimes'
    BY DEF IInv, Fits, Counters, Lifetimes, AbortSession
  <2> QED
    BY <2>1, <2>2
<1>2. /\ session' \in [Link -> SUBSET SessionsUpTo(Bound)]
      /\ leaf' \in [Link -> SUBSET LeavesUpTo(Bound)]
      /\ UNCHANGED <<files, oplog, latest, job>>
  BY DEF IInv, Fits, AbortSession
<1> QED
  BY <1>1, <1>2, SameBound, SameRows DEF IInv, Fits

-----------------------------------------------------------------------------
(* Theorems *)

\* Every step keeps the invariant and takes no row back.
LEMMA NextSafe ==
  ASSUME IInv, Next
  PROVE  IInv' /\ RowsAdvance
<1>1. ASSUME NEW n \in Node, Local(n)
      PROVE  IInv' /\ RowsAdvance
  BY <1>1, AppendLocalSafe, AppendLocalRenameSafe DEF Local
<1>2. ASSUME NEW n \in Node, Crash(n)
      PROVE  IInv' /\ RowsAdvance
  BY <1>2, CutSafe DEF Crash
<1>3. ASSUME NEW l \in Link, OpStep(l)
      PROVE  IInv' /\ RowsAdvance
  BY <1>3, ReceiveSafe, FetchedSafe, RecordedSafe, ResolveOpSafe,
     CheckSourceSafe DEF OpStep
<1>4. ASSUME NEW l \in Link, SyncStep(l)
      PROVE  IInv' /\ RowsAdvance
  BY <1>4, ConnectSafe, PeriodicReconcileSafe, HandleLeafSafe, UpsertSafe,
     ResolveLeafSafe, SessionDoneSafe DEF SyncStep
<1>5. ASSUME NEW l \in Link, Failure(l)
      PROVE  IInv' /\ RowsAdvance
  BY <1>5, QuarantineSafe, AbandonOpSafe, SkipLeafSafe, CutSafe,
     AbortSessionSafe DEF Failure, Disconnect
<1> QED
  BY <1>1, <1>2, <1>3, <1>4, <1>5 DEF Next

\* So does a step that changes nothing.
LEMMA StutterSafe ==
  ASSUME IInv, UNCHANGED vars
  PROVE  IInv' /\ RowsAdvance
BY DEF IInv, Fits, Bound, Counters, Lifetimes, RowsAdvance, vars

\* The invariant is inductive.
THEOREM Invariance == Spec => []IInv
<1>1. Init => IInv
  BY InitSafe
<1>2. IInv /\ [Next]_vars => IInv'
  BY NextSafe, StutterSafe
<1> QED
  BY <1>1, <1>2, PTL DEF Spec

-----------------------------------------------------------------------------
(* What nodes go on without *)

LapsedOK == lapsed \in [Node -> [Path -> SUBSET VV]]

\* What a node has gone on without is never forgotten.
LapsedGrow == \A n \in Node, p \in Path : lapsed[n][p] \subseteq lapsed'[n][p]

\* A version that is let go is accounted for from then on: the row covers it
\* or it is on the node's list.
LEMMA LapseCounts ==
  ASSUME LapsedOK, NEW n \in Node, NEW P, NEW vv \in VV, Lapse(n, P, vv)
  PROVE  /\ LapsedOK' /\ LapsedGrow
         /\ \A p \in Path : p \in P => Accounted(n, p, vv)'
<1>1. lapsed' = [lapsed EXCEPT ![n] = [p \in Path |->
        IF p \in P /\ ~ Leq(vv, files'[n][p].vv) THEN @[p] \cup {vv}
        ELSE @[p]]]
  BY DEF Lapse
<1>2. /\ \A m \in Node : m # n => lapsed'[m] = lapsed[m]
      /\ \A p \in Path : lapsed'[n][p] =
           IF p \in P /\ ~ Leq(vv, files'[n][p].vv)
           THEN lapsed[n][p] \cup {vv} ELSE lapsed[n][p]
  BY <1>1 DEF LapsedOK
<1>3. LapsedOK' /\ LapsedGrow
  <2>1. LapsedOK'
    BY <1>1 DEF LapsedOK
  <2>2. LapsedGrow
    BY <1>2 DEF LapsedGrow
  <2> QED
    BY <2>1, <2>2
<1>4. ASSUME NEW p \in Path, p \in P
      PROVE  Accounted(n, p, vv)'
  <2>1. CASE Leq(vv, files'[n][p].vv)
    BY <2>1 DEF Accounted
  <2>2. CASE ~ Leq(vv, files'[n][p].vv)
    <3>1. vv \in lapsed'[n][p] /\ Leq(vv, vv)
      BY <1>2, <1>4, <2>2, LeqReflexive
    <3> QED
      BY <3>1 DEF Accounted
  <2> QED
    BY <2>1, <2>2
<1> QED
  BY <1>3, <1>4

\* The version a task has in hand is a vector.
LEMMA HeldVectors ==
  ASSUME IInv, NEW l \in Link
  PROVE  /\ \A k \in job[l] : k.op.vv \in VV /\ k.contest.remote.vv \in VV
         /\ \A k \in leaf[l] : k.contest.remote.vv \in VV
         /\ \A s \in session[l], p \in Path : s.rows[p].vv \in VV
         /\ \A o \in Delivered(l) : o.vv \in VV
<1>1. \A k \in job[l] : k.op.vv \in VV /\ k.contest.remote.vv \in VV
  BY DEF IInv, Fits, JobsUpTo, OpsUpTo, Op, ContestsUpTo, VersionsUpTo, Version
<1>2. \A k \in leaf[l] : k.contest.remote.vv \in VV
  BY DEF IInv, Fits, LeavesUpTo, ContestsUpTo, VersionsUpTo, Version
<1>3. \A s \in session[l], p \in Path : s.rows[p].vv \in VV
  BY DEF IInv, Fits, SessionsUpTo, VersionsUpTo, Version
<1>4. \A o \in Delivered(l) : o.vv \in VV
  BY LinkEnds DEF Delivered, IInv, Fits, OpsUpTo, Op
<1> QED
  BY <1>1, <1>2, <1>3, <1>4

\* A resolution that is given up puts at most its own version on the list.
LEMMA ForgoLapses ==
  ASSUME IInv, NEW n, NEW l \in Link, NEW k \in job[l] \cup leaf[l],
         Forgo(n, k.contest)
  PROVE  \E P \in SUBSET Path : Lapse(n, P, k.contest.remote.vv)
<1>1. k.contest.at \in Path
  BY DEF IInv, Fits, JobsUpTo, LeavesUpTo, ContestsUpTo, Contest
<1>2. (IF Contested(n, k.contest) THEN {k.contest.at} ELSE {}) \in SUBSET Path
  BY <1>1
<1> QED
  BY <1>2 DEF Forgo

\* A lost connection keeps the lists, and adds what its tasks still owed.
LEMMA CutLapsed ==
  ASSUME IInv, LapsedOK, NEW L, L \subseteq Link, Cut(L)
  PROVE  /\ LapsedOK' /\ LapsedGrow
         /\ \A n \in Node, p \in Path :
              lapsed'[n][p] = lapsed[n][p] \cup Unfinished(L, n, p)
<1>1. \A n \in Node, p \in Path : Unfinished(L, n, p) \subseteq VV
  BY HeldVectors DEF Unfinished
<1>2. lapsed' = [n \in Node |-> [p \in Path |->
                   lapsed[n][p] \cup Unfinished(L, n, p)]]
  BY DEF Cut
<1>3. \A n \in Node, p \in Path :
        lapsed'[n][p] = lapsed[n][p] \cup Unfinished(L, n, p)
  BY <1>2, Zenon
<1>4. LapsedOK'
  <2>1. \A n \in Node, p \in Path :
          lapsed[n][p] \cup Unfinished(L, n, p) \in SUBSET VV
    BY <1>1 DEF LapsedOK
  <2> QED
    BY <1>2, <2>1 DEF LapsedOK
<1>5. LapsedGrow
  BY <1>3 DEF LapsedGrow
<1> QED
  BY <1>3, <1>4, <1>5

\* Every step keeps what the nodes have gone on without, and only adds to it.
LEMMA NextLapsed ==
  ASSUME IInv, LapsedOK, Next
  PROVE  LapsedOK' /\ LapsedGrow
<1>1. ASSUME UNCHANGED lapsed PROVE LapsedOK' /\ LapsedGrow
  BY <1>1 DEF LapsedOK, LapsedGrow
<1>2. ASSUME NEW n \in Node, NEW P, NEW vv \in VV, Lapse(n, P, vv)
      PROVE  LapsedOK' /\ LapsedGrow
  BY <1>2, LapseCounts
<1>3. ASSUME NEW n \in Node, Local(n) PROVE LapsedOK' /\ LapsedGrow
  <2>1. ASSUME NEW p, NEW v, AppendLocal(n, p, v) PROVE UNCHANGED lapsed
    BY <2>1 DEF AppendLocal
  <2>2. ASSUME NEW p, NEW q, AppendLocalRename(n, p, q) PROVE UNCHANGED lapsed
    BY <2>2 DEF AppendLocalRename
  <2> QED
    BY <1>1, <1>3, <2>1, <2>2 DEF Local
<1>4. ASSUME NEW n \in Node, Crash(n) PROVE LapsedOK' /\ LapsedGrow
  BY <1>4, CutLapsed DEF Crash
<1>5. ASSUME NEW l \in Link, OpStep(l) PROVE LapsedOK' /\ LapsedGrow
  <2>1. l[1] \in Node
    BY LinkEnds
  <2>2. CASE Receive(l)
    <3>1. PICK o \in Delivered(l) :
            \/ UNCHANGED lapsed \/ Lapse(l[1], {o.path}, o.vv)
      BY <2>2, Zenon DEF Receive
    <3> QED
      BY <1>1, <1>2, <2>1, <3>1, HeldVectors
  <2>3. CASE Record(l)
    <3>1. PICK k \in job[l] :
            Lapse(l[1], IF k.st = "record" THEN {} ELSE {k.op.path, k.op.old},
                  k.op.vv)
      BY <2>3, Zenon DEF Record
    <3> QED
      BY <1>2, <2>1, <3>1, HeldVectors
  <2>4. CASE ResolveOp(l)
    <3>1. PICK k \in job[l] :
            \/ UNCHANGED lapsed
            \/ \E P \in SUBSET Path : Lapse(l[1], P, k.contest.remote.vv)
      BY <2>4, ForgoLapses DEF ResolveOp
    <3> QED
      BY <1>1, <1>2, <2>1, <3>1, HeldVectors
  <2>5. CASE Fetched(l) \/ CheckSource(l)
    BY <1>1, <2>5 DEF Fetched, CheckSource
  <2> QED
    BY <1>5, <2>2, <2>3, <2>4, <2>5 DEF OpStep
<1>6. ASSUME NEW l \in Link, SyncStep(l) PROVE LapsedOK' /\ LapsedGrow
  <2>1. l[1] \in Node
    BY LinkEnds
  <2>2. ASSUME NEW p \in Path, HandleLeaf(l, p)
        PROVE  LapsedOK' /\ LapsedGrow
    <3>1. PICK s \in session[l] :
            \/ UNCHANGED lapsed \/ Lapse(l[1], {p}, s.rows[p].vv)
      BY <2>2, Zenon DEF HandleLeaf
    <3> QED
      BY <1>1, <1>2, <2>1, <2>2, <3>1, HeldVectors
  <2>3. CASE ResolveLeaf(l)
    <3>1. PICK k \in leaf[l] :
            \/ UNCHANGED lapsed
            \/ \E P \in SUBSET Path : Lapse(l[1], P, k.contest.remote.vv)
      BY <2>3, ForgoLapses DEF ResolveLeaf
    <3> QED
      BY <1>1, <1>2, <2>1, <3>1, HeldVectors
  <2>4. CASE Connect(l) \/ PeriodicReconcile(l) \/ Upsert(l) \/ SessionDone(l)
    BY <1>1, <2>4 DEF Connect, PeriodicReconcile, Upsert, SessionDone
  <2> QED
    BY <1>6, <2>2, <2>3, <2>4 DEF SyncStep
<1>7. ASSUME NEW l \in Link, Failure(l) PROVE LapsedOK' /\ LapsedGrow
  <2>1. l[1] \in Node
    BY LinkEnds
  <2>2. CASE AbandonOp(l)
    <3>1. PICK k \in job[l] :
            Lapse(l[1], {k.contest.at}, k.contest.remote.vv)
      BY <2>2, Zenon DEF AbandonOp
    <3> QED
      BY <1>2, <2>1, <3>1, HeldVectors
  <2>3. CASE SkipLeaf(l)
    <3>1. PICK k \in leaf[l] :
            Lapse(l[1], {k.contest.at}, k.contest.remote.vv)
      BY <2>3, Zenon DEF SkipLeaf
    <3> QED
      BY <1>2, <2>1, <3>1, HeldVectors
  <2>4. CASE Quarantine(l) \/ AbortSession(l)
    BY <1>1, <2>4 DEF Quarantine, AbortSession
  <2>5. CASE Disconnect(l)
    BY <2>5, CutLapsed DEF Disconnect
  <2> QED
    BY <1>7, <2>2, <2>3, <2>4, <2>5 DEF Failure
<1> QED
  BY <1>3, <1>4, <1>5, <1>6, <1>7 DEF Next

\* The lists of what nodes have gone on without are well formed.
LEMMA LapsedTyped == Spec => []LapsedOK
<1>1. Init => LapsedOK
  BY DEF Init, LapsedOK
<1>2. IInv /\ LapsedOK /\ [Next]_vars => LapsedOK'
  <2>1. ASSUME LapsedOK, UNCHANGED vars PROVE LapsedOK'
    BY <2>1 DEF LapsedOK, vars
  <2> QED
    BY <2>1, NextLapsed
<1> QED
  BY <1>1, <1>2, Invariance, PTL DEF Spec

\* The store, the op tasks and the reconcile sessions always hold well-formed
\* state, and nothing of a subscription outlives it.
THEOREM TypeCorrect == Spec => []TypeOK
<1>1. IInv /\ LapsedOK => TypeOK
  <2> SUFFICES ASSUME IInv, LapsedOK PROVE TypeOK
    OBVIOUS
  <2>1. /\ files \in [Node -> [Path -> Version]]
        /\ oplog \in [Node -> SUBSET Op]
    BY DEF IInv, Fits, VersionsUpTo, OpsUpTo
  <2>2. /\ job \in [Link -> SUBSET Job]
        /\ session \in [Link -> SUBSET Session]
        /\ leaf \in [Link -> SUBSET Leaf]
    BY DEF IInv, Fits, JobsUpTo, SessionsUpTo, LeavesUpTo
  <2> QED
    BY <2>1, <2>2 DEF IInv, Counters, Lifetimes, TypeOK, LapsedOK
<1> QED
  BY <1>1, Invariance, LapsedTyped, PTL

\* No row ever claims more ops of a node than that node has originated, nor
\* more than one of a conflict copy, whatever was merged, replayed, resolved
\* or lost on the way (append_local, the merges of apply_remote,
\* reconcile_upsert and resolve_rows, copy_vv).
THEOREM HistoryIsBacked == Spec => []ComponentsBacked
<1>1. IInv => ComponentsBacked
  <2> SUFFICES ASSUME IInv, NEW n \in Node, NEW p \in Path
               PROVE  /\ \A m \in Node : files[n][p].vv[m] <= latest[m]
                      /\ \A q \in Path : files[n][p].vv[q] <= 1
    BY DEF ComponentsBacked
  <2>1. \A i \in Id : files[n][p].vv[i] <= Bound[i]
    BY DEF IInv, Fits, VersionsUpTo, Leq
  <2> QED
    BY <2>1, ReplicationAssumption DEF Bound
<1> QED
  BY <1>1, Invariance, PTL

\* Rows never regress: every change of a row, by a user, by a pushed op, by a
\* reconcile session or by a conflict plan, takes it to a strictly later
\* vector, although decisions, fetches and plans are made long before they
\* are committed (the premise of the healing argument for reconcile).
THEOREM NeverRegress == Spec => RowsNeverRegress
<1>1. IInv /\ [Next]_vars => [RowsAdvance]_vars
  BY NextSafe, StutterSafe
<1> QED
  BY <1>1, Invariance, PTL DEF Spec, RowsNeverRegress

-----------------------------------------------------------------------------
(* Recorded once *)

(***************************************************************************)
(* RecordedOnce is not inductive either: that a task's op is unrecorded    *)
(* follows from where the op stands relative to the cursor.                *)
(***************************************************************************)
Early == {"fetch", "resolve", "record", "quarantine"}

\* A peer's op is recorded only behind the cursor.
Behind ==
  \A n \in Node : \A o \in oplog[n] :
    o.origin # n => o.seq <= cursor[n][o.origin]

\* A task works on its peer's op, which is the next one until it is recorded.
InOrder ==
  \A l \in Link : \A k \in job[l] :
    /\ k.op.origin = l[2]
    /\ k.st \in Early => k.op.seq = cursor[l[1]][l[2]] + 1

OInv == Behind /\ InOrder

\* The strengthened invariant implies RecordedOnce.
LEMMA OrderedIsOnce ==
  ASSUME IInv, OInv
  PROVE  RecordedOnce
<1>1. ASSUME NEW l \in Link, NEW k \in job[l], k.st \in Early
      PROVE  k.op \notin oplog[l[1]]
  <2>1. l[1] \in Node /\ l[2] \in Node /\ l[1] # l[2]
    BY LinkEnds, ReplicationAssumption
  <2>2. k.op.origin = l[2] /\ k.op.seq = cursor[l[1]][l[2]] + 1
    BY <1>1 DEF OInv, InOrder
  <2>3. cursor[l[1]][l[2]] \in Nat
    BY <2>1 DEF IInv, Counters
  <2> SUFFICES ASSUME k.op \in oplog[l[1]] PROVE FALSE
    OBVIOUS
  <2>4. k.op.seq <= cursor[l[1]][l[2]]
    BY <2>1, <2>2 DEF OInv, Behind
  <2> QED
    BY <2>2, <2>3, <2>4
<1> QED
  BY <1>1 DEF OInv, Behind, RecordedOnce, Early

\* A link is given by its two ends.
LEMMA SameLink ==
  ASSUME NEW l \in Link, NEW j \in Link, l[1] = j[1], l[2] = j[2]
  PROVE  l = j
BY ReplicationAssumption

\* A step that records nothing: the tasks of one link change, the ops they
\* work on stay, and no recorded task goes back.
LEMMA TaskOrdered ==
  ASSUME OInv, NEW l \in Link, UNCHANGED <<oplog, cursor>>,
         \A j \in Link : j # l => job'[j] \subseteq job[j],
         \A x \in job'[l] :
           /\ x.op.origin = l[2]
           /\ x.st \in Early => x.op.seq = cursor[l[1]][l[2]] + 1
  PROVE  OInv'
<1>1. Behind'
  BY DEF OInv, Behind
<1>2. InOrder'
  BY DEF OInv, InOrder
<1> QED
  BY <1>1, <1>2 DEF OInv

\* A step that leaves stream, cursor and tasks alone, or ends tasks.
LEMMA IdleOrdered ==
  ASSUME OInv, UNCHANGED <<oplog, cursor>>,
         \A j \in Link : job'[j] \subseteq job[j]
  PROVE  OInv'
<1>1. Behind'
  BY DEF OInv, Behind
<1>2. InOrder'
  BY DEF OInv, InOrder
<1> QED
  BY <1>1, <1>2 DEF OInv

\* Recording the next op of a link: only that link's cursor moves, and its
\* task is past recording.
LEMMA RecordOrdered ==
  ASSUME IInv, OInv, NEW l \in Link, NEW o \in OpsUpTo(Bound),
         o.origin = l[2],
         NEW targets, ApplyRemote(l, o, targets),
         \A j \in Link : j # l => job'[j] = job[j],
         \A x \in job'[l] : x.op = o /\ x.st \notin Early
  PROVE  OInv'
<1> DEFINE n == l[1]
<1>1. /\ n \in Node /\ l[2] \in Node
      /\ cursor \in [Node -> [Node -> Nat]]
      /\ oplog \in [Node -> SUBSET OpsUpTo(Bound)]
  BY LinkEnds DEF IInv, Fits, Counters
<1>2. /\ oplog' = [oplog EXCEPT ![n] = @ \cup {o}]
      /\ cursor' = [cursor EXCEPT ![n][l[2]] = Larger(@, o.seq)]
  BY DEF ApplyRemote
<1>3. /\ o.seq \in Nat /\ cursor[n][l[2]] \in Nat
      /\ cursor'[n][l[2]] = Larger(cursor[n][l[2]], o.seq)
  BY <1>1, <1>2 DEF OpsUpTo, Op
<1>4. o.seq <= cursor'[n][l[2]] /\ cursor[n][l[2]] <= cursor'[n][l[2]]
  BY <1>3 DEF Larger
<1>5. \A m, i \in Node : (m # n \/ i # l[2]) => cursor'[m][i] = cursor[m][i]
  BY <1>1, <1>2
<1>6. Behind'
  <2> SUFFICES ASSUME NEW m \in Node, NEW r \in oplog'[m], r.origin # m
               PROVE  r.seq <= cursor'[m][r.origin]
    BY DEF Behind
  <2>1. (r = o /\ m = n) \/ r \in oplog[m]
    BY <1>1, <1>2
  <2>2. CASE r = o /\ m = n
    BY <1>4, <2>2
  <2>3. CASE r \in oplog[m]
    <3>1. /\ r.seq \in Nat /\ r.origin \in Node
          /\ r.seq <= cursor[m][r.origin]
      BY <1>1, <2>3 DEF OInv, Behind, OpsUpTo, Op
    <3>2. CASE m = n /\ r.origin = l[2]
      BY <1>3, <1>4, <3>1, <3>2 DEF Larger
    <3>3. CASE m # n \/ r.origin # l[2]
      BY <1>5, <3>1, <3>3
    <3> QED
      BY <3>2, <3>3
  <2> QED
    BY <2>1, <2>2, <2>3
<1>7. InOrder'
  <2> SUFFICES ASSUME NEW j \in Link, NEW x \in job'[j]
               PROVE  /\ x.op.origin = j[2]
                      /\ x.st \in Early => x.op.seq = cursor'[j[1]][j[2]] + 1
    BY DEF InOrder
  <2>1. CASE j = l
    BY <2>1
  <2>2. CASE j # l
    <3>1. /\ x.op.origin = j[2]
          /\ x.st \in Early => x.op.seq = cursor[j[1]][j[2]] + 1
      BY <2>2 DEF OInv, InOrder
    <3>2. j[1] \in Node /\ j[2] \in Node /\ (j[1] # n \/ j[2] # l[2])
      BY <2>2, LinkEnds, SameLink
    <3> QED
      BY <1>5, <3>1, <3>2
  <2> QED
    BY <2>1, <2>2
<1> QED
  BY <1>6, <1>7 DEF OInv

\* A job past its record is never one that still has to record.
LEMMA ThenLate ==
  ASSUME NEW k \in Job, NEW x \in Then(k)
  PROVE  x.op = k.op /\ x.st = "source"
BY DEF Then, Job

\* A resolution before the record leads to the record, a later one past it.
LEMMA AfterOrder ==
  ASSUME NEW k \in Job, Resolving(k), NEW x \in After(k)
  PROVE  x.op = k.op /\ (x.st \in Early => k.st \in Early)
<1>1. CASE k.st = "resolve"
  <2>1. After(k) = {[k EXCEPT !.st = "record"]}
    BY <1>1, Zenon DEF After
  <2> QED
    BY <1>1, <2>1 DEF Job, Early
<1>2. CASE k.st = "late"
  <2>1. After(k) = Then(k)
    BY <1>2, Zenon DEF After
  <2> QED
    BY <2>1, ThenLate DEF Early
<1>3. CASE k.st = "settle"
  <2>1. After(k) = {}
    BY <1>3, Zenon DEF After
  <2> QED
    BY <2>1
<1> QED
  BY <1>1, <1>2, <1>3 DEF Resolving

\* A local op is the node's own: no cursor or stream concerns it.
LEMMA LocalOrdered ==
  ASSUME IInv, OInv, NEW n \in Node, Local(n)
  PROVE  OInv'
<1>1. /\ UNCHANGED <<cursor, job>>
      /\ \E op : op.origin = n /\ oplog' = [oplog EXCEPT ![n] = @ \cup {op}]
  <2>1. ASSUME NEW p \in UserPath, NEW v \in Value \cup {Tombstone},
               AppendLocal(n, p, v)
        PROVE  /\ UNCHANGED <<cursor, job>>
               /\ \E op : /\ op.origin = n
                          /\ oplog' = [oplog EXCEPT ![n] = @ \cup {op}]
    BY <2>1 DEF AppendLocal
  <2>2. ASSUME NEW p \in UserPath, NEW q \in UserPath,
               AppendLocalRename(n, p, q)
        PROVE  /\ UNCHANGED <<cursor, job>>
               /\ \E op : /\ op.origin = n
                          /\ oplog' = [oplog EXCEPT ![n] = @ \cup {op}]
    BY <2>2 DEF AppendLocalRename
  <2> QED
    BY <2>1, <2>2 DEF Local
<1>2. PICK op : op.origin = n /\ oplog' = [oplog EXCEPT ![n] = @ \cup {op}]
  BY <1>1
<1>3. \A m \in Node : \A r \in oplog'[m] :
        r \in oplog[m] \/ r.origin = m
  BY <1>2 DEF IInv, Fits
<1>4. Behind'
  BY <1>1, <1>3 DEF OInv, Behind
<1>5. InOrder'
  BY <1>1 DEF OInv, InOrder
<1> QED
  BY <1>4, <1>5 DEF OInv

\* The op delivered is the one after the cursor.
LEMMA ReceiveOrdered ==
  ASSUME IInv, OInv, NEW l \in Link, Receive(l)
  PROVE  OInv'
<1> DEFINE n == l[1]
<1>1. PICK o \in Delivered(l) :
        LET k == Job0(o, "resolve")
        IN  \/ /\ job' = [job EXCEPT ![l] = {Job0(o, "fetch")}]
               /\ UNCHANGED <<files, oplog, cursor, seen>>
            \/ /\ ApplyRemote(l, o, {})
               /\ job' = [job EXCEPT ![l] = Then(k)]
            \/ /\ \/ \E plan \in Derivable(n, k.contest) :
                       job' = [job EXCEPT ![l] =
                         {[k EXCEPT !.contest = Restage(@, plan)]}]
                  \/ job' = [job EXCEPT ![l] = After(k)]
               /\ UNCHANGED <<files, oplog, cursor, seen>>
  BY DEF Receive
<1> DEFINE k == Job0(o, "resolve")
<1>2. l[1] \in Node /\ l[2] \in Node /\ job \in [Link -> SUBSET JobsUpTo(Bound)]
  BY LinkEnds DEF IInv, Fits
<1>3. /\ o \in OpsUpTo(Bound) /\ o.origin = l[2]
      /\ o.seq = cursor[l[1]][l[2]] + 1
  BY <1>2 DEF Delivered, IInv, Fits
<1>4. k \in Job /\ k.op = o /\ Resolving(k) /\ Job0(o, "fetch").op = o
  BY <1>3, Job0Type DEF Job0, JobsUpTo, Resolving
<1>5. \A x \in After(k) : x.op = o
  BY <1>4, AfterOrder
<1>6. \A x \in Then(k) : x.op = o /\ x.st \notin Early
  BY <1>4, ThenLate DEF Early
<1>7. ASSUME UNCHANGED <<oplog, cursor>>,
             \A j \in Link : j # l => job'[j] = job[j],
             \A x \in job'[l] : x.op = o
      PROVE  OInv'
  BY <1>2, <1>3, <1>7, TaskOrdered
<1>8. CASE ApplyRemote(l, o, {}) /\ job' = [job EXCEPT ![l] = Then(k)]
  <2> DEFINE T == {}
  <2>1. ApplyRemote(l, o, T)
    BY <1>8
  <2> HIDE DEF T, k
  <2> QED
    BY <1>2, <1>3, <1>6, <1>8, <2>1, RecordOrdered
<1>9. ASSUME NEW plan, job' = [job EXCEPT ![l] =
                              {[k EXCEPT !.contest = Restage(@, plan)]}],
             UNCHANGED <<oplog, cursor>>
      PROVE  OInv'
  <2> HIDE DEF k
  <2>1. [k EXCEPT !.contest = Restage(@, plan)].op = o
    BY <1>4 DEF Job
  <2>2. /\ \A j \in Link : j # l => job'[j] = job[j]
        /\ \A x \in job'[l] : x.op = o
    BY <1>2, <1>9, <2>1
  <2> QED
    BY <1>7, <1>9, <2>2
<1>10. CASE /\ \/ job' = [job EXCEPT ![l] = {Job0(o, "fetch")}]
               \/ job' = [job EXCEPT ![l] = After(k)]
            /\ UNCHANGED <<oplog, cursor>>
  <2> HIDE DEF k
  <2>1. /\ \A j \in Link : j # l => job'[j] = job[j]
        /\ \A x \in job'[l] : x.op = o
    BY <1>2, <1>4, <1>5, <1>10
  <2> QED
    BY <1>7, <1>10, <2>1
<1> HIDE DEF k
<1> QED
  BY <1>1, <1>8, <1>9, <1>10 DEF k

\* Recording a job's op moves the cursor to exactly that op.
LEMMA RecordingOrdered ==
  ASSUME IInv, OInv, NEW l \in Link, Fetched(l) \/ Record(l)
  PROVE  OInv'
<1>1. PICK k \in job[l] :
        /\ \E targets : ApplyRemote(l, k.op, targets)
        /\ \E X \in {{[k EXCEPT !.st = "late"]}, Then(k), {}} :
             job' = [job EXCEPT ![l] = X]
  BY DEF Fetched, Record
<1>2. /\ job \in [Link -> SUBSET JobsUpTo(Bound)]
      /\ k \in Job /\ k.op \in OpsUpTo(Bound) /\ k.op.origin = l[2]
  BY DEF IInv, Fits, JobsUpTo, OInv, InOrder
<1>3. \A X \in {{[k EXCEPT !.st = "late"]}, Then(k), {}} :
        \A x \in X : x.op = k.op /\ x.st \notin Early
  BY <1>2, ThenLate DEF Job, Early
<1>4. /\ \A j \in Link : j # l => job'[j] = job[j]
      /\ \A x \in job'[l] : x.op = k.op /\ x.st \notin Early
  BY <1>1, <1>2, <1>3
<1> QED
  BY <1>1, <1>2, <1>4, RecordOrdered

\* Steps of a job that record nothing keep the order.
LEMMA WorkingOrdered ==
  ASSUME IInv, OInv, NEW l \in Link,
         Quarantine(l) \/ ResolveOp(l) \/ AbandonOp(l) \/ CheckSource(l)
  PROVE  OInv'
<1>1. UNCHANGED <<oplog, cursor>>
  BY DEF Quarantine, ResolveOp, AbandonOp, CheckSource
<1>2. /\ job \in [Link -> SUBSET JobsUpTo(Bound)]
      /\ \A k \in job[l] :
           /\ k \in Job /\ k.op.origin = l[2]
           /\ k.st \in Early => k.op.seq = cursor[l[1]][l[2]] + 1
  BY DEF IInv, Fits, JobsUpTo, OInv, InOrder
<1>3. ASSUME NEW k \in job[l],
             \A j \in Link : j # l => job'[j] = job[j],
             \A x \in job'[l] :
               x.op = k.op /\ (x.st \in Early => k.st \in Early)
      PROVE  OInv'
  BY <1>1, <1>2, <1>3, TaskOrdered
<1>4. CASE Quarantine(l)
  <2>1. PICK k \in job[l] :
          /\ k.st = "fetch"
          /\ job' = [job EXCEPT ![l] = {[k EXCEPT !.st = "quarantine"]}]
    BY <1>4 DEF Quarantine
  <2>2. [k EXCEPT !.st = "quarantine"].op = k.op /\ k.st \in Early
    BY <1>2, <2>1 DEF Job, Early
  <2>3. /\ \A j \in Link : j # l => job'[j] = job[j]
        /\ \A x \in job'[l] : x.op = k.op
    BY <1>2, <2>1, <2>2
  <2> QED
    BY <1>3, <2>2, <2>3
<1>5. CASE AbandonOp(l)
  <2>1. PICK k \in job[l] :
          Resolving(k) /\ job' = [job EXCEPT ![l] = After(k)]
    BY <1>5 DEF AbandonOp
  <2>2. /\ \A j \in Link : j # l => job'[j] = job[j]
        /\ job'[l] = After(k)
    BY <1>2, <2>1
  <2> QED
    BY <1>2, <1>3, <2>1, <2>2, AfterOrder
<1>6. CASE ResolveOp(l)
  <2>1. PICK k \in job[l] :
          /\ Resolving(k)
          /\ \/ job' = [job EXCEPT ![l] = After(k)]
             \/ \E plan : job' = [job EXCEPT ![l] =
                            {[k EXCEPT !.contest = Restage(@, plan)]}]
    BY <1>6 DEF ResolveOp
  <2>2. CASE job' = [job EXCEPT ![l] = After(k)]
    <3>1. /\ \A j \in Link : j # l => job'[j] = job[j]
          /\ job'[l] = After(k)
      BY <1>2, <2>2
    <3> QED
      BY <1>2, <1>3, <2>1, <3>1, AfterOrder
  <2>3. ASSUME NEW plan, job' = [job EXCEPT ![l] =
                                {[k EXCEPT !.contest = Restage(@, plan)]}]
        PROVE  OInv'
    <3>1. /\ [k EXCEPT !.contest = Restage(@, plan)].op = k.op
          /\ [k EXCEPT !.contest = Restage(@, plan)].st = k.st
      BY <1>2 DEF Job
    <3>2. /\ \A j \in Link : j # l => job'[j] = job[j]
          /\ \A x \in job'[l] : x.op = k.op /\ x.st = k.st
      BY <1>2, <2>3, <3>1
    <3> QED
      BY <1>3, <3>2
  <2> QED
    BY <2>1, <2>2, <2>3
<1>7. CASE CheckSource(l)
  <2>1. PICK k \in job[l] : \E c :
          \/ job' = [job EXCEPT ![l] =
                      {[k EXCEPT !.st = "settle", !.contest = c]}]
          \/ job' = [job EXCEPT ![l] = {}]
    BY <1>7 DEF CheckSource
  <2>2. \A c : /\ [k EXCEPT !.st = "settle", !.contest = c].op = k.op
               /\ [k EXCEPT !.st = "settle", !.contest = c].st = "settle"
    BY <1>2 DEF Job
  <2>3. "settle" \notin Early
    BY DEF Early
  <2>4. CASE job' = [job EXCEPT ![l] = {}]
    <3>1. (\A j \in Link : j # l => job'[j] = job[j]) /\ job'[l] = {}
      BY <1>2, <2>4
    <3> QED
      BY <1>3, <3>1
  <2>5. ASSUME NEW c, job' = [job EXCEPT ![l] =
                            {[k EXCEPT !.st = "settle", !.contest = c]}]
        PROVE  OInv'
    <3>1. /\ \A j \in Link : j # l => job'[j] = job[j]
          /\ \A x \in job'[l] : x.op = k.op /\ x.st = "settle"
      BY <1>2, <2>2, <2>5
    <3> QED
      BY <1>3, <2>3, <3>1
  <2> QED
    BY <2>1, <2>4, <2>5
<1> QED
  BY <1>4, <1>5, <1>6, <1>7

\* The gate moves the cursor of a link that has no task.
LEMMA SessionDoneOrdered ==
  ASSUME IInv, OInv, NEW l \in Link, SessionDone(l)
  PROVE  OInv'
<1>1. PICK s \in session[l] :
        /\ cursor' = [cursor EXCEPT ![l[1]][l[2]] =
             IF conn[l] = "gate" THEN Larger(@, s.frontier) ELSE @]
        /\ UNCHANGED <<oplog, job>>
  BY DEF SessionDone
<1>2. /\ l[1] \in Node /\ l[2] \in Node /\ s.frontier \in Nat
      /\ cursor \in [Node -> [Node -> Nat]]
  BY LinkEnds DEF IInv, Fits, Counters, SessionsUpTo, Session
<1>3. CASE conn[l] # "gate"
  <2>1. cursor' = cursor
    BY <1>1, <1>2, <1>3
  <2> QED
    BY <1>1, <2>1, IdleOrdered
<1>4. CASE conn[l] = "gate"
  <2>1. job[l] = {}
    BY <1>4 DEF IInv, Lifetimes
  <2>2. /\ \A m, i \in Node : cursor[m][i] <= cursor'[m][i]
        /\ \A m, i \in Node : cursor'[m][i] \in Nat
        /\ \A m, i \in Node : (m # l[1] \/ i # l[2]) =>
             cursor'[m][i] = cursor[m][i]
    BY <1>1, <1>2, <1>4 DEF Larger
  <2>3. Behind'
    <3> SUFFICES ASSUME NEW m \in Node, NEW r \in oplog[m], r.origin # m
                 PROVE  r.seq <= cursor'[m][r.origin]
      BY <1>1 DEF Behind
    <3>1. /\ r.seq \in Nat /\ r.origin \in Node
          /\ r.seq <= cursor[m][r.origin] /\ cursor[m][r.origin] \in Nat
      BY <1>2 DEF IInv, Fits, OpsUpTo, Op, OInv, Behind
    <3> QED
      BY <2>2, <3>1
  <2>4. InOrder'
    <3> SUFFICES ASSUME NEW j \in Link, NEW x \in job[j]
                 PROVE  /\ x.op.origin = j[2]
                        /\ x.st \in Early =>
                             x.op.seq = cursor'[j[1]][j[2]] + 1
      BY <1>1 DEF InOrder
    <3>1. j # l /\ j[1] \in Node /\ j[2] \in Node
      BY <2>1, LinkEnds
    <3>2. j[1] # l[1] \/ j[2] # l[2]
      BY <3>1, SameLink
    <3> QED
      BY <2>2, <3>1, <3>2 DEF OInv, InOrder
  <2> QED
    BY <2>3, <2>4 DEF OInv
<1> QED
  BY <1>3, <1>4

\* Every step keeps the order of records and cursors.
LEMMA NextOrdered ==
  ASSUME IInv, OInv, Next
  PROVE  OInv'
<1>1. ASSUME NEW L, Cut(L) PROVE OInv'
  <2>1. UNCHANGED <<oplog, cursor>> /\ \A j \in Link : job'[j] \subseteq job[j]
    BY <1>1 DEF Cut
  <2> QED
    BY <2>1, IdleOrdered
<1>2. ASSUME NEW l \in Link,
             \/ Connect(l) \/ PeriodicReconcile(l)
             \/ \E p \in Path : HandleLeaf(l, p)
             \/ Upsert(l) \/ ResolveLeaf(l) \/ SkipLeaf(l) \/ AbortSession(l)
      PROVE  OInv'
  <2>1. UNCHANGED <<oplog, cursor, job>>
    BY <1>2 DEF Connect, PeriodicReconcile, HandleLeaf, Upsert, ResolveLeaf,
                SkipLeaf, AbortSession
  <2> QED
    BY <2>1, IdleOrdered
<1>3. ASSUME NEW n \in Node, Local(n) \/ Crash(n) PROVE OInv'
  BY <1>1, <1>3, LocalOrdered DEF Crash
<1>4. ASSUME NEW l \in Link, OpStep(l) PROVE OInv'
  BY <1>4, ReceiveOrdered, RecordingOrdered, WorkingOrdered DEF OpStep
<1>5. ASSUME NEW l \in Link, SyncStep(l) PROVE OInv'
  BY <1>2, <1>5, SessionDoneOrdered DEF SyncStep
<1>6. ASSUME NEW l \in Link, Failure(l) PROVE OInv'
  BY <1>1, <1>2, <1>6, WorkingOrdered DEF Failure, Disconnect
<1> QED
  BY <1>3, <1>4, <1>5, <1>6 DEF Next

\* No op is recorded twice or delivered again after it was recorded: not after
\* a crash between the commit and the ack, not after a reconnect through the
\* gate (apply_remote moves the cursor in the transaction that records the
\* op, and subscription_io resumes past it).
THEOREM OpsRecordedOnce == Spec => []RecordedOnce
<1>1. Init => OInv
  BY DEF Init, OInv, Behind, InOrder
<1>2. IInv /\ OInv /\ [Next]_vars => OInv'
  <2>1. ASSUME OInv, UNCHANGED vars PROVE OInv'
    BY <2>1 DEF OInv, Behind, InOrder, vars
  <2> QED
    BY <2>1, NextOrdered
<1>3. IInv /\ OInv => RecordedOnce
  BY OrderedIsOnce
<1> QED
  BY <1>1, <1>2, <1>3, Invariance, PTL DEF Spec

=============================================================================
