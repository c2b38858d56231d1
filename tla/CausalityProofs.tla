--------------------------- MODULE CausalityProofs ---------------------------
(***************************************************************************)
(* Vectors against real histories, and what happens to an op that a node   *)
(* has taken responsibility for, in the replicated index of Replication.   *)
(***************************************************************************)
EXTENDS ReplicationProofs

-----------------------------------------------------------------------------
(* Vectors and histories *)

\* What histories are judged by: the ops there are, the rows, the counters.
World == [ops |-> AllOps, rows |-> files, top |-> latest]

\* Everything in the history h has happened.
Past(w, h) == \A i \in h : i[2] <= w.top[i[1]]

\* The vector v covers every op of the history h, at whatever path.
Covers(w, v, h) == \A o \in w.ops : OpIdOf(o) \in h => Leq(o.vv, v)

\* What the author's component of v reaches is in the history h.
Knows(w, p, v, h) ==
  \A o \in w.ops :
    (o.path = p /\ o.vv[o.origin] <= v[o.origin]) => OpIdOf(o) \in h

\* No vector at p is ahead of a node's own row in that node's component.
Owned(w, p, v) == \A m \in Node : v[m] <= w.rows[m][p].vv[m]

\* The vector v and the history h, in one carrier at p, agree.
Tracks(w, p, v, h) ==
  /\ Past(w, h)
  /\ Covers(w, v, h)
  /\ ~ Renames => Knows(w, p, v, h) /\ Owned(w, p, v)

\* The carriers: rows, recorded ops, contested versions and snapshots.
RowsTrack(w, F, H) ==
  \A n \in Node, p \in Path : Tracks(w, p, F[n][p].vv, H[n][p])

OpsTrack(w, G) ==
  \A n \in Node : \A o \in G[n] : Tracks(w, o.path, o.vv, History(o))

TasksTrack(w, J) ==
  \A l \in Link : \A k \in J[l] :
    Tracks(w, k.contest.at, k.contest.remote.vv, k.contest.past)

SessionsTrack(w, S) ==
  \A l \in Link : \A s \in S[l] : \A p \in Path :
    s.rows[p] # NoRow => Tracks(w, p, s.rows[p].vv, s.seen[p])

\* A task works on an op of its peer's log.
Sourced(G, J) == \A l \in Link : \A k \in J[l] : k.op \in G[l[2]]

\* Without renames an op has one path.
Plain(G) == ~ Renames => \A n \in Node : \A o \in G[n] : o.old = NoPath

HInv ==
  /\ RowsTrack(World, files, seen)
  /\ OpsTrack(World, oplog)
  /\ TasksTrack(World, job)
  /\ TasksTrack(World, leaf)
  /\ SessionsTrack(World, session)
  /\ Sourced(oplog, job)
  /\ Plain(oplog)

-----------------------------------------------------------------------------
(* Carriers *)

\* Merging two vectors and uniting their histories keeps the agreement: this
\* is where the components, not the order, matter, because a merge may cover
\* an op that neither of the two covers.
LEMMA TracksMerge ==
  ASSUME NEW w, w.ops \subseteq Op, NEW p, NEW u \in VV, NEW v \in VV,
         NEW g, NEW h, Tracks(w, p, u, g), Tracks(w, p, v, h)
  PROVE  Tracks(w, p, Merge(u, v), g \cup h)
<1> DEFINE m == Merge(u, v)
<1>1. m \in VV /\ Leq(u, m) /\ Leq(v, m)
  BY MergeIsLub
<1>2. Past(w, g \cup h)
  BY DEF Tracks, Past
<1>3. Covers(w, m, g \cup h)
  <2> SUFFICES ASSUME NEW o \in w.ops, OpIdOf(o) \in g \cup h
               PROVE  Leq(o.vv, m)
    BY DEF Covers
  <2>1. o.vv \in VV
    BY DEF Op
  <2>2. Leq(o.vv, u) \/ Leq(o.vv, v)
    BY DEF Tracks, Covers
  <2> HIDE DEF m
  <2> QED
    BY <1>1, <2>1, <2>2, LeqTransitive
<1>4. ASSUME ~ Renames PROVE Knows(w, p, m, g \cup h)
  <2> SUFFICES ASSUME NEW o \in w.ops, o.path = p,
                      o.vv[o.origin] <= m[o.origin]
               PROVE  OpIdOf(o) \in g \cup h
    BY DEF Knows
  <2>1. o.origin \in Id
    BY ReplicationAssumption DEF Op
  <2>2. m[o.origin] = u[o.origin] \/ m[o.origin] = v[o.origin]
    BY <2>1 DEF Merge
  <2> QED
    BY <1>4, <2>2 DEF Tracks, Knows
<1>5. ASSUME ~ Renames PROVE Owned(w, p, m)
  <2> SUFFICES ASSUME NEW n \in Node PROVE m[n] <= w.rows[n][p].vv[n]
    BY DEF Owned
  <2>1. m[n] = u[n] \/ m[n] = v[n]
    BY ReplicationAssumption DEF Merge
  <2> QED
    BY <1>5, <2>1 DEF Tracks, Owned
<1> HIDE DEF m
<1>6. Tracks(w, p, m, g \cup h)
  BY <1>2, <1>3, <1>4, <1>5 DEF Tracks
<1> QED
  BY <1>6 DEF m

\* A conflict copy's synthetic component says nothing about any node.
LEMMA TracksCopy ==
  ASSUME NEW w, w.ops \subseteq Op, NEW p, NEW v \in VV, NEW h,
         Tracks(w, p, v, h), NEW cp \in Path
  PROVE  Tracks(w, p, Merge(v, CopyVV(cp)), h)
<1> DEFINE m == Merge(v, CopyVV(cp))
<1>1. m \in VV /\ Leq(v, m)
  BY MergeIsLub, CopyVVType
<1>2. \A n \in Node : m[n] = v[n]
  <2> TAKE n \in Node
  <2>1. n \in Id /\ n # cp /\ v[n] \in Nat
    BY ReplicationAssumption DEF VV
  <2> QED
    BY <2>1 DEF Merge, CopyVV
<1>3. Covers(w, m, h)
  <2> SUFFICES ASSUME NEW o \in w.ops, OpIdOf(o) \in h
               PROVE  Leq(o.vv, m)
    BY DEF Covers
  <2>1. o.vv \in VV /\ Leq(o.vv, v)
    BY DEF Op, Tracks, Covers
  <2> HIDE DEF m
  <2> QED
    BY <1>1, <2>1, LeqTransitive
<1> HIDE DEF m
<1>4. ASSUME ~ Renames PROVE Knows(w, p, m, h)
  BY <1>2, <1>4 DEF Tracks, Knows, Op
<1>5. ASSUME ~ Renames PROVE Owned(w, p, m)
  BY <1>2, <1>5 DEF Tracks, Owned
<1>6. Tracks(w, p, m, h)
  BY <1>3, <1>4, <1>5 DEF Tracks
<1> QED
  BY <1>6 DEF m

\* The plan's merged vector and the union of the candidates' histories agree
\* (resolve_rows): each part of the history is explained by a vector below
\* the merge, and each merged vector brings its own history along.
LEMMA TracksAll ==
  ASSUME NEW w, w.ops \subseteq Op, NEW p, NEW h,
         NEW S, S \subseteq VV, S # {},
         NEW B \in VV, \A v \in S : Leq(v, B),
         \A i \in h : \E v \in VV : \E g \in SUBSET OpId :
           i \in g /\ Tracks(w, p, v, g) /\ Leq(v, MergeAll(S)),
         \A v \in S : \E g \in SUBSET h : Tracks(w, p, v, g)
  PROVE  Tracks(w, p, MergeAll(S), h)
<1> DEFINE m == MergeAll(S)
<1>1. /\ m \in VV /\ \A v \in S : Leq(v, m)
      /\ \A i \in Id : \E v \in S : m[i] = v[i]
  BY MergeAllBounds
<1>2. \A i \in h : \E v \in VV : \E g \in SUBSET OpId :
        i \in g /\ Tracks(w, p, v, g) /\ Leq(v, m)
  OBVIOUS
<1> HIDE DEF m
<1>3. Past(w, h)
  BY <1>2 DEF Tracks, Past
<1>4. Covers(w, m, h)
  <2> SUFFICES ASSUME NEW o \in w.ops, OpIdOf(o) \in h
               PROVE  Leq(o.vv, m)
    BY DEF Covers
  <2>1. PICK v \in VV, g \in SUBSET OpId :
          OpIdOf(o) \in g /\ Tracks(w, p, v, g) /\ Leq(v, m)
    BY <1>2
  <2>2. o.vv \in VV /\ Leq(o.vv, v)
    BY <2>1 DEF Op, Tracks, Covers
  <2> QED
    BY <1>1, <2>1, <2>2, LeqTransitive
<1>5. ASSUME ~ Renames PROVE Knows(w, p, m, h)
  <2> SUFFICES ASSUME NEW o \in w.ops, o.path = p,
                      o.vv[o.origin] <= m[o.origin]
               PROVE  OpIdOf(o) \in h
    BY DEF Knows
  <2>1. o.origin \in Id
    BY ReplicationAssumption DEF Op
  <2>2. PICK v \in S : m[o.origin] = v[o.origin]
    BY <1>1, <2>1
  <2>3. PICK g \in SUBSET h : Tracks(w, p, v, g)
    BY <2>2
  <2> QED
    BY <1>5, <2>2, <2>3 DEF Tracks, Knows
<1>6. ASSUME ~ Renames PROVE Owned(w, p, m)
  <2> SUFFICES ASSUME NEW n \in Node PROVE m[n] <= w.rows[n][p].vv[n]
    BY DEF Owned
  <2>1. PICK v \in S : m[n] = v[n]
    BY <1>1, ReplicationAssumption
  <2>2. PICK g \in SUBSET h : Tracks(w, p, v, g)
    BY <2>1
  <2> QED
    BY <1>6, <2>1, <2>2 DEF Tracks, Owned
<1>7. Tracks(w, p, m, h)
  BY <1>3, <1>4, <1>5, <1>6 DEF Tracks
<1> QED
  BY <1>7 DEF m

\* With renames the path of a carrier does not matter.
LEMMA TracksAnywhere ==
  ASSUME NEW w, NEW p, NEW q, NEW v, NEW h, Tracks(w, p, v, h),
         Renames \/ p = q
  PROVE  Tracks(w, q, v, h)
BY DEF Tracks

\* Rows that move forward keep every carrier's agreement.
LEMMA TracksForward ==
  ASSUME NEW w, NEW x, x.ops = w.ops, x.top = w.top,
         NEW p \in Path, NEW v \in VV, NEW h, Tracks(w, p, v, h),
         \A n \in Node : /\ w.rows[n][p].vv \in VV /\ x.rows[n][p].vv \in VV
                         /\ Leq(w.rows[n][p].vv, x.rows[n][p].vv)
  PROVE  Tracks(x, p, v, h)
<1>1. Past(x, h) /\ Covers(x, v, h)
  BY DEF Tracks, Past, Covers
<1>2. ASSUME ~ Renames PROVE Knows(x, p, v, h)
  BY <1>2 DEF Tracks, Knows
<1>3. ASSUME ~ Renames PROVE Owned(x, p, v)
  <2> SUFFICES ASSUME NEW n \in Node PROVE v[n] <= x.rows[n][p].vv[n]
    BY DEF Owned
  <2>1. n \in Id
    BY ReplicationAssumption
  <2>2. /\ v[n] \in Nat /\ w.rows[n][p].vv[n] \in Nat
        /\ x.rows[n][p].vv[n] \in Nat
        /\ w.rows[n][p].vv[n] <= x.rows[n][p].vv[n]
    BY <2>1 DEF VV, Leq
  <2>3. v[n] <= w.rows[n][p].vv[n]
    BY <1>3 DEF Tracks, Owned
  <2> QED
    BY <2>2, <2>3
<1> QED
  BY <1>1, <1>2, <1>3 DEF Tracks

\* A new local op leaves every carrier's agreement as it was: nobody has heard
\* of it, and no vector reaches it yet because its author's row was ahead of
\* all of them.
LEMMA TracksNew ==
  ASSUME NEW w, NEW x, NEW a \in Op, x.ops = w.ops \cup {a},
         NEW p \in Path, NEW v \in VV, NEW h \in SUBSET OpId,
         Tracks(w, p, v, h),
         w.top \in [Node -> Nat],
         x.top = [w.top EXCEPT ![a.origin] = @ + 1],
         a.seq = w.top[a.origin] + 1,
         \A n \in Node : /\ w.rows[n][p].vv \in VV /\ x.rows[n][p].vv \in VV
                         /\ Leq(w.rows[n][p].vv, x.rows[n][p].vv),
         ~ Renames => a.vv[a.origin] = w.rows[a.origin][a.path].vv[a.origin] + 1
  PROVE  Tracks(x, p, v, h)
<1>1. a.origin \in Node /\ a.origin \in Id
  BY ReplicationAssumption DEF Op
<1>2. OpIdOf(a) \notin h
  <2>1. \A i \in h : i[2] <= w.top[i[1]]
    BY DEF Tracks, Past
  <2>2. w.top[a.origin] \in Nat
    BY <1>1
  <2> SUFFICES ASSUME <<a.origin, a.seq>> \in h PROVE FALSE
    BY DEF OpIdOf
  <2>3. a.seq <= w.top[a.origin]
    BY <2>1
  <2> QED
    BY <2>2, <2>3
<1>3. Past(x, h)
  <2> SUFFICES ASSUME NEW i \in h PROVE i[2] <= x.top[i[1]]
    BY DEF Past
  <2>1. i[1] \in Node /\ i[2] \in Nat /\ i[2] <= w.top[i[1]]
    BY DEF Tracks, Past, OpId
  <2>2. w.top[i[1]] \in Nat /\ x.top[i[1]] \in Nat
        /\ w.top[i[1]] <= x.top[i[1]]
    BY <1>1, <2>1
  <2> QED
    BY <2>1, <2>2
<1>4. Covers(x, v, h)
  BY <1>2 DEF Tracks, Covers
<1>5. ASSUME ~ Renames PROVE Owned(x, p, v)
  <2> SUFFICES ASSUME NEW n \in Node PROVE v[n] <= x.rows[n][p].vv[n]
    BY DEF Owned
  <2>1. n \in Id
    BY ReplicationAssumption
  <2>2. /\ v[n] \in Nat /\ w.rows[n][p].vv[n] \in Nat
        /\ x.rows[n][p].vv[n] \in Nat
        /\ w.rows[n][p].vv[n] <= x.rows[n][p].vv[n]
    BY <2>1 DEF VV, Leq
  <2>3. v[n] <= w.rows[n][p].vv[n]
    BY <1>5 DEF Tracks, Owned
  <2> QED
    BY <2>2, <2>3
<1>6. ASSUME ~ Renames PROVE Knows(x, p, v, h)
  <2>1. ASSUME a.path = p, a.vv[a.origin] <= v[a.origin] PROVE FALSE
    <3>1. v[a.origin] <= w.rows[a.origin][p].vv[a.origin]
      BY <1>1, <1>6 DEF Tracks, Owned
    <3>2. v[a.origin] \in Nat /\ w.rows[a.origin][p].vv[a.origin] \in Nat
      BY <1>1 DEF VV
    <3> QED
      BY <1>6, <2>1, <3>1, <3>2
  <2> QED
    BY <1>6, <2>1 DEF Tracks, Knows
<1> QED
  BY <1>3, <1>4, <1>5, <1>6 DEF Tracks

-----------------------------------------------------------------------------
(* Steps that originate nothing *)

\* The ops of the world are ops, and it is what it is made of.
LEMMA WorldType ==
  ASSUME IInv
  PROVE  /\ World.ops = AllOps /\ World.rows = files /\ World.top = latest
         /\ World.ops \subseteq Op
<1>1. World.ops = AllOps /\ World.rows = files /\ World.top = latest
  BY DEF World
<1>2. AllOps \subseteq Op
  BY DEF AllOps, Originated, IInv, Fits, OpsUpTo
<1> QED
  BY <1>1, <1>2

\* Vectors of rows, ops, contests and snapshots are vectors.
LEMMA CarrierTypes ==
  ASSUME IInv
  PROVE  /\ \A n \in Node, p \in Path : files[n][p].vv \in VV
         /\ \A n \in Node, p \in Path : seen[n][p] \in SUBSET OpId
         /\ \A n \in Node : \A o \in oplog[n] :
              /\ o \in Op /\ o.path \in Path /\ o.vv \in VV
              /\ History(o) \in SUBSET OpId
         /\ \A l \in Link : \A k \in job[l] :
              /\ k.contest.at \in Path /\ k.contest.remote.vv \in VV
              /\ k.contest.past \in SUBSET OpId
         /\ \A l \in Link : \A k \in leaf[l] :
              /\ k.contest.at \in Path /\ k.contest.remote.vv \in VV
              /\ k.contest.past \in SUBSET OpId
         /\ \A l \in Link : \A s \in session[l] : \A p \in Path :
              s.rows[p].vv \in VV /\ s.seen[p] \in SUBSET OpId
<1>1. /\ \A n \in Node, p \in Path : files[n][p].vv \in VV
      /\ \A n \in Node, p \in Path : seen[n][p] \in SUBSET OpId
  BY DEF IInv, Fits, Counters, VersionsUpTo, Version
<1>2. \A n \in Node : \A o \in oplog[n] :
        /\ o \in Op /\ o.path \in Path /\ o.vv \in VV
        /\ History(o) \in SUBSET OpId
  <2> SUFFICES ASSUME NEW n \in Node, NEW o \in oplog[n]
               PROVE  /\ o \in Op /\ o.path \in Path /\ o.vv \in VV
                      /\ History(o) \in SUBSET OpId
    OBVIOUS
  <2>1. o \in OpsUpTo(Bound)
    BY DEF IInv, Fits
  <2>2. o \in Op /\ o.path \in Path /\ o.vv \in VV
    BY <2>1 DEF OpsUpTo, Op
  <2> QED
    BY <2>1, <2>2, EffectType
<1>3. \A l \in Link : \A k \in job[l] :
        /\ k.contest.at \in Path /\ k.contest.remote.vv \in VV
        /\ k.contest.past \in SUBSET OpId
  BY DEF IInv, Fits, JobsUpTo, ContestsUpTo, Contest, VersionsUpTo, Version
<1>4. \A l \in Link : \A k \in leaf[l] :
        /\ k.contest.at \in Path /\ k.contest.remote.vv \in VV
        /\ k.contest.past \in SUBSET OpId
  BY DEF IInv, Fits, LeavesUpTo, ContestsUpTo, Contest, VersionsUpTo, Version
<1>5. \A l \in Link : \A s \in session[l] : \A p \in Path :
        s.rows[p].vv \in VV /\ s.seen[p] \in SUBSET OpId
  BY DEF IInv, Fits, SessionsUpTo, Session, VersionsUpTo, Version
<1> QED
  BY <1>1, <1>2, <1>3, <1>4, <1>5

\* Rows never go back, so every row's vector covers its predecessor.
LEMMA RowsForward ==
  ASSUME IInv, RowsAdvance
  PROVE  \A n \in Node, p \in Path : Leq(files[n][p].vv, files'[n][p].vv)
BY CarrierTypes, LeqReflexive DEF RowsAdvance, Less

\* A step that originates no op: it is enough that everything in the new
\* state agrees with the old world.
LEMMA Carried ==
  ASSUME IInv, IInv', RowsAdvance, latest' = latest, AllOps' = AllOps,
         RowsTrack(World, files', seen'), OpsTrack(World, oplog'),
         TasksTrack(World, job'), TasksTrack(World, leaf'),
         SessionsTrack(World, session'),
         Sourced(oplog', job'), Plain(oplog')
  PROVE  HInv'
<1> DEFINE w == World
           x == World'
<1>1. /\ x.ops = w.ops /\ x.top = w.top /\ x.rows = files' /\ w.rows = files
  BY DEF World
<1>2. \A n \in Node, p \in Path :
        /\ w.rows[n][p].vv \in VV /\ x.rows[n][p].vv \in VV
        /\ Leq(w.rows[n][p].vv, x.rows[n][p].vv)
  <2>1. \A n \in Node, p \in Path : files'[n][p].vv \in VV
    BY DEF IInv, Fits, VersionsUpTo, Version
  <2> QED
    BY <1>1, <2>1, CarrierTypes, RowsForward
<1> HIDE DEF w, x
<1>3. \A p \in Path, v \in VV : \A h : Tracks(w, p, v, h) => Tracks(x, p, v, h)
  BY <1>1, <1>2, TracksForward
<1>4. RowsTrack(x, files', seen')
  <2>1. \A n \in Node, p \in Path : files'[n][p].vv \in VV
    BY DEF IInv, Fits, VersionsUpTo, Version
  <2> QED
    BY <1>3, <2>1 DEF RowsTrack, w
<1>5. OpsTrack(x, oplog')
  <2>1. \A n \in Node : \A o \in oplog'[n] : o.path \in Path /\ o.vv \in VV
    BY DEF IInv, Fits, OpsUpTo, Op
  <2> QED
    BY <1>3, <2>1 DEF OpsTrack, w
<1>6. TasksTrack(x, job')
  <2>1. \A l \in Link : \A k \in job'[l] :
          k.contest.at \in Path /\ k.contest.remote.vv \in VV
    BY DEF IInv, Fits, JobsUpTo, ContestsUpTo, Contest, VersionsUpTo, Version
  <2> QED
    BY <1>3, <2>1 DEF TasksTrack, w
<1>7. TasksTrack(x, leaf')
  <2>1. \A l \in Link : \A k \in leaf'[l] :
          k.contest.at \in Path /\ k.contest.remote.vv \in VV
    BY DEF IInv, Fits, LeavesUpTo, ContestsUpTo, Contest, VersionsUpTo, Version
  <2> QED
    BY <1>3, <2>1 DEF TasksTrack, w
<1>8. SessionsTrack(x, session')
  <2>1. \A l \in Link : \A s \in session'[l] : \A p \in Path :
          s.rows[p].vv \in VV
    BY DEF IInv, Fits, SessionsUpTo, Session, VersionsUpTo, Version
  <2> QED
    BY <1>3, <2>1 DEF SessionsTrack, w
<1> QED
  BY <1>4, <1>5, <1>6, <1>7, <1>8 DEF HInv, x

\* A step that records nothing originates nothing.
LEMMA SameOps ==
  ASSUME oplog' = oplog
  PROVE  AllOps' = AllOps
BY DEF AllOps, Originated


\* apply_remote merges the op's vector and its history into the same rows.
LEMMA ApplyTracks ==
  ASSUME IInv, HInv, NEW l \in Link, NEW o \in oplog[l[2]], o.origin = l[2],
         NEW targets, targets \subseteq {o.path}, ApplyRemote(l, o, targets)
  PROVE  /\ RowsTrack(World, files', seen')
         /\ OpsTrack(World, oplog')
         /\ AllOps' = AllOps
         /\ Plain(oplog')
         /\ \A n \in Node : oplog[n] \subseteq oplog'[n]
<1> DEFINE n == l[1]
           D == Dominated(n, o, targets \cup ({o.old} \ {NoPath}))
<1>1. n \in Node /\ l[2] \in Node /\ n # l[2]
  BY LinkEnds, ReplicationAssumption
<1>2. /\ World.ops \subseteq Op
      /\ o \in Op /\ o.path \in Path /\ o.vv \in VV
      /\ History(o) \in SUBSET OpId
  BY <1>1, WorldType, CarrierTypes
<1>3. Tracks(World, o.path, o.vv, History(o))
  BY <1>1 DEF HInv, OpsTrack
<1>4. /\ oplog' = [oplog EXCEPT ![n] = @ \cup {o}]
      /\ files' = [files EXCEPT ![n] = [p \in Path |->
                     IF p \in D THEN Adopt(@[p], EffectAt(o, p)) ELSE @[p]]]
      /\ seen' = [seen EXCEPT ![n] = [p \in Path |->
                     IF p \in D THEN @[p] \cup History(o) ELSE @[p]]]
  BY DEF ApplyRemote
<1>5. /\ files \in [Node -> [Path -> Version]]
      /\ seen \in [Node -> [Path -> SUBSET OpId]]
      /\ oplog \in [Node -> SUBSET Op]
  BY DEF IInv, Fits, Counters, VersionsUpTo, OpsUpTo
<1>6. \A p \in D : p = o.path \/ (Renames /\ p = o.old)
  <2>1. \A p \in D : p = o.path \/ (p = o.old /\ o.old # NoPath)
    BY DEF Dominated
  <2>2. ~ Renames => o.old = NoPath
    BY <1>1 DEF HInv, Plain
  <2> QED
    BY <2>1, <2>2
<1> HIDE DEF n, D
<1>7. RowsTrack(World, files', seen')
  <2> SUFFICES ASSUME NEW m \in Node, NEW p \in Path
               PROVE  Tracks(World, p, files'[m][p].vv, seen'[m][p])
    BY DEF RowsTrack
  <2>1. Tracks(World, p, files[m][p].vv, seen[m][p])
    BY DEF HInv, RowsTrack
  <2>2. CASE m = n /\ p \in D
    <3>1. Tracks(World, p, o.vv, History(o))
      BY <1>3, <1>6, <2>2, TracksAnywhere
    <3>2. /\ files'[m][p].vv = Merge(files[m][p].vv, o.vv)
          /\ seen'[m][p] = seen[m][p] \cup History(o)
      <4>1. files'[m][p] = Adopt(files[m][p], EffectAt(o, p))
        BY <1>1, <1>4, <1>5, <2>2
      <4>2. Adopt(files[m][p], EffectAt(o, p)).vv = Merge(files[m][p].vv, o.vv)
        BY DEF Adopt, EffectAt
      <4>3. seen'[m][p] = seen[m][p] \cup History(o)
        BY <1>1, <1>4, <1>5, <2>2
      <4> QED
        BY <4>1, <4>2, <4>3
    <3>3. files[m][p].vv \in VV
      BY CarrierTypes
    <3>4. Tracks(World, p, Merge(files[m][p].vv, o.vv),
                 seen[m][p] \cup History(o))
      BY <1>2, <2>1, <3>1, <3>3, TracksMerge
    <3> QED
      BY <3>2, <3>4
  <2>3. CASE ~ (m = n /\ p \in D)
    <3>1. files'[m][p] = files[m][p] /\ seen'[m][p] = seen[m][p]
      BY <1>1, <1>4, <1>5, <2>3
    <3> QED
      BY <2>1, <3>1
  <2> QED
    BY <2>2, <2>3
<1>8. OpsTrack(World, oplog')
  <2>1. \A m \in Node : \A r \in oplog'[m] : r \in oplog[m] \/ r = o
    BY <1>1, <1>4, <1>5
  <2> QED
    BY <1>3, <2>1 DEF HInv, OpsTrack
<1>9. AllOps' = AllOps
  <2>1. \A m \in Node : Originated(m)' = Originated(m)
    BY <1>1, <1>4, <1>5 DEF Originated
  <2> QED
    BY <2>1 DEF AllOps
<1>10. Plain(oplog')
  <2>1. \A m \in Node : \A r \in oplog'[m] : r \in oplog[m] \/ r = o
    BY <1>1, <1>4, <1>5
  <2> QED
    BY <1>1, <2>1 DEF HInv, Plain
<1>11. \A m \in Node : oplog[m] \subseteq oplog'[m]
  BY <1>1, <1>4, <1>5
<1> QED
  BY <1>7, <1>8, <1>9, <1>10, <1>11

\* What a commit of resolve_rows does to the vectors of the rows.
LEMMA CommitRows ==
  ASSUME IInv, NEW n \in Node, NEW c \in ContestsUpTo(Bound), Commit(n, c)
  PROVE  /\ c.at \in Path
         /\ files'[n][c.at].vv = MergeAll({v.vv : v \in Candidates(n, c)})
         /\ \A p \in Path : p # c.at =>
              files'[n][p].vv \in {files[n][p].vv,
                                   Merge(files[n][p].vv, CopyVV(p))}
         /\ \A m \in Node, p \in Path : m # n => files'[m][p] = files[m][p]
         /\ seen'[n][c.at] = Absorbed(n, c)
         /\ \A m \in Node, p \in Path :
              (m # n \/ p # c.at) => seen'[m][p] = seen[m][p]
<1> DEFINE M == MergeAll({v.vv : v \in Candidates(n, c)})
<1>1. /\ files \in [Node -> [Path -> Version]]
      /\ seen \in [Node -> [Path -> SUBSET OpId]] /\ c.at \in Path
  BY DEF IInv, Fits, Counters, VersionsUpTo, ContestsUpTo, Contest
<1>2. c.plan \in Plans(c.at, Candidates(n, c), files[n])
  BY DEF Commit, Derivable
<1>3. /\ \E r \in c.plan : r.path = c.at
      /\ \A r \in c.plan : r.path = c.at => r.vv = M
      /\ \A r \in c.plan : r.path # c.at =>
           r.vv = Merge(files[n][r.path].vv, CopyVV(r.path))
  <2> DEFINE C == Candidates(n, c)
  <2>1. c.plan \in Plans(c.at, C, files[n])
    BY <1>2
  <2> HIDE DEF C
  <2>2. /\ \E r \in c.plan : r.path = c.at
        /\ \A r \in c.plan : r.path = c.at =>
             r.vv = MergeAll({v.vv : v \in C})
        /\ \A r \in c.plan : r.path # c.at =>
             r.vv = Merge(files[n][r.path].vv, CopyVV(r.path))
    BY <2>1, PlanShape
  <2> QED
    BY <2>2 DEF C
<1> HIDE DEF M
<1>4. \A p \in Path : files'[n][p] = Install(files[n], c.plan)[p]
  <2>1. files' = [files EXCEPT ![n] = Install(files[n], c.plan)]
    BY DEF Commit
  <2> QED
    BY <1>1, <2>1
<1>5. ASSUME NEW p \in Path
      PROVE  \/ /\ \A r \in c.plan : r.path # p
                /\ files'[n][p] = files[n][p]
             \/ \E r \in c.plan : r.path = p /\ files'[n][p].vv = r.vv
  <2>1. CASE \E r \in c.plan : r.path = p
    <3> DEFINE r == CHOOSE r \in c.plan : r.path = p
    <3>1. r \in c.plan /\ r.path = p
      BY <2>1
    <3>2. files'[n][p] = [val |-> r.val, vv |-> r.vv]
      BY <1>4, <2>1 DEF Install
    <3> HIDE DEF r
    <3> QED
      BY <3>1, <3>2
  <2>2. CASE ~ \E r \in c.plan : r.path = p
    BY <1>4, <2>2 DEF Install
  <2> QED
    BY <2>1, <2>2
<1>6. files'[n][c.at].vv = M
  BY <1>1, <1>3, <1>5
<1>7. \A p \in Path : p # c.at =>
        files'[n][p].vv \in {files[n][p].vv, Merge(files[n][p].vv, CopyVV(p))}
  BY <1>3, <1>5
<1>8. \A m \in Node, p \in Path : m # n => files'[m][p] = files[m][p]
  BY <1>1 DEF Commit
<1>9. seen' = [seen EXCEPT ![n][c.at] = Absorbed(n, c)]
  BY DEF Commit
<1>10. /\ seen'[n][c.at] = Absorbed(n, c)
       /\ \A m \in Node, p \in Path :
            (m # n \/ p # c.at) => seen'[m][p] = seen[m][p]
  BY <1>1, <1>9
<1> QED
  BY <1>1, <1>6, <1>7, <1>8, <1>10 DEF M

\* The winner's row embodies exactly what its merged vector covers, and a
\* copy's row what it embodied before (resolve_rows).
LEMMA CommitTracks ==
  ASSUME IInv, HInv, NEW n \in Node, NEW c \in ContestsUpTo(Bound),
         Commit(n, c), Tracks(World, c.at, c.remote.vv, c.past)
  PROVE  RowsTrack(World, files', seen')
<1> DEFINE C == Candidates(n, c)
           S == {v.vv : v \in C}
           mine == {o \in oplog[n] : Affects(o, c.at)}
           h == Absorbed(n, c)
<1>1. /\ \A p \in Path : p # c.at =>
           files'[n][p].vv \in {files[n][p].vv,
                                Merge(files[n][p].vv, CopyVV(p))}
      /\ \A m \in Node, p \in Path : m # n => files'[m][p] = files[m][p]
      /\ \A m \in Node, p \in Path :
           (m # n \/ p # c.at) => seen'[m][p] = seen[m][p]
  BY CommitRows
<1>2. /\ World.ops \subseteq Op /\ Bound \in VV /\ c.at \in Path
      /\ c.past \in SUBSET OpId /\ c.remote.vv \in VV
      /\ files[n][c.at].vv \in VV /\ seen[n][c.at] \in SUBSET OpId
  BY WorldType, BoundIsVV, CarrierTypes
     DEF IInv, Counters, CopyBound, ContestsUpTo, Contest, VersionsUpTo, Version
<1>3. /\ C \subseteq VersionsUpTo(Bound) /\ c.remote \in C
      /\ Leq(files[n][c.at].vv, MergeAll(S))
  BY CandidatesCover
<1>4. S \subseteq VV /\ S # {} /\ \A v \in S : Leq(v, Bound)
  BY <1>3 DEF VersionsUpTo, Version
<1>5. \A v \in S : Leq(v, MergeAll(S))
  <2> HIDE DEF S
  <2> QED
    BY <1>2, <1>4, MergeAllBounds
<1>6. h = seen[n][c.at] \cup c.past \cup UNION {History(o) : o \in mine}
  BY DEF Absorbed
<1>7. ASSUME NEW o \in mine
      PROVE  /\ o.vv \in VV /\ History(o) \in SUBSET OpId
             /\ Tracks(World, c.at, o.vv, History(o))
             /\ o.vv \in S
  <2>1. /\ o \in oplog[n] /\ o.vv \in VV /\ History(o) \in SUBSET OpId
        /\ Tracks(World, o.path, o.vv, History(o))
    BY <1>7, CarrierTypes DEF HInv, OpsTrack
  <2>2. Renames \/ o.path = c.at
    BY <1>2, <2>1, ReplicationAssumption DEF HInv, Plain, Affects
  <2>3. Tracks(World, c.at, o.vv, History(o))
    BY <2>1, <2>2, TracksAnywhere
  <2>4. EffectAt(o, c.at) \in C
    BY <1>7, Zenon DEF Candidates
  <2>5. EffectAt(o, c.at).vv = o.vv
    BY DEF EffectAt
  <2> QED
    BY <2>1, <2>3, <2>4, <2>5
<1>8. \A v \in C : \/ v = c.remote
                   \/ v = files[n][c.at]
                   \/ \E o \in mine : v = EffectAt(o, c.at)
  BY Zenon DEF Candidates
<1>9. Tracks(World, c.at, files[n][c.at].vv, seen[n][c.at])
  BY <1>2 DEF HInv, RowsTrack
<1>10. \A v \in S : \E g \in SUBSET h : Tracks(World, c.at, v, g)
  <2> SUFFICES ASSUME NEW x \in C
               PROVE  \E g \in SUBSET h : Tracks(World, c.at, x.vv, g)
    OBVIOUS
  <2>1. CASE x = c.remote
    BY <1>6, <2>1
  <2>2. CASE x = files[n][c.at]
    BY <1>6, <1>9, <2>2
  <2>3. CASE \E o \in mine : x = EffectAt(o, c.at)
    <3>1. PICK o \in mine : x = EffectAt(o, c.at)
      BY <2>3
    <3>2. x.vv = o.vv
      BY <3>1 DEF EffectAt
    <3>3. History(o) \in SUBSET h
      BY <1>6, <3>1
    <3> QED
      BY <1>7, <3>1, <3>2, <3>3
  <2> QED
    BY <1>8, <2>1, <2>2, <2>3
<1> HIDE DEF C, S, mine, h
<1>11. \A i \in h : \E v \in VV : \E g \in SUBSET OpId :
         i \in g /\ Tracks(World, c.at, v, g) /\ Leq(v, MergeAll(S))
  <2> SUFFICES ASSUME NEW i \in h
               PROVE  \E v \in VV : \E g \in SUBSET OpId :
                        /\ i \in g /\ Tracks(World, c.at, v, g)
                        /\ Leq(v, MergeAll(S))
    OBVIOUS
  <2>1. CASE i \in seen[n][c.at]
    BY <1>2, <1>3, <1>9, <2>1
  <2>2. CASE i \in c.past
    <3>1. c.remote.vv \in S
      BY <1>3 DEF S
    <3> QED
      BY <1>2, <1>5, <2>2, <3>1
  <2>3. CASE \E o \in mine : i \in History(o)
    BY <1>5, <1>7, <2>3
  <2> QED
    BY <1>6, <2>1, <2>2, <2>3
<1>12. Tracks(World, c.at, MergeAll(S), h)
  BY <1>2, <1>4, <1>10, <1>11, TracksAll
<1>13. ASSUME NEW m \in Node, NEW p \in Path
       PROVE  Tracks(World, p, files'[m][p].vv, seen'[m][p])
  <2>1. CASE m = n /\ p = c.at
    BY <1>12, <2>1, CommitRows DEF S, C, h
  <2>2. CASE ~ (m = n /\ p = c.at)
    <3>1. Tracks(World, p, files[m][p].vv, seen[m][p])
      BY DEF HInv, RowsTrack
    <3>2. files[m][p].vv \in VV
      BY CarrierTypes
    <3>3. Tracks(World, p, Merge(files[m][p].vv, CopyVV(p)), seen[m][p])
      BY <1>2, <3>1, <3>2, TracksCopy
    <3>4. /\ seen'[m][p] = seen[m][p]
          /\ files'[m][p].vv \in {files[m][p].vv,
                                  Merge(files[m][p].vv, CopyVV(p))}
      <4>1. CASE m # n
        BY <1>1, <4>1
      <4>2. CASE m = n /\ p # c.at
        BY <1>1, <4>2
      <4> QED
        BY <2>2, <4>1, <4>2
    <3> QED
      BY <3>1, <3>3, <3>4
  <2> QED
    BY <2>1, <2>2
<1> QED
  BY <1>13 DEF RowsTrack

-----------------------------------------------------------------------------
(* Tasks *)

\* A finished stage leads to a job on the same op and the same contest.
LEMMA ThenKeeps ==
  ASSUME NEW k \in Job, NEW x \in Then(k)
  PROVE  /\ x.op = k.op /\ x.contest = k.contest
         /\ x.st = "source" /\ k.op.old # NoPath
BY DEF Then, Job

\* So does a resolution that was committed or given up.
LEMMA AfterKeeps ==
  ASSUME NEW k \in Job, Resolving(k), NEW x \in After(k)
  PROVE  /\ x.op = k.op /\ x.contest = k.contest
         /\ \/ k.st = "resolve" /\ x.st = "record"
            \/ k.st = "late" /\ x.st = "source" /\ k.op.old # NoPath
<1>1. CASE k.st = "resolve"
  <2>1. After(k) = {[k EXCEPT !.st = "record"]}
    BY <1>1, Zenon DEF After
  <2> QED
    BY <1>1, <2>1 DEF Job
<1>2. CASE k.st = "late"
  <2>1. After(k) = Then(k)
    BY <1>2, Zenon DEF After
  <2> QED
    BY <1>2, <2>1, ThenKeeps
<1>3. CASE k.st = "settle"
  <2>1. After(k) = {}
    BY <1>3, Zenon DEF After
  <2> QED
    BY <2>1
<1> QED
  BY <1>1, <1>2, <1>3 DEF Resolving

\* Staging a plan changes neither the contested path nor the remote version.
LEMMA RestageKeeps ==
  ASSUME NEW c \in Contest, NEW plan
  PROVE  /\ Restage(c, plan).at = c.at
         /\ Restage(c, plan).remote = c.remote
         /\ Restage(c, plan).past = c.past
BY DEF Restage, Contest

\* The job that a pushed op starts contests the op's path with its version.
LEMMA Job0Fields ==
  ASSUME NEW o, NEW st
  PROVE  /\ Job0(o, st).st = st /\ Job0(o, st).op = o
         /\ Job0(o, st).contest.at = o.path
         /\ Job0(o, st).contest.remote.vv = o.vv
         /\ Job0(o, st).contest.past = History(o)
BY DEF Job0, Contend, EffectAt

\* One link's tasks are replaced by tasks that agree.
LEMMA JobTracks ==
  ASSUME IInv, HInv, NEW l \in Link, NEW X,
         job' = [job EXCEPT ![l] = X],
         \A n \in Node : oplog[n] \subseteq oplog'[n],
         \A x \in X : /\ x.op \in oplog[l[2]]
                      /\ Tracks(World, x.contest.at, x.contest.remote.vv,
                                x.contest.past)
  PROVE  TasksTrack(World, job') /\ Sourced(oplog', job')
<1>1. /\ job'[l] = X
      /\ \A j \in Link : j # l => job'[j] = job[j]
  BY DEF IInv, Fits
<1>2. TasksTrack(World, job')
  BY <1>1 DEF HInv, TasksTrack
<1>3. Sourced(oplog', job')
  <2> SUFFICES ASSUME NEW j \in Link, NEW k \in job'[j]
               PROVE  k.op \in oplog'[j[2]]
    BY DEF Sourced
  <2>1. j[2] \in Node
    BY LinkEnds
  <2>2. k.op \in oplog[j[2]]
    BY <1>1 DEF HInv, Sourced
  <2> QED
    BY <2>1, <2>2
<1> QED
  BY <1>2, <1>3

\* A step on one job that records nothing, given what it did to the rows.
LEMMA JobStepTracks ==
  ASSUME IInv, HInv, IInv', RowsAdvance,
         UNCHANGED <<oplog, latest, session, leaf>>,
         RowsTrack(World, files', seen'),
         NEW l \in Link, NEW X, job' = [job EXCEPT ![l] = X],
         \A x \in X : /\ x.op \in oplog[l[2]]
                      /\ Tracks(World, x.contest.at, x.contest.remote.vv,
                                x.contest.past)
  PROVE  HInv'
<1>1. TasksTrack(World, job') /\ Sourced(oplog', job')
  BY JobTracks
<1>2. AllOps' = AllOps
  BY SameOps
<1>3. /\ OpsTrack(World, oplog') /\ TasksTrack(World, leaf')
      /\ SessionsTrack(World, session') /\ Plain(oplog')
  BY DEF HInv
<1> QED
  BY <1>1, <1>2, <1>3, Carried

\* Recording an op and going on to the job state X.
LEMMA RecordTracks ==
  ASSUME IInv, HInv, IInv', RowsAdvance,
         UNCHANGED <<latest, session, leaf>>,
         NEW l \in Link, NEW o \in oplog[l[2]], o.origin = l[2],
         NEW targets, targets \subseteq {o.path}, ApplyRemote(l, o, targets),
         NEW X, job' = [job EXCEPT ![l] = X],
         \A x \in X : /\ x.op \in oplog[l[2]]
                      /\ Tracks(World, x.contest.at, x.contest.remote.vv,
                                x.contest.past)
  PROVE  HInv'
<1>1. /\ RowsTrack(World, files', seen') /\ OpsTrack(World, oplog')
      /\ AllOps' = AllOps /\ Plain(oplog')
      /\ \A n \in Node : oplog[n] \subseteq oplog'[n]
  BY ApplyTracks
<1>2. TasksTrack(World, job') /\ Sourced(oplog', job')
  BY <1>1, JobTracks
<1>3. TasksTrack(World, leaf') /\ SessionsTrack(World, session')
  BY DEF HInv
<1> QED
  BY <1>1, <1>2, <1>3, Carried

\* Deciding on a pushed op.
LEMMA ReceiveTracks ==
  ASSUME IInv, HInv, IInv', RowsAdvance, NEW l \in Link, Receive(l)
  PROVE  HInv'
<1>1. PICK o \in Delivered(l) :
        LET k == Job0(o, "resolve")
        IN  /\ \/ /\ job' = [job EXCEPT ![l] = {Job0(o, "fetch")}]
                  /\ UNCHANGED <<files, oplog, cursor, seen>>
               \/ /\ ApplyRemote(l, o, {})
                  /\ job' = [job EXCEPT ![l] = Then(k)]
               \/ /\ UNCHANGED <<files, oplog, cursor, seen>>
                  /\ \/ \E plan \in Derivable(l[1], k.contest) :
                          job' = [job EXCEPT ![l] =
                            {[k EXCEPT !.contest = Restage(@, plan)]}]
                     \/ job' = [job EXCEPT ![l] = After(k)]
            /\ UNCHANGED <<latest, session, leaf>>
  BY Zenon DEF Receive
<1> DEFINE k == Job0(o, "resolve")
           Fine(x) == /\ x.op \in oplog[l[2]]
                      /\ Tracks(World, x.contest.at, x.contest.remote.vv,
                                x.contest.past)
<1>2. l[2] \in Node /\ o \in oplog[l[2]] /\ o.origin = l[2]
  BY LinkEnds DEF Delivered
<1>3. o \in OpsUpTo(Bound)
  BY <1>2 DEF IInv, Fits
<1>4. k \in Job /\ Resolving(k)
  BY <1>3, Job0Type DEF JobsUpTo, Resolving
<1>5. Fine(k) /\ Fine(Job0(o, "fetch")) /\ k.op = o
  BY <1>2, Job0Fields DEF HInv, OpsTrack
<1> HIDE DEF k
<1>6. ASSUME NEW X, job' = [job EXCEPT ![l] = X], \A x \in X : Fine(x),
             UNCHANGED <<files, oplog, seen>>
      PROVE  HInv'
  <2>1. RowsTrack(World, files', seen')
    BY <1>6 DEF HInv
  <2> QED
    BY <1>1, <1>6, <2>1, JobStepTracks
<1>7. CASE job' = [job EXCEPT ![l] = {Job0(o, "fetch")}]
           /\ UNCHANGED <<files, oplog, cursor, seen>>
  <2> DEFINE X == {Job0(o, "fetch")}
  <2>1. job' = [job EXCEPT ![l] = X] /\ \A x \in X : Fine(x)
    BY <1>5, <1>7
  <2> HIDE DEF X
  <2> QED
    BY <1>6, <1>7, <2>1
<1>8. CASE ApplyRemote(l, o, {}) /\ job' = [job EXCEPT ![l] = Then(k)]
  <2>1. \A x \in Then(k) : Fine(x)
    BY <1>4, <1>5, ThenKeeps
  <2> DEFINE T == {}
  <2>2. ApplyRemote(l, o, T) /\ T \subseteq {o.path}
    BY <1>8
  <2> HIDE DEF T
  <2> QED
    BY <1>1, <1>2, <1>8, <2>1, <2>2, RecordTracks
<1>9. ASSUME NEW plan,
             job' = [job EXCEPT ![l] = {[k EXCEPT !.contest = Restage(@, plan)]}],
             UNCHANGED <<files, oplog, cursor, seen>>
      PROVE  HInv'
  <2> DEFINE x == [k EXCEPT !.contest = Restage(@, plan)]
             X == {x}
  <2>1. Fine(x)
    <3>1. /\ x.op = k.op /\ x.contest.at = k.contest.at
          /\ x.contest.remote = k.contest.remote
          /\ x.contest.past = k.contest.past
      <4>1. k.contest \in Contest /\ x.op = k.op
            /\ x.contest = Restage(k.contest, plan)
        BY <1>4 DEF Job
      <4> HIDE DEF x
      <4> QED
        BY <4>1, RestageKeeps
    <3> HIDE DEF x
    <3> QED
      BY <1>5, <3>1
  <2>2. job' = [job EXCEPT ![l] = X] /\ \A y \in X : Fine(y)
    BY <1>9, <2>1
  <2> HIDE DEF X
  <2> QED
    BY <1>6, <1>9, <2>2
<1>10. CASE job' = [job EXCEPT ![l] = After(k)]
            /\ UNCHANGED <<files, oplog, cursor, seen>>
  <2>1. \A x \in After(k) : Fine(x)
    BY <1>4, <1>5, AfterKeeps
  <2> QED
    BY <1>6, <1>10, <2>1
<1> QED
  BY <1>1, <1>7, <1>8, <1>9, <1>10 DEF k

\* Committing or recording a job's op.
LEMMA RecordingTracks ==
  ASSUME IInv, OInv, HInv, IInv', RowsAdvance, NEW l \in Link,
         Fetched(l) \/ Record(l)
  PROVE  HInv'
<1>1. PICK k \in job[l] :
        /\ \E targets \in {{k.op.path}, {}} : ApplyRemote(l, k.op, targets)
        /\ \E X \in {{[k EXCEPT !.st = "late"]}, Then(k), {}} :
             job' = [job EXCEPT ![l] = X]
        /\ UNCHANGED <<latest, session, leaf>>
  BY DEF Fetched, Record
<1>2. k \in Job /\ k.op \in oplog[l[2]] /\ k.op.origin = l[2]
  BY DEF IInv, Fits, JobsUpTo, OInv, InOrder, HInv, Sourced
<1>3. PICK X \in {{[k EXCEPT !.st = "late"]}, Then(k), {}} :
        job' = [job EXCEPT ![l] = X]
  BY <1>1
<1>4. \A x \in X : x.op = k.op /\ x.contest = k.contest
  <2>1. [k EXCEPT !.st = "late"].op = k.op
        /\ [k EXCEPT !.st = "late"].contest = k.contest
    BY <1>2 DEF Job
  <2> QED
    BY <1>2, <1>3, <2>1, ThenKeeps
<1>5. Tracks(World, k.contest.at, k.contest.remote.vv, k.contest.past)
  BY DEF HInv, TasksTrack
<1>6. PICK targets \in {{k.op.path}, {}} : ApplyRemote(l, k.op, targets)
  BY <1>1
<1>7. targets \subseteq {k.op.path}
  BY <1>6
<1>8. \A x \in X : /\ x.op \in oplog[l[2]]
                   /\ Tracks(World, x.contest.at, x.contest.remote.vv,
                             x.contest.past)
  BY <1>2, <1>4, <1>5
<1> QED
  BY <1>1, <1>2, <1>3, <1>6, <1>7, <1>8, RecordTracks

\* A job goes to its next stage, or to the source of its rename.
LEMMA WorkingTracks ==
  ASSUME IInv, HInv, IInv', RowsAdvance, NEW l \in Link,
         Quarantine(l) \/ ResolveOp(l) \/ AbandonOp(l) \/ CheckSource(l)
  PROVE  HInv'
<1> DEFINE Fine(x) == /\ x.op \in oplog[l[2]]
                      /\ Tracks(World, x.contest.at, x.contest.remote.vv,
                                x.contest.past)
<1>1. UNCHANGED <<oplog, latest, session, leaf>>
  BY DEF Quarantine, ResolveOp, AbandonOp, CheckSource
<1>2. \A k \in job[l] : /\ k \in Job /\ k \in JobsUpTo(Bound)
                        /\ k.contest \in ContestsUpTo(Bound) /\ Fine(k)
  BY DEF IInv, Fits, JobsUpTo, HInv, TasksTrack, Sourced
<1>3. RowsTrack(World, files, seen) /\ l[1] \in Node /\ l[2] \in Node
  BY LinkEnds DEF HInv
<1>4. ASSUME NEW X, job' = [job EXCEPT ![l] = X], \A x \in X : Fine(x),
             RowsTrack(World, files', seen')
      PROVE  HInv'
  BY <1>1, <1>4, JobStepTracks
<1>5. ASSUME NEW k \in job[l], NEW X, job' = [job EXCEPT ![l] = X],
             \A x \in X : /\ x.op = k.op
                          /\ x.contest.at = k.contest.at
                          /\ x.contest.remote = k.contest.remote
                          /\ x.contest.past = k.contest.past,
             RowsTrack(World, files', seen')
      PROVE  HInv'
  BY <1>2, <1>4, <1>5
<1> HIDE DEF Fine
<1>6. CASE Quarantine(l)
  <2>1. PICK k \in job[l] :
          /\ job' = [job EXCEPT ![l] = {[k EXCEPT !.st = "quarantine"]}]
          /\ UNCHANGED <<files, seen>>
    BY <1>6 DEF Quarantine
  <2> DEFINE X == {[k EXCEPT !.st = "quarantine"]}
  <2>2. \A x \in X : x.op = k.op /\ x.contest = k.contest
    BY <1>2, <2>1 DEF Job
  <2>3. job' = [job EXCEPT ![l] = X] /\ RowsTrack(World, files', seen')
    BY <1>3, <2>1
  <2> HIDE DEF X
  <2> QED
    BY <1>5, <2>2, <2>3
<1>7. CASE AbandonOp(l)
  <2>1. PICK k \in job[l] :
          /\ Resolving(k) /\ job' = [job EXCEPT ![l] = After(k)]
          /\ UNCHANGED <<files, seen>>
    BY <1>7 DEF AbandonOp
  <2>2. \A x \in After(k) : x.op = k.op /\ x.contest = k.contest
    BY <1>2, <2>1, AfterKeeps
  <2> QED
    BY <1>3, <1>5, <2>1, <2>2
<1>8. CASE ResolveOp(l)
  <2>1. PICK k \in job[l] :
          /\ Resolving(k)
          /\ \/ /\ Commit(l[1], k.contest)
                /\ job' = [job EXCEPT ![l] = After(k)]
             \/ \E plan \in Derivable(l[1], k.contest) :
                  /\ job' = [job EXCEPT ![l] =
                       {[k EXCEPT !.contest = Restage(@, plan)]}]
                  /\ UNCHANGED <<files, seen>>
             \/ /\ job' = [job EXCEPT ![l] = After(k)]
                /\ UNCHANGED <<files, seen>>
    BY <1>8, Zenon DEF ResolveOp
  <2>2. \A x \in After(k) : x.op = k.op /\ x.contest = k.contest
    BY <1>2, <2>1, AfterKeeps
  <2>3. CASE Commit(l[1], k.contest) /\ job' = [job EXCEPT ![l] = After(k)]
    <3>1. RowsTrack(World, files', seen')
      BY <1>2, <1>3, <2>3, CommitTracks DEF Fine
    <3> QED
      BY <1>5, <2>2, <2>3, <3>1
  <2>4. ASSUME NEW plan,
               job' = [job EXCEPT ![l] =
                        {[k EXCEPT !.contest = Restage(@, plan)]}],
               UNCHANGED <<files, seen>>
        PROVE  HInv'
    <3> DEFINE y == [k EXCEPT !.contest = Restage(@, plan)]
               X == {y}
    <3>1. /\ y.op = k.op /\ y.contest.at = k.contest.at
          /\ y.contest.remote = k.contest.remote
          /\ y.contest.past = k.contest.past
      <4>1. k \in Job /\ k.contest \in Contest
        BY <1>2 DEF Job
      <4>2. y.op = k.op /\ y.contest = Restage(k.contest, plan)
        BY <4>1 DEF Job
      <4> HIDE DEF y
      <4> QED
        BY <4>1, <4>2, RestageKeeps
    <3>2. job' = [job EXCEPT ![l] = X] /\ RowsTrack(World, files', seen')
      BY <1>3, <2>4
    <3> HIDE DEF y
    <3>3. \A x \in X : Fine(x)
      BY <1>2, <3>1 DEF Fine
    <3> HIDE DEF X
    <3> QED
      BY <1>4, <3>2, <3>3
  <2>5. CASE job' = [job EXCEPT ![l] = After(k)] /\ UNCHANGED <<files, seen>>
    BY <1>3, <1>5, <2>2, <2>5
  <2> QED
    BY <2>1, <2>3, <2>4, <2>5
<1>9. CASE CheckSource(l)
  <2>1. PICK k \in job[l] :
          /\ k.st = "source"
          /\ LET old == k.op.old
             IN  job' = [job EXCEPT ![l] =
                   IF Decide(files[l[1]][old], k.op.vv) = "Concurrent"
                   THEN {[k EXCEPT !.st = "settle",
                                   !.contest = Contend(old,
                                                       EffectAt(k.op, old),
                                                       History(k.op))]}
                   ELSE {}]
          /\ UNCHANGED <<files, seen>>
    BY <1>9 DEF CheckSource
  <2> DEFINE old == k.op.old
             c == Contend(old, EffectAt(k.op, old), History(k.op))
             y == [k EXCEPT !.st = "settle", !.contest = c]
             X == IF Decide(files[l[1]][old], k.op.vv) = "Concurrent"
                  THEN {y} ELSE {}
  <2>2. k.op \in oplog[l[2]] /\ old \in Path
    BY <1>2, <2>1 DEF Fine, JobsUpTo
  <2>3. Renames
    BY <1>3, <2>2, ReplicationAssumption DEF HInv, Plain
  <2>4. Tracks(World, k.op.path, k.op.vv, History(k.op))
    BY <1>3, <2>2 DEF HInv, OpsTrack
  <2>5. Tracks(World, old, k.op.vv, History(k.op))
    BY <2>3, <2>4, TracksAnywhere
  <2>6. c.at = old /\ c.remote.vv = k.op.vv /\ c.past = History(k.op)
    BY DEF Contend, EffectAt
  <2>7. y.op = k.op /\ y.contest = c
    BY <1>2 DEF Job
  <2>8. job' = [job EXCEPT ![l] = X]
    BY <2>1
  <2> HIDE DEF c, y
  <2>9. \A x \in X : Fine(x)
    BY <2>2, <2>5, <2>6, <2>7 DEF Fine
  <2> HIDE DEF X
  <2> QED
    BY <1>3, <1>4, <2>1, <2>8, <2>9
<1> QED
  BY <1>6, <1>7, <1>8, <1>9

\* A step of a session or of its leaf, given what it did to the rows.
LEMMA SyncTracks ==
  ASSUME IInv, HInv, IInv', RowsAdvance,
         UNCHANGED <<oplog, latest>>,
         \A j \in Link : job'[j] \subseteq job[j],
         RowsTrack(World, files', seen'),
         TasksTrack(World, leaf'), SessionsTrack(World, session')
  PROVE  HInv'
<1>1. TasksTrack(World, job') /\ Sourced(oplog', job')
  BY DEF HInv, TasksTrack, Sourced
<1>2. AllOps' = AllOps
  BY SameOps
<1>3. OpsTrack(World, oplog') /\ Plain(oplog')
  BY DEF HInv
<1> QED
  BY <1>1, <1>2, <1>3, Carried

\* A snapshot agrees because the responder's rows do.
LEMMA SnapshotTracks ==
  ASSUME IInv, HInv, NEW l \in Link, Connect(l) \/ PeriodicReconcile(l)
  PROVE  SessionsTrack(World, session')
<1>1. session' = [session EXCEPT ![l] = {Snapshot(l[2])}] /\ l[2] \in Node
  BY LinkEnds DEF Connect, PeriodicReconcile
<1>2. /\ session'[l] = {Snapshot(l[2])}
      /\ \A j \in Link : j # l => session'[j] = session[j]
  BY <1>1 DEF IInv, Fits
<1>3. \A p \in Path : Tracks(World, p, Snapshot(l[2]).rows[p].vv,
                             Snapshot(l[2]).seen[p])
  BY <1>1 DEF Snapshot, HInv, RowsTrack
<1> QED
  BY <1>2, <1>3 DEF HInv, SessionsTrack

\* Deciding on a leaf.
LEMMA HandleLeafTracks ==
  ASSUME IInv, HInv, IInv', RowsAdvance, NEW l \in Link, NEW p \in Path,
         HandleLeaf(l, p)
  PROVE  HInv'
<1>1. PICK s \in session[l] :
        LET d == Decide(files[l[1]][p], s.rows[p].vv)
            k == Contend(p, s.rows[p], s.seen[p])
        IN  /\ session' = [session EXCEPT ![l] = {[s EXCEPT !.rows[p] = NoRow]}]
            /\ UNCHANGED <<files, oplog, latest, job, seen>>
            /\ \/ /\ d = "Apply"
                  /\ leaf' = [leaf EXCEPT ![l] =
                       {[st |-> "fetch", contest |-> k]}]
               \/ /\ d = "Concurrent"
                  /\ \E plan \in Derivable(l[1], k) :
                       leaf' = [leaf EXCEPT ![l] =
                         {[st |-> "resolve", contest |-> Restage(k, plan)]}]
               \/ /\ d = "Concurrent"
                  /\ UNCHANGED leaf
  BY Zenon DEF HandleLeaf
<1> DEFINE k == Contend(p, s.rows[p], s.seen[p])
<1>2. /\ s \in Session /\ s \in SessionsUpTo(Bound) /\ l[1] \in Node
      /\ Bound \in VV
  BY LinkEnds, BoundIsVV DEF IInv, Fits, SessionsUpTo, Counters, CopyBound
<1>3. s.rows[p] # NoRow
  <2>1. Decide(files[l[1]][p], s.rows[p].vv) # "Ignore"
    BY <1>1
  <2>2. ~ Leq(s.rows[p].vv, files[l[1]][p].vv)
    BY <2>1, DecideCases
  <2>3. Leq(Zero, files[l[1]][p].vv)
    BY <1>2, CarrierTypes DEF Zero, Leq, VV
  <2> QED
    BY <2>2, <2>3 DEF NoRow
<1>4. Tracks(World, p, s.rows[p].vv, s.seen[p])
  BY <1>3 DEF HInv, SessionsTrack
<1>5. k.at = p /\ k.remote = s.rows[p] /\ k.past = s.seen[p] /\ k \in Contest
  <2>1. s.rows[p] \in VersionsUpTo(Bound) /\ s.seen[p] \in SUBSET OpId
    BY <1>2 DEF SessionsUpTo, Session
  <2>2. k \in ContestsUpTo(Bound)
    BY <2>1, ContendType
  <2> QED
    BY <2>2 DEF Contend, ContestsUpTo
<1> HIDE DEF k
<1>6. SessionsTrack(World, session')
  <2> DEFINE t == [s EXCEPT !.rows[p] = NoRow]
  <2>1. /\ session'[l] = {t}
        /\ \A j \in Link : j # l => session'[j] = session[j]
    BY <1>1 DEF IInv, Fits
  <2>2. /\ \A q \in Path : q # p => t.rows[q] = s.rows[q]
        /\ t.rows[p] = NoRow /\ t.seen = s.seen
    BY <1>2 DEF Session
  <2> HIDE DEF t
  <2>3. \A q \in Path : t.rows[q] # NoRow =>
          Tracks(World, q, t.rows[q].vv, t.seen[q])
    <3> SUFFICES ASSUME NEW q \in Path, t.rows[q] # NoRow
                 PROVE  Tracks(World, q, t.rows[q].vv, t.seen[q])
      OBVIOUS
    <3>1. q # p /\ t.rows[q] = s.rows[q] /\ t.seen[q] = s.seen[q]
      BY <2>2
    <3>2. Tracks(World, q, s.rows[q].vv, s.seen[q])
      BY <3>1 DEF HInv, SessionsTrack
    <3> QED
      BY <3>1, <3>2
  <2> QED
    BY <2>1, <2>3 DEF HInv, SessionsTrack
<1>7. ASSUME NEW y, leaf' = [leaf EXCEPT ![l] = {y}],
             y.contest.at = p, y.contest.remote = s.rows[p],
             y.contest.past = s.seen[p]
      PROVE  TasksTrack(World, leaf')
  <2>1. leaf'[l] = {y} /\ \A j \in Link : j # l => leaf'[j] = leaf[j]
    BY <1>7 DEF IInv, Fits
  <2> QED
    BY <1>4, <1>7, <2>1 DEF HInv, TasksTrack
<1>8. TasksTrack(World, leaf')
  <2>1. CASE leaf' = [leaf EXCEPT ![l] = {[st |-> "fetch", contest |-> k]}]
    BY <1>5, <1>7, <2>1
  <2>2. ASSUME NEW plan, leaf' = [leaf EXCEPT ![l] =
                 {[st |-> "resolve", contest |-> Restage(k, plan)]}]
        PROVE  TasksTrack(World, leaf')
    <3> DEFINE c == Restage(k, plan)
    <3>1. c.at = p /\ c.remote = s.rows[p] /\ c.past = s.seen[p]
      BY <1>5, RestageKeeps
    <3> HIDE DEF c
    <3>2. leaf' = [leaf EXCEPT ![l] = {[st |-> "resolve", contest |-> c]}]
      BY <2>2 DEF c
    <3> QED
      BY <1>7, <3>1, <3>2
  <2>3. CASE UNCHANGED leaf
    BY <2>3 DEF HInv
  <2> QED
    BY <1>1, <2>1, <2>2, <2>3 DEF k
<1>9. RowsTrack(World, files', seen') /\ \A j \in Link : job'[j] \subseteq job[j]
  BY <1>1 DEF HInv
<1> QED
  BY <1>1, <1>6, <1>8, <1>9, SyncTracks

\* reconcile_upsert merges the leaf's vector and its history.
LEMMA UpsertTracks ==
  ASSUME IInv, HInv, IInv', RowsAdvance, NEW l \in Link, Upsert(l)
  PROVE  HInv'
<1>1. PICK k \in leaf[l] :
        LET n == l[1]
            c == k.contest
            d == Decide(files[n][c.at], c.remote.vv)
        IN  /\ files' = [files EXCEPT ![n][c.at] =
                 IF d = "Apply" THEN Adopt(@, c.remote) ELSE @]
            /\ seen' = [seen EXCEPT ![n][c.at] =
                 IF d = "Apply" THEN @ \cup c.past ELSE @]
            /\ leaf' = [leaf EXCEPT ![l] =
                 IF d = "Concurrent" THEN {[k EXCEPT !.st = "resolve"]} ELSE {}]
            /\ UNCHANGED <<oplog, latest, job, session>>
  BY DEF Upsert
<1> DEFINE n == l[1]
           c == k.contest
           d == Decide(files[n][c.at], c.remote.vv)
<1>2. /\ n \in Node /\ k \in Leaf /\ c.at \in Path /\ c.remote.vv \in VV
      /\ World.ops \subseteq Op
  BY LinkEnds, CarrierTypes, WorldType DEF IInv, Fits, LeavesUpTo
<1>3. /\ files \in [Node -> [Path -> Version]]
      /\ seen \in [Node -> [Path -> SUBSET OpId]]
      /\ leaf \in [Link -> SUBSET Leaf]
  BY DEF IInv, Fits, Counters, VersionsUpTo, LeavesUpTo
<1>4. Tracks(World, c.at, c.remote.vv, c.past)
  BY DEF HInv, TasksTrack
<1>5. RowsTrack(World, files', seen')
  <2> SUFFICES ASSUME NEW m \in Node, NEW p \in Path
               PROVE  Tracks(World, p, files'[m][p].vv, seen'[m][p])
    BY DEF RowsTrack
  <2>1. Tracks(World, p, files[m][p].vv, seen[m][p])
    BY DEF HInv, RowsTrack
  <2>2. CASE m = n /\ p = c.at /\ d = "Apply"
    <3>1. files'[m][p] = Adopt(files[m][p], c.remote)
      BY <1>1, <1>2, <1>3, <2>2
    <3>2. seen'[m][p] = seen[m][p] \cup c.past
      BY <1>1, <1>2, <1>3, <2>2
    <3>3. files'[m][p].vv = Merge(files[m][p].vv, c.remote.vv)
      BY <3>1 DEF Adopt
    <3>4. files[m][p].vv \in VV
      BY CarrierTypes
    <3>5. Tracks(World, p, Merge(files[m][p].vv, c.remote.vv),
                 seen[m][p] \cup c.past)
      <4> HIDE DEF c
      <4> QED
        BY <1>2, <1>4, <2>1, <2>2, <3>4, TracksMerge
    <3> QED
      BY <3>2, <3>3, <3>5
  <2>3. CASE ~ (m = n /\ p = c.at /\ d = "Apply")
    <3>1. files'[m][p] = files[m][p] /\ seen'[m][p] = seen[m][p]
      BY <1>1, <1>2, <1>3, <2>3
    <3> QED
      BY <2>1, <3>1
  <2> QED
    BY <2>2, <2>3
<1>6. TasksTrack(World, leaf')
  <2>1. /\ \A x \in leaf'[l] : x = [k EXCEPT !.st = "resolve"]
        /\ \A j \in Link : j # l => leaf'[j] = leaf[j]
    BY <1>1, <1>3
  <2>2. [k EXCEPT !.st = "resolve"].contest = k.contest
    BY <1>2 DEF Leaf
  <2>3. \A x \in leaf'[l] : x.contest = k.contest
    BY <2>1, <2>2
  <2> QED
    BY <1>4, <2>1, <2>3 DEF HInv, TasksTrack
<1>7. SessionsTrack(World, session') /\ \A j \in Link : job'[j] \subseteq job[j]
  BY <1>1 DEF HInv
<1> QED
  BY <1>1, <1>5, <1>6, <1>7, SyncTracks

\* A leaf's resolution.
LEMMA ResolveLeafTracks ==
  ASSUME IInv, HInv, IInv', RowsAdvance, NEW l \in Link, ResolveLeaf(l)
  PROVE  HInv'
<1>1. PICK k \in leaf[l] :
        /\ \/ /\ Commit(l[1], k.contest)
              /\ leaf' = [leaf EXCEPT ![l] = {}]
           \/ \E plan \in Derivable(l[1], k.contest) :
                /\ leaf' = [leaf EXCEPT ![l] =
                     {[k EXCEPT !.contest = Restage(@, plan)]}]
                /\ UNCHANGED <<files, seen>>
           \/ /\ leaf' = [leaf EXCEPT ![l] = {}]
              /\ UNCHANGED <<files, seen>>
        /\ UNCHANGED <<oplog, latest, job, session>>
  BY Zenon DEF ResolveLeaf
<1>2. /\ l[1] \in Node /\ k \in Leaf /\ k.contest \in ContestsUpTo(Bound)
      /\ leaf \in [Link -> SUBSET Leaf]
  BY LinkEnds DEF IInv, Fits, LeavesUpTo
<1>3. /\ Tracks(World, k.contest.at, k.contest.remote.vv, k.contest.past)
      /\ RowsTrack(World, files, seen)
  BY DEF HInv, TasksTrack
<1>4. SessionsTrack(World, session') /\ \A j \in Link : job'[j] \subseteq job[j]
  BY <1>1 DEF HInv
<1>5. ASSUME NEW X, leaf' = [leaf EXCEPT ![l] = X],
             \A x \in X : Tracks(World, x.contest.at, x.contest.remote.vv,
                                 x.contest.past)
      PROVE  TasksTrack(World, leaf')
  <2>1. leaf'[l] = X /\ \A j \in Link : j # l => leaf'[j] = leaf[j]
    BY <1>2, <1>5
  <2> QED
    BY <1>5, <2>1 DEF HInv, TasksTrack
<1>6. RowsTrack(World, files', seen')
  <2>1. CASE Commit(l[1], k.contest)
    <3> DEFINE c == k.contest
    <3>1. c \in ContestsUpTo(Bound) /\ Commit(l[1], c)
          /\ Tracks(World, c.at, c.remote.vv, c.past)
      BY <1>2, <1>3, <2>1
    <3> HIDE DEF c
    <3> QED
      BY <1>2, <3>1, CommitTracks
  <2>2. CASE UNCHANGED <<files, seen>>
    BY <1>3, <2>2
  <2> QED
    BY <1>1, <2>1, <2>2
<1>7. TasksTrack(World, leaf')
  <2>1. CASE leaf' = [leaf EXCEPT ![l] = {}]
    <3> DEFINE X == {}
    <3>1. leaf' = [leaf EXCEPT ![l] = X] /\ \A x \in X : FALSE
      BY <2>1
    <3> HIDE DEF X
    <3> QED
      BY <1>5, <3>1
  <2>2. ASSUME NEW plan, leaf' = [leaf EXCEPT ![l] =
                 {[k EXCEPT !.contest = Restage(@, plan)]}]
        PROVE  TasksTrack(World, leaf')
    <3> DEFINE y == [k EXCEPT !.contest = Restage(@, plan)]
               X == {y}
    <3>1. k.contest \in Contest /\ y.contest = Restage(k.contest, plan)
      BY <1>2 DEF Leaf
    <3>2. leaf' = [leaf EXCEPT ![l] = X]
      BY <2>2
    <3> HIDE DEF y
    <3>3. /\ y.contest.at = k.contest.at /\ y.contest.past = k.contest.past
          /\ y.contest.remote = k.contest.remote
      BY <3>1, RestageKeeps
    <3>4. \A x \in X : Tracks(World, x.contest.at, x.contest.remote.vv,
                              x.contest.past)
      BY <1>3, <3>3
    <3> HIDE DEF X
    <3> QED
      BY <1>5, <3>2, <3>4
  <2> QED
    BY <1>1, <2>1, <2>2
<1> QED
  BY <1>1, <1>4, <1>6, <1>7, SyncTracks

\* Ending what is in flight, and starting or ending a session.
LEMMA EndingTracks ==
  ASSUME IInv, HInv, IInv', RowsAdvance,
         UNCHANGED <<files, oplog, latest, seen>>,
         \A j \in Link : job'[j] \subseteq job[j] /\ leaf'[j] \subseteq leaf[j],
         SessionsTrack(World, session')
  PROVE  HInv'
<1>1. RowsTrack(World, files', seen') /\ TasksTrack(World, leaf')
  BY DEF HInv, TasksTrack
<1> QED
  BY <1>1, SyncTracks

-----------------------------------------------------------------------------
(* Local operations *)

\* Every op there is has happened, and is in its author's past from then on.
LEMMA OpsHappened ==
  ASSUME IInv, HInv, NEW o \in AllOps
  PROVE  /\ o \in Op /\ o \in oplog[o.origin] /\ o.seq <= latest[o.origin]
         /\ Tracks(World, o.path, o.vv, History(o))
<1>1. o \in Op /\ o.origin \in Node /\ o \in oplog[o.origin]
  BY WorldType DEF AllOps, Originated, Op
<1>2. Tracks(World, o.path, o.vv, History(o))
  BY <1>1 DEF HInv, OpsTrack
<1>3. <<o.origin, o.seq>> \in History(o)
  BY DEF History, OpIdOf
<1>4. <<o.origin, o.seq>>[2] <= latest[<<o.origin, o.seq>>[1]]
  BY <1>2, <1>3, WorldType DEF Tracks, Past
<1> QED
  BY <1>1, <1>2, <1>4

\* A new op a of n, made from the vector u and the history that u stands for.
LEMMA OpBorn ==
  ASSUME IInv, HInv, IInv', RowsAdvance,
         NEW n \in Node, NEW a \in Op, NEW u \in VV,
         a.origin = n, a.seq = latest[n] + 1, a.vv = Increment(u, n),
         Tracks(World, a.path, u, a.past),
         ~ Renames => u = files[n][a.path].vv,
         files'[n][a.path].vv = a.vv,
         latest' = [latest EXCEPT ![n] = @ + 1],
         AllOps' = AllOps \cup {a}
  PROVE  Tracks(World', a.path, a.vv, History(a))
<1> DEFINE w == World
           x == World'
           p == a.path
<1>1. /\ w.ops = AllOps /\ w.rows = files /\ w.top = latest
      /\ x.ops = AllOps \cup {a} /\ x.rows = files' /\ x.top = latest'
  BY DEF World
<1>2. /\ n \in Id /\ p \in Path /\ a.past \in SUBSET OpId /\ a.vv \in VV
      /\ latest \in [Node -> Nat]
  BY ReplicationAssumption DEF Op, IInv, Counters
<1>3. /\ Leq(u, a.vv) /\ a.vv[n] = u[n] + 1
      /\ \A i \in Id : i # n => a.vv[i] = u[i]
  <2>1. Less(u, a.vv)
    BY <1>2, IncrementAdvances
  <2> QED
    BY <1>2, <2>1 DEF Less, Increment, VV
<1>4. History(a) = a.past \cup {<<n, latest[n] + 1>>}
  BY DEF History, OpIdOf
<1>5. \A i \in a.past : i \in OpId /\ i[2] <= latest[i[1]]
  BY <1>1, <1>2 DEF Tracks, Past
<1> HIDE DEF w, x
<1>6. Past(x, History(a))
  <2> SUFFICES ASSUME NEW i \in History(a) PROVE i[2] <= latest'[i[1]]
    BY <1>1 DEF Past
  <2>1. CASE i \in a.past
    <3>1. /\ i[1] \in Node /\ i[2] \in Nat /\ i[2] <= latest[i[1]]
          /\ latest[i[1]] \in Nat
      BY <1>2, <1>5, <2>1 DEF OpId
    <3>2. latest'[i[1]] \in Nat /\ latest[i[1]] <= latest'[i[1]]
      BY <1>2, <3>1
    <3> QED
      BY <3>1, <3>2
  <2>2. CASE i = <<n, latest[n] + 1>>
    <3>1. i[1] = n /\ i[2] = latest[n] + 1 /\ latest'[n] = latest[n] + 1
      BY <1>2, <2>2
    <3>2. latest[n] \in Nat
      BY <1>2
    <3> QED
      BY <3>1, <3>2
  <2> QED
    BY <1>4, <2>1, <2>2
<1>7. Covers(x, a.vv, History(a))
  <2> SUFFICES ASSUME NEW o \in AllOps, OpIdOf(o) \in History(a)
               PROVE  Leq(o.vv, a.vv)
    BY <1>1, <1>2, LeqReflexive DEF Covers
  <2>1. o \in Op /\ o.seq <= latest[o.origin]
    BY OpsHappened
  <2>2. OpIdOf(o) # <<n, latest[n] + 1>>
    <3> SUFFICES ASSUME o.origin = n, o.seq = latest[n] + 1 PROVE FALSE
      BY DEF OpIdOf
    <3>1. latest[n] \in Nat
      BY <1>2
    <3> QED
      BY <2>1, <3>1
  <2>3. OpIdOf(o) \in a.past
    BY <1>4, <2>2
  <2>4. Leq(o.vv, u) /\ o.vv \in VV
    BY <1>1, <2>1, <2>3 DEF Tracks, Covers, w, Op
  <2> QED
    BY <1>2, <1>3, <2>4, LeqTransitive
<1>8. ASSUME ~ Renames PROVE Knows(x, p, a.vv, History(a))
  <2> SUFFICES ASSUME NEW o \in AllOps, o.path = p,
                      o.vv[o.origin] <= a.vv[o.origin]
               PROVE  OpIdOf(o) \in a.past
    BY <1>1 DEF Knows, History
  <2>1. /\ o \in Op /\ o.origin \in Id /\ o.vv \in VV
        /\ Tracks(World, o.path, o.vv, History(o))
    BY OpsHappened, ReplicationAssumption DEF Op
  <2>2. o.vv[o.origin] <= u[o.origin]
    <3>1. CASE o.origin = n
      <4>1. o.vv[n] <= files[n][p].vv[n]
        BY <1>1, <1>8, <2>1 DEF Tracks, Owned, w
      <4> QED
        BY <1>8, <3>1, <4>1
    <3>2. CASE o.origin # n
      BY <1>3, <2>1, <3>2
    <3> QED
      BY <3>1, <3>2
  <2> QED
    BY <1>1, <1>8, <2>2 DEF Tracks, Knows, w
<1>9. ASSUME ~ Renames PROVE Owned(x, p, a.vv)
  <2> SUFFICES ASSUME NEW m \in Node
               PROVE  a.vv[m] <= files'[m][p].vv[m]
    BY <1>1 DEF Owned
  <2>1. m \in Id /\ a.vv[m] \in Nat
    BY <1>2, ReplicationAssumption DEF VV
  <2>2. CASE m = n
    BY <2>1, <2>2
  <2>3. CASE m # n
    <3>1. a.vv[m] = u[m] /\ u[m] <= files[m][p].vv[m]
      BY <1>1, <1>3, <1>9, <2>1, <2>3 DEF Tracks, Owned, w
    <3>2. /\ files[m][p].vv \in VV /\ Leq(files[m][p].vv, files'[m][p].vv)
          /\ files'[m][p].vv \in VV
      BY <1>2, CarrierTypes, RowsForward
         DEF IInv, Fits, VersionsUpTo, Version
    <3>3. /\ files[m][p].vv[m] \in Nat /\ files'[m][p].vv[m] \in Nat
          /\ files[m][p].vv[m] <= files'[m][p].vv[m]
      BY <2>1, <3>2 DEF VV, Leq
    <3> QED
      BY <2>1, <3>1, <3>3
  <2> QED
    BY <2>2, <2>3
<1>10. Tracks(x, p, a.vv, History(a))
  BY <1>6, <1>7, <1>8, <1>9 DEF Tracks
<1> QED
  BY <1>10 DEF x

\* Originating the op a: the rows it touches embody it, all others and
\* everything in flight know nothing of it.
LEMMA OriginTracks ==
  ASSUME IInv, HInv, IInv', RowsAdvance,
         NEW n \in Node, NEW a \in Op, NEW u \in VV,
         a.origin = n, a.seq = latest[n] + 1, a.vv = Increment(u, n),
         Tracks(World, a.path, u, a.past),
         ~ Renames => u = files[n][a.path].vv /\ a.old = NoPath,
         files'[n][a.path].vv = a.vv,
         oplog' = [oplog EXCEPT ![n] = @ \cup {a}],
         latest' = [latest EXCEPT ![n] = @ + 1],
         UNCHANGED <<job, session, leaf>>,
         \A m \in Node, p \in Path :
           \/ files'[m][p].vv = files[m][p].vv /\ seen'[m][p] = seen[m][p]
           \/ /\ files'[m][p].vv = a.vv /\ seen'[m][p] = History(a)
              /\ Renames \/ p = a.path
  PROVE  HInv'
<1> DEFINE w == World
           x == World'
<1>1. oplog \in [Node -> SUBSET Op] /\ latest \in [Node -> Nat]
  BY DEF IInv, Fits, OpsUpTo, Counters
<1>2. /\ oplog'[n] = oplog[n] \cup {a}
      /\ \A m \in Node : m # n => oplog'[m] = oplog[m]
      /\ \A m \in Node : oplog[m] \subseteq oplog'[m]
      /\ \A m \in Node : \A o \in oplog'[m] : o \in oplog[m] \/ o = a
  BY <1>1
<1>3. AllOps' = AllOps \cup {a}
  <2>1. \A m \in Node : Originated(m)' = IF m = n THEN Originated(m) \cup {a}
                                         ELSE Originated(m)
    BY <1>2 DEF Originated
  <2> QED
    BY <2>1 DEF AllOps
<1>4. Tracks(World', a.path, a.vv, History(a))
  BY <1>3, OpBorn
<1>5. /\ w.ops = AllOps /\ w.rows = files /\ w.top = latest
      /\ x.ops = w.ops \cup {a} /\ x.rows = files' /\ x.top = latest'
  BY <1>3 DEF World
<1>6. \A m \in Node, p \in Path :
        /\ files[m][p].vv \in VV /\ files'[m][p].vv \in VV
        /\ Leq(files[m][p].vv, files'[m][p].vv)
  <2>1. \A m \in Node, p \in Path : files'[m][p].vv \in VV
    BY DEF IInv, Fits, VersionsUpTo, Version
  <2> QED
    BY <2>1, CarrierTypes, RowsForward
<1>7. ~ Renames => a.vv[n] = files[n][a.path].vv[n] + 1
  BY ReplicationAssumption DEF Increment, VV
<1> HIDE DEF w, x
<1>8. ASSUME NEW p \in Path, NEW v \in VV, NEW h \in SUBSET OpId,
             Tracks(w, p, v, h)
      PROVE  Tracks(x, p, v, h)
  <2>1. /\ w.top \in [Node -> Nat] /\ a.seq = w.top[a.origin] + 1
        /\ x.top = [w.top EXCEPT ![a.origin] = @ + 1]
        /\ ~ Renames => a.vv[a.origin]
                          = w.rows[a.origin][a.path].vv[a.origin] + 1
    BY <1>1, <1>5, <1>7
  <2>2. \A m \in Node : /\ w.rows[m][p].vv \in VV /\ x.rows[m][p].vv \in VV
                        /\ Leq(w.rows[m][p].vv, x.rows[m][p].vv)
    BY <1>5, <1>6
  <2>3. x.ops = w.ops \cup {a}
    BY <1>5
  <2> QED
    BY <1>8, <2>1, <2>2, <2>3, TracksNew
<1>9. RowsTrack(x, files', seen')
  <2> SUFFICES ASSUME NEW m \in Node, NEW p \in Path
               PROVE  Tracks(x, p, files'[m][p].vv, seen'[m][p])
    BY DEF RowsTrack
  <2>1. CASE files'[m][p].vv = files[m][p].vv /\ seen'[m][p] = seen[m][p]
    <3>1. Tracks(w, p, files[m][p].vv, seen[m][p])
      BY DEF HInv, RowsTrack, w
    <3> QED
      BY <1>8, <2>1, <3>1, CarrierTypes
  <2>2. CASE /\ files'[m][p].vv = a.vv /\ seen'[m][p] = History(a)
             /\ Renames \/ p = a.path
    BY <1>4, <2>2, TracksAnywhere DEF x
  <2> QED
    BY <2>1, <2>2
<1>10. OpsTrack(x, oplog')
  <2> SUFFICES ASSUME NEW m \in Node, NEW o \in oplog'[m], o # a
               PROVE  Tracks(x, o.path, o.vv, History(o))
    BY <1>4 DEF OpsTrack, x
  <2>1. o \in oplog[m] /\ Tracks(w, o.path, o.vv, History(o))
    BY <1>2 DEF HInv, OpsTrack, w
  <2> QED
    BY <1>8, <2>1, CarrierTypes
<1>11. TasksTrack(x, job') /\ TasksTrack(x, leaf')
  <2>1. TasksTrack(w, job) /\ TasksTrack(w, leaf)
    BY DEF HInv, w
  <2>2. TasksTrack(x, job)
    BY <1>8, <2>1, CarrierTypes DEF TasksTrack
  <2>3. TasksTrack(x, leaf)
    BY <1>8, <2>1, CarrierTypes DEF TasksTrack
  <2> QED
    BY <2>2, <2>3
<1>12. SessionsTrack(x, session')
  <2>1. SessionsTrack(w, session)
    BY DEF HInv, w
  <2>2. SessionsTrack(x, session)
    BY <1>8, <2>1, CarrierTypes DEF SessionsTrack
  <2> QED
    BY <2>2
<1>13. Sourced(oplog', job')
  BY <1>2, LinkEnds DEF HInv, Sourced
<1>14. Plain(oplog')
  BY <1>2 DEF HInv, Plain
<1> QED
  BY <1>9, <1>10, <1>11, <1>12, <1>13, <1>14 DEF HInv, x

\* append_local builds on the row it replaces.
LEMMA AppendLocalTracks ==
  ASSUME IInv, HInv, IInv', RowsAdvance, NEW n \in Node, NEW p \in UserPath,
         NEW v \in Value \cup {Tombstone}, AppendLocal(n, p, v)
  PROVE  HInv'
<1> DEFINE u == files[n][p].vv
           a == [origin |-> n, seq |-> latest[n] + 1, path |-> p,
                 old |-> NoPath, val |-> v, vv |-> Increment(u, n),
                 past |-> seen[n][p]]
<1>1. /\ oplog' = [oplog EXCEPT ![n] = @ \cup {a}]
      /\ latest' = [latest EXCEPT ![n] = @ + 1]
      /\ files' = [files EXCEPT ![n][p] = [val |-> v, vv |-> a.vv]]
      /\ seen' = [seen EXCEPT ![n][p] = @ \cup {OpIdOf(a)}]
      /\ UNCHANGED <<job, session, leaf>>
  BY DEF AppendLocal
<1>2. p \in Path /\ u \in VV
  BY CarrierTypes, ReplicationAssumption
<1>3. a \in Op
  <2>1. a \in oplog'[n]
    BY <1>1 DEF IInv, Fits
  <2> QED
    BY <2>1 DEF IInv, Fits, OpsUpTo
<1>4. /\ a.origin = n /\ a.seq = latest[n] + 1 /\ a.vv = Increment(u, n)
      /\ a.path = p /\ a.old = NoPath /\ a.past = seen[n][p]
  OBVIOUS
<1>5. Tracks(World, a.path, u, a.past)
  BY <1>2 DEF HInv, RowsTrack
<1> HIDE DEF a, u
<1>6. /\ files \in [Node -> [Path -> Version]]
      /\ seen \in [Node -> [Path -> SUBSET OpId]]
  BY DEF IInv, Fits, Counters, VersionsUpTo
<1>7. /\ files'[n][p].vv = a.vv /\ seen'[n][p] = History(a)
      /\ \A m \in Node, q \in Path : (m # n \/ q # p) =>
           files'[m][q] = files[m][q] /\ seen'[m][q] = seen[m][q]
  BY <1>1, <1>2, <1>4, <1>6 DEF History
<1>8. \A m \in Node, q \in Path :
        \/ files'[m][q].vv = files[m][q].vv /\ seen'[m][q] = seen[m][q]
        \/ /\ files'[m][q].vv = a.vv /\ seen'[m][q] = History(a)
           /\ Renames \/ q = a.path
  BY <1>4, <1>7
<1>9. u = files[n][p].vv
  BY DEF u
<1>10. /\ ~ Renames => u = files[n][a.path].vv /\ a.old = NoPath
       /\ files'[n][a.path].vv = a.vv
       /\ UNCHANGED <<job, session, leaf>>
  BY <1>1, <1>4, <1>7, <1>9
<1> QED
  BY <1>1, <1>2, <1>3, <1>4, <1>5, <1>8, <1>10, ZenonT(60),
     OriginTracks

\* append_local_rename builds on both of its rows.
LEMMA AppendLocalRenameTracks ==
  ASSUME IInv, HInv, IInv', RowsAdvance, NEW n \in Node, NEW p \in UserPath,
         NEW q \in UserPath, AppendLocalRename(n, p, q)
  PROVE  HInv'
<1> DEFINE u == Merge(files[n][p].vv, files[n][q].vv)
           h == seen[n][p] \cup seen[n][q]
           a == [origin |-> n, seq |-> latest[n] + 1, path |-> q, old |-> p,
                 val |-> files[n][p].val, vv |-> Increment(u, n), past |-> h]
<1>1. /\ Renames /\ p # q
      /\ oplog' = [oplog EXCEPT ![n] = @ \cup {a}]
      /\ latest' = [latest EXCEPT ![n] = @ + 1]
      /\ files' = [files EXCEPT ![n][p] = [val |-> Tombstone, vv |-> a.vv],
                                ![n][q] = [val |-> a.val, vv |-> a.vv]]
      /\ seen' = [seen EXCEPT ![n][p] = @ \cup History(a),
                              ![n][q] = @ \cup History(a)]
      /\ UNCHANGED <<job, session, leaf>>
  BY DEF AppendLocalRename
<1>2. /\ p \in Path /\ q \in Path
      /\ files[n][p].vv \in VV /\ files[n][q].vv \in VV
  BY CarrierTypes, ReplicationAssumption
<1>3. u \in VV
  BY <1>2, MergeIsLub
<1>4. a \in Op
  <2>1. a \in oplog'[n]
    BY <1>1 DEF IInv, Fits
  <2> QED
    BY <2>1 DEF IInv, Fits, OpsUpTo
<1>5. /\ a.origin = n /\ a.seq = latest[n] + 1 /\ a.vv = Increment(u, n)
      /\ a.path = q /\ a.past = h
  OBVIOUS
<1>6. Tracks(World, q, u, h)
  <2>1. /\ Tracks(World, p, files[n][p].vv, seen[n][p])
        /\ Tracks(World, q, files[n][q].vv, seen[n][q])
    BY <1>2 DEF HInv, RowsTrack
  <2>2. Tracks(World, q, files[n][p].vv, seen[n][p])
    BY <1>1, <2>1, TracksAnywhere
  <2> QED
    BY <1>2, <2>1, <2>2, WorldType, TracksMerge
<1> HIDE DEF a, u
<1>7. /\ files \in [Node -> [Path -> Version]]
      /\ seen \in [Node -> [Path -> SUBSET OpId]]
  BY DEF IInv, Fits, Counters, VersionsUpTo
<1>8. /\ files'[n][p].vv = a.vv /\ files'[n][q].vv = a.vv
      /\ seen'[n][p] = seen[n][p] \cup History(a)
      /\ seen'[n][q] = seen[n][q] \cup History(a)
      /\ \A m \in Node, r \in Path : (m # n \/ r \notin {p, q}) =>
           files'[m][r] = files[m][r] /\ seen'[m][r] = seen[m][r]
  BY <1>1, <1>2, <1>7
<1>9. seen'[n][p] = History(a) /\ seen'[n][q] = History(a)
  BY <1>5, <1>8 DEF History
<1>10. \A m \in Node, r \in Path :
         \/ files'[m][r].vv = files[m][r].vv /\ seen'[m][r] = seen[m][r]
         \/ files'[m][r].vv = a.vv /\ seen'[m][r] = History(a)
  BY <1>8, <1>9
<1>11. /\ ~ Renames => u = files[n][a.path].vv /\ a.old = NoPath
       /\ files'[n][a.path].vv = a.vv
       /\ Tracks(World, a.path, u, a.past)
       /\ UNCHANGED <<job, session, leaf>>
  BY <1>1, <1>5, <1>6, <1>8
<1>12. \A m \in Node, r \in Path :
         \/ files'[m][r].vv = files[m][r].vv /\ seen'[m][r] = seen[m][r]
         \/ /\ files'[m][r].vv = a.vv /\ seen'[m][r] = History(a)
            /\ Renames \/ r = a.path
  BY <1>1, <1>10
<1> QED
  BY <1>1, <1>3, <1>4, <1>5, <1>11, <1>12, OriginTracks

-----------------------------------------------------------------------------
(* Theorems on vectors and histories *)

\* Every step keeps vectors and histories in agreement.
LEMMA NextTracks ==
  ASSUME IInv, OInv, HInv, Next
  PROVE  HInv'
<1>1. IInv' /\ RowsAdvance
  BY NextSafe
<1>2. ASSUME NEW L, Cut(L) PROVE HInv'
  <2>1. /\ UNCHANGED <<files, oplog, latest, seen>>
        /\ \A j \in Link : /\ job'[j] \subseteq job[j]
                           /\ leaf'[j] \subseteq leaf[j]
                           /\ session'[j] \subseteq session[j]
    BY <1>2 DEF Cut
  <2>2. SessionsTrack(World, session')
    BY <2>1 DEF HInv, SessionsTrack
  <2> QED
    BY <1>1, <2>1, <2>2, EndingTracks
<1>3. ASSUME NEW l \in Link,
             SkipLeaf(l) \/ SessionDone(l) \/ AbortSession(l)
      PROVE  HInv'
  <2>1. /\ UNCHANGED <<files, oplog, latest, seen, job>>
        /\ leaf' \in {leaf, [leaf EXCEPT ![l] = {}]}
        /\ session' \in {session, [session EXCEPT ![l] = {}]}
    BY <1>3 DEF SkipLeaf, SessionDone, AbortSession
  <2>2. \A j \in Link : leaf'[j] \subseteq leaf[j]
                        /\ session'[j] \subseteq session[j]
    BY <2>1 DEF IInv, Fits
  <2>3. SessionsTrack(World, session')
    BY <2>2 DEF HInv, SessionsTrack
  <2> QED
    BY <1>1, <2>1, <2>2, <2>3, EndingTracks
<1>4. ASSUME NEW l \in Link, Connect(l) \/ PeriodicReconcile(l)
      PROVE  HInv'
  <2>1. UNCHANGED <<files, oplog, latest, seen, job, leaf>>
    BY <1>4 DEF Connect, PeriodicReconcile
  <2> QED
    BY <1>1, <1>4, <2>1, SnapshotTracks, EndingTracks
<1>5. ASSUME NEW n \in Node, Local(n) \/ Crash(n) PROVE HInv'
  BY <1>1, <1>2, <1>5, AppendLocalTracks, AppendLocalRenameTracks
     DEF Local, Crash
<1>6. ASSUME NEW l \in Link, OpStep(l) PROVE HInv'
  BY <1>1, <1>6, ReceiveTracks, RecordingTracks, WorkingTracks DEF OpStep
<1>7. ASSUME NEW l \in Link, SyncStep(l) PROVE HInv'
  BY <1>1, <1>3, <1>4, <1>7, HandleLeafTracks, UpsertTracks,
     ResolveLeafTracks DEF SyncStep
<1>8. ASSUME NEW l \in Link, Failure(l) PROVE HInv'
  BY <1>1, <1>2, <1>3, <1>8, WorkingTracks DEF Failure, Disconnect
<1> QED
  BY <1>5, <1>6, <1>7, <1>8 DEF Next

\* At the start there is nothing to agree on.
LEMMA InitTracks ==
  ASSUME Init
  PROVE  HInv
<1>1. AllOps = {}
  BY DEF Init, AllOps, Originated
<1>2. World.ops = {} /\ World.rows = files
  BY <1>1 DEF World
<1>3. ASSUME NEW p \in Path PROVE Tracks(World, p, Zero, {})
  <2>1. Owned(World, p, Zero)
    <3> SUFFICES ASSUME NEW m \in Node PROVE Zero[m] <= files[m][p].vv[m]
      BY <1>2 DEF Owned
    <3>1. files[m][p].vv = Zero
      BY DEF Init, NoRow
    <3>2. Zero[m] = 0
      BY ReplicationAssumption DEF Zero
    <3> QED
      BY <3>1, <3>2
  <2> QED
    BY <1>2, <2>1 DEF Tracks, Past, Covers, Knows
<1>4. RowsTrack(World, files, seen)
  BY <1>3 DEF RowsTrack, Init, NoRow
<1>5. /\ OpsTrack(World, oplog) /\ TasksTrack(World, job)
      /\ TasksTrack(World, leaf) /\ SessionsTrack(World, session)
      /\ Sourced(oplog, job) /\ Plain(oplog)
  BY DEF Init, OpsTrack, TasksTrack, SessionsTrack, Sourced, Plain
<1> QED
  BY <1>4, <1>5 DEF HInv

\* The order of records and cursors is an invariant.
LEMMA Ordered == Spec => []OInv
<1>1. Init => OInv
  BY DEF Init, OInv, Behind, InOrder
<1>2. IInv /\ OInv /\ [Next]_vars => OInv'
  <2>1. ASSUME OInv, UNCHANGED vars PROVE OInv'
    BY <2>1 DEF OInv, Behind, InOrder, vars
  <2> QED
    BY <2>1, NextOrdered
<1> QED
  BY <1>1, <1>2, Invariance, PTL DEF Spec

\* The agreement of vectors and histories is an invariant.
LEMMA Tracked == Spec => []HInv
<1>1. Init => HInv
  BY InitTracks
<1>2. IInv /\ OInv /\ HInv /\ [Next]_vars => HInv'
  <2>1. ASSUME HInv, UNCHANGED vars PROVE HInv'
    <3>1. World' = World
      BY <2>1, SameOps DEF vars, World
    <3> QED
      BY <2>1, <3>1 DEF HInv, vars
  <2> QED
    BY <2>1, NextTracks
<1> QED
  BY <1>1, <1>2, Invariance, Ordered, PTL DEF Spec

\* Renames or not, a row's vector covers every op that the row embodies, at
\* whatever path the op was made: no commit of append_local, apply_remote,
\* reconcile_upsert or resolve_rows takes content in without its history.
THEOREM EmbodiedIsCovered ==
  Spec => [](\A n \in Node, p \in Path, o \in AllOps :
               OpIdOf(o) \in seen[n][p] => Leq(o.vv, files[n][p].vv))
<1>1. HInv => \A n \in Node, p \in Path, o \in AllOps :
                OpIdOf(o) \in seen[n][p] => Leq(o.vv, files[n][p].vv)
  BY DEF HInv, RowsTrack, Tracks, Covers, World
<1> QED
  BY <1>1, Tracked, PTL

\* Where users do not rename, the two agree: a vector covers an op exactly
\* when the row embodies it, so that Ignore and Apply are causally right on
\* every node, through the stream, the gate and conflict resolution.
THEOREM VectorsTrackCausality ==
  ASSUME ~ Renames
  PROVE  Spec => []VVTracksCausality
<1>1. IInv /\ HInv => VVTracksCausality
  <2> SUFFICES ASSUME IInv, HInv, NEW n \in Node, NEW p \in Path,
                      NEW o \in AllOps, Affects(o, p)
               PROVE  Leq(o.vv, files[n][p].vv) <=> OpIdOf(o) \in seen[n][p]
    BY DEF VVTracksCausality
  <2>1. /\ o \in Op /\ o \in oplog[o.origin] /\ o.origin \in Node
        /\ o.origin \in Id
    BY OpsHappened, ReplicationAssumption DEF Op
  <2>2. o.path = p
    BY <2>1, ReplicationAssumption DEF HInv, Plain, Affects
  <2>3. Tracks(World, p, files[n][p].vv, seen[n][p])
    BY DEF HInv, RowsTrack
  <2>4. Leq(o.vv, files[n][p].vv) => OpIdOf(o) \in seen[n][p]
    BY <2>1, <2>2, <2>3, WorldType DEF Tracks, Knows, Leq
  <2>5. OpIdOf(o) \in seen[n][p] => Leq(o.vv, files[n][p].vv)
    BY <2>3, WorldType DEF Tracks, Covers
  <2> QED
    BY <2>4, <2>5
<1> QED
  BY <1>1, Invariance, Tracked, PTL

-----------------------------------------------------------------------------
(* What a node has taken responsibility for *)

\* The effect at p that the job k has still to bring about: both paths of an
\* op that was recorded while its Apply was downgraded, then the source.
Owes(k, p) ==
  \/ k.st = "late"
  \/ k.st \in {"source", "settle"} /\ p = k.op.old

Owed(n, o, p) ==
  \E l \in Link : l[1] = n /\ \E k \in job[l] : k.op = o /\ Owes(k, p)

\* n has o's effect, has gone on without it, or has a job that owes it.
Settled(n, o) ==
  \A p \in Path : Affects(o, p) => Accounted(n, p, o.vv) \/ Owed(n, o, p)

\* A subscription works on one op and on one leaf at a time.
Single(S) == \A l \in Link : \A x, y \in S[l] : x = y

\* A resolution starts where the row is not below the remote version, so that
\* a row found to be no longer contested covers it.
Engaged(n, c) == ~ Leq(files[n][c.at].vv, c.remote.vv)

\* A job contests its own op at the right path; it records only what it has
\* settled at the target, and an op is recorded with its source looked at.
JobOk(n, k) ==
  /\ k.contest.remote.vv = k.op.vv
  /\ k.st # "settle" => k.contest.at = k.op.path
  /\ k.st = "settle" => k.contest.at = k.op.old
  /\ Resolving(k) => Engaged(n, k.contest)
  /\ k.st = "record" => Accounted(n, k.op.path, k.op.vv)
  /\ (k.st \in {"late", "source"} /\ k.op.old # NoPath)
       => Decide(files[n][k.op.old], k.op.vv) # "Apply"

JobsOk == \A l \in Link : \A k \in job[l] : JobOk(l[1], k)

LeavesOk ==
  \A l \in Link : \A k \in leaf[l] :
    k.st = "resolve" => Engaged(l[1], k.contest)

\* An author numbers its ops, and its rows cover them.
Authored ==
  \A m \in Node : \A o \in Originated(m) :
    /\ \A r \in Originated(m) : r.seq = o.seq => r = o
    /\ \A p \in Path : Affects(o, p) => Leq(o.vv, files[m][p].vv)

\* Cursors and frontiers do not run ahead of the peer.
Behindhand ==
  \A l \in Link :
    /\ cursor[l[1]][l[2]] <= latest[l[2]]
    /\ \A s \in session[l] : s.frontier <= latest[l[2]]

\* Every recorded op, and every op behind the cursor, is settled.
RecordsSettled == \A n \in Node : \A o \in oplog[n] : Settled(n, o)

CursorSettled ==
  \A l \in Link : \A o \in Originated(l[2]) :
    o.seq <= cursor[l[1]][l[2]] => Settled(l[1], o)

\* Every op behind the frontier is settled, or still in the snapshot, or in
\* the leaf in hand.
InSession(l, s, p, vv) ==
  \/ Leq(vv, s.rows[p].vv)
  \/ \E k \in leaf[l] : k.contest.at = p /\ Leq(vv, k.contest.remote.vv)

SessionsSettle ==
  \A l \in Link : \A s \in session[l] : \A o \in Originated(l[2]) :
    o.seq <= s.frontier =>
      \A p \in Path : Affects(o, p) =>
        Accounted(l[1], p, o.vv) \/ InSession(l, s, p, o.vv)

QInv ==
  /\ Single(job) /\ Single(leaf) /\ Single(session)
  /\ JobsOk /\ LeavesOk
  /\ Authored
  /\ Behindhand
  /\ RecordsSettled
  /\ CursorSettled
  /\ SessionsSettle

\* The invariants together, and what every step does.
Sound == IInv /\ OInv /\ HInv /\ LapsedOK /\ QInv

Onward == IInv' /\ RowsAdvance /\ LapsedOK' /\ LapsedGrow

-----------------------------------------------------------------------------
(* What stays settled *)

\* What is accounted for stays so: rows move forward, lists grow.
LEMMA AccountedStays ==
  ASSUME Sound, Onward, NEW n \in Node, NEW p \in Path, NEW vv \in VV,
         Accounted(n, p, vv)
  PROVE  Accounted(n, p, vv)'
<1>1. CASE Leq(vv, files[n][p].vv)
  <2>1. /\ files[n][p].vv \in VV /\ Leq(files[n][p].vv, files'[n][p].vv)
        /\ files'[n][p].vv \in VV
    BY CarrierTypes, RowsForward
       DEF Sound, Onward, IInv, Fits, VersionsUpTo, Version
  <2>2. Leq(vv, files'[n][p].vv)
    BY <1>1, <2>1, LeqTransitive
  <2> QED
    BY <2>2 DEF Accounted
<1>2. CASE \E u \in lapsed[n][p] : Leq(vv, u)
  BY <1>2 DEF Accounted, Onward, LapsedGrow
<1> QED
  BY <1>1, <1>2 DEF Accounted

\* What is below something accounted for is accounted for.
LEMMA AccountedBelow ==
  ASSUME Onward, NEW n \in Node, NEW p \in Path, NEW vv \in VV, NEW w \in VV,
         Leq(vv, w), Accounted(n, p, w)'
  PROVE  Accounted(n, p, vv)'
<1>1. files'[n][p].vv \in VV /\ \A u \in lapsed'[n][p] : u \in VV
  BY DEF Onward, IInv, Fits, VersionsUpTo, Version, LapsedOK
<1>2. Leq(w, files'[n][p].vv) \/ \E u \in lapsed'[n][p] : Leq(w, u)
  BY DEF Accounted
<1>3. Leq(vv, files'[n][p].vv) \/ \E u \in lapsed'[n][p] : Leq(vv, u)
  BY <1>1, <1>2, LeqTransitive
<1> QED
  BY <1>3 DEF Accounted

\* What the new row covers is accounted for.
LEMMA CoveredIsAccounted ==
  ASSUME NEW n, NEW p, NEW vv, Leq(vv, files'[n][p].vv)
  PROVE  Accounted(n, p, vv)'
BY DEF Accounted

\* A version that a row ignores is accounted for.
LEMMA IgnoredIsAccounted ==
  ASSUME Sound, Onward, NEW n \in Node, NEW p \in Path, NEW vv \in VV,
         Decide(files[n][p], vv) = "Ignore"
  PROVE  Accounted(n, p, vv)'
<1>1. Accounted(n, p, vv)
  BY DecideCases DEF Accounted
<1> QED
  BY <1>1, AccountedStays

\* A commit of resolve_rows covers the remote version.
LEMMA CommitAccounts ==
  ASSUME Sound, NEW n \in Node, NEW c \in ContestsUpTo(Bound), Commit(n, c)
  PROVE  Accounted(n, c.at, c.remote.vv)'
<1> DEFINE S == {v.vv : v \in Candidates(n, c)}
<1>1. /\ files'[n][c.at].vv = MergeAll(S)
      /\ Candidates(n, c) \subseteq VersionsUpTo(Bound)
      /\ c.remote \in Candidates(n, c) /\ Bound \in VV
  BY CommitRows, CandidatesCover, BoundIsVV
     DEF Sound, IInv, Counters, CopyBound
<1>2. /\ S \subseteq VV /\ S # {} /\ c.remote.vv \in S
      /\ \A v \in S : Leq(v, Bound)
  BY <1>1 DEF VersionsUpTo, Version
<1> HIDE DEF S
<1>3. Leq(c.remote.vv, files'[n][c.at].vv)
  BY <1>1, <1>2, MergeAllBounds
<1> QED
  BY <1>3, CoveredIsAccounted

\* A row that an op does not dominate is never dominated by it later.
LEMMA NeverAppliesAgain ==
  ASSUME Sound, Onward, NEW n \in Node, NEW p \in Path, NEW vv \in VV,
         Decide(files[n][p], vv) # "Apply"
  PROVE  Decide(files'[n][p], vv) # "Apply"
<1> SUFFICES ASSUME Decide(files'[n][p], vv) = "Apply" PROVE FALSE
  OBVIOUS
<1>1. ~ Less(files[n][p].vv, vv) /\ Less(files'[n][p].vv, vv)
  BY DecideCases
<1>2. /\ files[n][p].vv \in VV /\ Leq(files[n][p].vv, files'[n][p].vv)
      /\ files'[n][p].vv \in VV
  BY CarrierTypes, RowsForward
     DEF Sound, Onward, IInv, Fits, VersionsUpTo, Version
<1> QED
  BY <1>1, <1>2, LeqTransitive DEF Less

\* A row that is not below a version never falls below it.
LEMMA EngagedStays ==
  ASSUME Sound, Onward, NEW n \in Node, NEW c, c.at \in Path,
         c.remote.vv \in VV, Engaged(n, c)
  PROVE  Engaged(n, c)'
<1> SUFFICES ASSUME Leq(files'[n][c.at].vv, c.remote.vv) PROVE FALSE
  BY DEF Engaged
<1>1. /\ files[n][c.at].vv \in VV /\ files'[n][c.at].vv \in VV
      /\ Leq(files[n][c.at].vv, files'[n][c.at].vv)
  BY CarrierTypes, RowsForward
     DEF Sound, Onward, IInv, Fits, VersionsUpTo, Version
<1>2. Leq(files[n][c.at].vv, c.remote.vv)
  BY <1>1, LeqTransitive
<1> QED
  BY <1>2 DEF Engaged

\* A resolution begins engaged.
LEMMA ConcurrentEngages ==
  ASSUME Sound, Onward, NEW n \in Node, NEW c, c.at \in Path,
         c.remote.vv \in VV,
         Decide(files[n][c.at], c.remote.vv) = "Concurrent"
  PROVE  Engaged(n, c)'
<1>1. Engaged(n, c)
  BY DecideCases DEF Engaged
<1> QED
  BY <1>1, EngagedStays

\* A version given up is accounted for: it goes on the list, or the row is no
\* longer contested and, not being below it, covers it.
LEMMA ForgoAccounts ==
  ASSUME Sound, Onward, NEW n \in Node, NEW c, c.at \in Path,
         c.remote.vv \in VV, Engaged(n, c), Forgo(n, c)
  PROVE  Accounted(n, c.at, c.remote.vv)'
<1> DEFINE P == IF Contested(n, c) THEN {c.at} ELSE {}
<1>1. Lapse(n, P, c.remote.vv)
  BY DEF Forgo
<1>2. CASE Contested(n, c)
  <2>1. c.at \in P
    BY <1>2
  <2> HIDE DEF P
  <2> QED
    BY <1>1, <2>1, LapseCounts DEF Sound
<1>3. CASE ~ Contested(n, c)
  <2>1. Decide(files[n][c.at], c.remote.vv) = "Ignore"
    BY <1>3, DecideCases DEF Engaged, Less, Contested
  <2> QED
    BY <2>1, IgnoredIsAccounted
<1> QED
  BY <1>2, <1>3

\* The leaves in hand that are not touched stay engaged.
LEMMA LeavesStay ==
  ASSUME Sound, Onward, \A l \in Link : leaf'[l] \subseteq leaf[l]
  PROVE  LeavesOk'
<1> SUFFICES ASSUME NEW l \in Link, NEW k \in leaf'[l], k.st = "resolve"
             PROVE  Engaged(l[1], k.contest)'
  BY DEF LeavesOk
<1>1. /\ k \in leaf[l] /\ l[1] \in Node
      /\ k.contest.at \in Path /\ k.contest.remote.vv \in VV
  BY LinkEnds, CarrierTypes DEF Sound
<1>2. Engaged(l[1], k.contest)
  BY <1>1 DEF Sound, QInv, LeavesOk
<1> QED
  BY <1>1, <1>2, EngagedStays

\* So they do where the leaf of one link is replaced.
LEMMA LeavesStayElsewhere ==
  ASSUME Sound, Onward, NEW l \in Link,
         \A j \in Link : j # l => leaf'[j] = leaf[j],
         \A x \in leaf'[l] : x.st = "resolve" => Engaged(l[1], x.contest)'
  PROVE  LeavesOk'
<1> SUFFICES ASSUME NEW j \in Link, NEW k \in leaf'[j], k.st = "resolve",
                    j # l
             PROVE  Engaged(j[1], k.contest)'
  BY DEF LeavesOk
<1>1. /\ k \in leaf[j] /\ j[1] \in Node
      /\ k.contest.at \in Path /\ k.contest.remote.vv \in VV
  BY LinkEnds, CarrierTypes DEF Sound
<1>2. Engaged(j[1], k.contest)
  BY <1>1 DEF Sound, QInv, LeavesOk
<1> QED
  BY <1>1, <1>2, EngagedStays

\* A job that is not touched stays in order.
LEMMA JobOkStays ==
  ASSUME Sound, Onward, NEW l \in Link, NEW k \in job[l], JobOk(l[1], k)
  PROVE  JobOk(l[1], k)'
<1>1. /\ l[1] \in Node /\ k.op.path \in Path /\ k.op.vv \in VV
      /\ k.op.old # NoPath => k.op.old \in Path
  BY LinkEnds, HeldVectors DEF Sound, IInv, Fits, JobsUpTo, OpsUpTo, Op
<1>2. k.st = "record" => Accounted(l[1], k.op.path, k.op.vv)'
  BY <1>1, AccountedStays DEF JobOk
<1>3. Resolving(k) => Engaged(l[1], k.contest)'
  <2>1. k.contest.at \in Path /\ k.contest.remote.vv \in VV
    BY CarrierTypes DEF Sound
  <2> QED
    BY <1>1, <2>1, EngagedStays DEF JobOk
<1>4. (k.st \in {"late", "source"} /\ k.op.old # NoPath)
        => Decide(files'[l[1]][k.op.old], k.op.vv) # "Apply"
  BY <1>1, NeverAppliesAgain DEF JobOk
<1> QED
  BY <1>2, <1>3, <1>4 DEF JobOk

\* Replacing the jobs of one link: what is settled stays settled if the jobs
\* that go have brought about what they owed or hand it on.
LEMMA SettledStays ==
  ASSUME Sound, Onward, NEW l \in Link, NEW X, job' = [job EXCEPT ![l] = X],
         \A k \in job[l] : \A p \in Path :
           (Owes(k, p) /\ Affects(k.op, p)) =>
             \/ Accounted(l[1], p, k.op.vv)'
             \/ \E x \in X : x.op = k.op /\ Owes(x, p),
         NEW n \in Node, NEW o \in Op, Settled(n, o)
  PROVE  Settled(n, o)'
<1>1. /\ job'[l] = X /\ o.vv \in VV
      /\ \A j \in Link : j # l => job'[j] = job[j]
  BY DEF Sound, IInv, Fits, Op
<1> SUFFICES ASSUME NEW p \in Path, Affects(o, p)
             PROVE  Accounted(n, p, o.vv)' \/ Owed(n, o, p)'
  BY DEF Settled
<1>2. CASE Accounted(n, p, o.vv)
  BY <1>1, <1>2, AccountedStays
<1>3. CASE Owed(n, o, p)
  <2>0. PICK j \in Link : j[1] = n /\ \E k \in job[j] : k.op = o /\ Owes(k, p)
    BY <1>3 DEF Owed
  <2>1. PICK k \in job[j] : j[1] = n /\ k.op = o /\ Owes(k, p)
    BY <2>0
  <2>2. CASE j # l
    BY <1>1, <2>1, <2>2 DEF Owed
  <2>3. CASE j = l
    <3>1. \/ Accounted(l[1], p, k.op.vv)'
          \/ \E x \in X : x.op = k.op /\ Owes(x, p)
      BY <2>1, <2>3
    <3>2. CASE \E x \in X : x.op = k.op /\ Owes(x, p)
      BY <1>1, <2>1, <2>3, <3>2 DEF Owed
    <3>3. CASE Accounted(l[1], p, k.op.vv)'
      <4>1. l[1] = n /\ k.op = o
        BY <2>1, <2>3
      <4> QED
        BY <3>3, <4>1
    <3> QED
      BY <3>1, <3>2, <3>3
  <2> QED
    BY <2>2, <2>3
<1> QED
  BY <1>2, <1>3 DEF Settled

\* So it does where no job goes.
LEMMA SettledQuietly ==
  ASSUME Sound, Onward, job' = job, NEW n \in Node, NEW o \in Op, Settled(n, o)
  PROVE  Settled(n, o)'
<1>1. \A p \in Path : Owed(n, o, p)' <=> Owed(n, o, p)
  BY DEF Owed
<1>2. o.vv \in VV
  BY DEF Op
<1> QED
  BY <1>1, <1>2, AccountedStays DEF Settled

\* An author's rows go on covering its ops.
LEMMA AuthoredStays ==
  ASSUME Sound, Onward, \A m \in Node : Originated(m)' = Originated(m)
  PROVE  Authored'
<1> SUFFICES ASSUME NEW m \in Node, NEW o \in Originated(m)
             PROVE  /\ \A r \in Originated(m) : r.seq = o.seq => r = o
                    /\ \A p \in Path : Affects(o, p) =>
                         Leq(o.vv, files'[m][p].vv)
  BY DEF Authored
<1>1. \A r \in Originated(m) : r.seq = o.seq => r = o
  BY DEF Sound, QInv, Authored
<1>2. ASSUME NEW p \in Path, Affects(o, p)
      PROVE  Leq(o.vv, files'[m][p].vv)
  <2>1. Leq(o.vv, files[m][p].vv) /\ o.vv \in VV
    BY <1>2, CarrierTypes DEF Sound, QInv, Authored, Originated
  <2>2. /\ files[m][p].vv \in VV /\ Leq(files[m][p].vv, files'[m][p].vv)
        /\ files'[m][p].vv \in VV
    BY CarrierTypes, RowsForward
       DEF Sound, Onward, IInv, Fits, VersionsUpTo, Version
  <2> QED
    BY <2>1, <2>2, LeqTransitive
<1> QED
  BY <1>1, <1>2

\* A session that is not touched goes on covering what it did.
LEMMA SessionsStay ==
  ASSUME Sound, Onward, UNCHANGED <<session, leaf>>,
         \A m \in Node : Originated(m)' = Originated(m)
  PROVE  SessionsSettle'
<1> SUFFICES ASSUME NEW l \in Link, NEW s \in session[l],
                    NEW o \in Originated(l[2]), o.seq <= s.frontier,
                    NEW p \in Path, Affects(o, p)
             PROVE  Accounted(l[1], p, o.vv)' \/ InSession(l, s, p, o.vv)'
  BY LinkEnds DEF SessionsSettle
<1>1. Accounted(l[1], p, o.vv) \/ InSession(l, s, p, o.vv)
  BY DEF Sound, QInv, SessionsSettle
<1>2. l[1] \in Node /\ o.vv \in VV
  BY LinkEnds, CarrierTypes DEF Sound, Originated
<1>3. InSession(l, s, p, o.vv) => InSession(l, s, p, o.vv)'
  BY DEF InSession
<1> QED
  BY <1>1, <1>2, <1>3, AccountedStays

-----------------------------------------------------------------------------
(* The op stream *)

\* apply_remote at a path it is asked to touch: a version that dominates is
\* covered from then on, and nothing is left to apply.
LEMMA ApplyAccounts ==
  ASSUME Sound, Onward, NEW l \in Link, NEW o \in Op, NEW targets,
         ApplyRemote(l, o, targets),
         NEW p \in Path, p \in targets \cup ({o.old} \ {NoPath})
  PROVE  /\ Decide(files'[l[1]][p], o.vv) # "Apply"
         /\ Decide(files[l[1]][p], o.vv) # "Concurrent"
              => Accounted(l[1], p, o.vv)'
<1> DEFINE n == l[1]
           D == Dominated(n, o, targets \cup ({o.old} \ {NoPath}))
<1>1. n \in Node /\ o.vv \in VV /\ files[n][p].vv \in VV
  BY LinkEnds, CarrierTypes DEF Sound, Op
<1>2. CASE Decide(files[n][p], o.vv) = "Apply"
  <2>1. p \in D
    BY <1>2 DEF Dominated
  <2>2. files' = [files EXCEPT ![n] = [q \in Path |->
                    IF q \in D THEN Adopt(@[q], EffectAt(o, q)) ELSE @[q]]]
    BY DEF ApplyRemote
  <2>3. files'[n][p] = Adopt(files[n][p], EffectAt(o, p))
    <3> HIDE DEF D
    <3> QED
      BY <1>1, <2>1, <2>2 DEF Sound, IInv, Fits
  <2>4. files'[n][p].vv = Merge(files[n][p].vv, o.vv)
    BY <2>3 DEF Adopt, EffectAt
  <2>5. Leq(o.vv, files'[n][p].vv)
    BY <1>1, <2>4, MergeIsLub
  <2>6. Decide(files'[n][p], o.vv) # "Apply"
    BY <2>5, DecideCases
  <2> QED
    BY <2>5, <2>6, CoveredIsAccounted
<1>3. CASE Decide(files[n][p], o.vv) # "Apply"
  <2>1. Decide(files'[n][p], o.vv) # "Apply"
    BY <1>1, <1>3, NeverAppliesAgain
  <2>2. Decide(files[n][p], o.vv) # "Concurrent" => Accounted(n, p, o.vv)'
    BY <1>1, <1>3, DecideCases, IgnoredIsAccounted
  <2> QED
    BY <2>1, <2>2
<1> QED
  BY <1>2, <1>3

\* One link's jobs are replaced: the new ones are in order, the rest stay so.
LEMMA JobsMove ==
  ASSUME Sound, Onward, NEW l \in Link, NEW X, job' = [job EXCEPT ![l] = X],
         \A x, y \in X : x = y, \A x \in X : JobOk(l[1], x)'
  PROVE  Single(job') /\ JobsOk'
<1>1. job'[l] = X /\ \A j \in Link : j # l => job'[j] = job[j]
  BY DEF Sound, IInv, Fits
<1>2. Single(job')
  BY <1>1 DEF Sound, QInv, Single
<1>3. JobsOk'
  <2> SUFFICES ASSUME NEW j \in Link, NEW k \in job'[j]
               PROVE  JobOk(j[1], k)'
    BY DEF JobsOk
  <2>1. CASE j = l
    BY <1>1, <2>1
  <2>2. CASE j # l
    BY <1>1, <2>2, JobOkStays DEF Sound, QInv, JobsOk
  <2> QED
    BY <2>1, <2>2
<1> QED
  BY <1>2, <1>3

\* A step on one job that records nothing.
LEMMA JobStepSettles ==
  ASSUME Sound, Onward, UNCHANGED <<oplog, latest, cursor, session, leaf>>,
         NEW l \in Link, NEW X, job' = [job EXCEPT ![l] = X],
         \A x, y \in X : x = y, \A x \in X : JobOk(l[1], x)',
         \A k \in job[l] : \A p \in Path :
           (Owes(k, p) /\ Affects(k.op, p)) =>
             \/ Accounted(l[1], p, k.op.vv)'
             \/ \E x \in X : x.op = k.op /\ Owes(x, p)
  PROVE  QInv'
<1>1. \A m \in Node : Originated(m)' = Originated(m)
  BY DEF Originated
<1>2. Single(job') /\ JobsOk'
  BY JobsMove
<1>3. /\ Single(leaf') /\ Single(session') /\ Behindhand'
      /\ LeavesOk'
  BY LeavesStay DEF Sound, QInv, Behindhand
<1>4. Authored' /\ SessionsSettle'
  BY <1>1, AuthoredStays, SessionsStay
<1>5. \A n \in Node : \A o \in Op : Settled(n, o) => Settled(n, o)'
  BY SettledStays
<1>6. RecordsSettled'
  BY <1>5, CarrierTypes DEF Sound, QInv, RecordsSettled
<1>7. CursorSettled'
  BY <1>1, <1>5, LinkEnds, CarrierTypes
     DEF Sound, QInv, CursorSettled, Originated
<1> QED
  BY <1>2, <1>3, <1>4, <1>6, <1>7 DEF QInv

\* Recording the next op of a link and going on to the job state X.
LEMMA RecordSettles ==
  ASSUME Sound, Onward, UNCHANGED <<latest, session, leaf>>,
         NEW l \in Link, NEW o \in oplog[l[2]], o.origin = l[2],
         o.seq = cursor[l[1]][l[2]] + 1,
         NEW targets, ApplyRemote(l, o, targets),
         NEW X, job' = [job EXCEPT ![l] = X],
         \A x, y \in X : x = y, \A x \in X : JobOk(l[1], x)',
         \A k \in job[l] : \A p \in Path : ~ Owes(k, p),
         \A p \in Path : Affects(o, p) =>
           \/ Accounted(l[1], p, o.vv)'
           \/ \E x \in X : x.op = o /\ Owes(x, p)
  PROVE  QInv'
<1> DEFINE n == l[1]
           m == l[2]
<1>1. /\ n \in Node /\ m \in Node /\ n # m /\ o \in Op /\ o \in AllOps
      /\ oplog \in [Node -> SUBSET Op] /\ cursor \in [Node -> [Node -> Nat]]
      /\ job \in [Link -> SUBSET Job]
  <2>1. n \in Node /\ m \in Node /\ n # m
    BY LinkEnds, ReplicationAssumption
  <2> QED
    BY <2>1, CarrierTypes
       DEF Sound, IInv, Fits, OpsUpTo, JobsUpTo, Counters, AllOps, Originated
<1>2. /\ oplog' = [oplog EXCEPT ![n] = @ \cup {o}]
      /\ cursor' = [cursor EXCEPT ![n][m] = Larger(@, o.seq)]
  BY DEF ApplyRemote
<1>3. /\ oplog'[n] = oplog[n] \cup {o}
      /\ \A i \in Node : i # n => oplog'[i] = oplog[i]
      /\ \A i \in Node : Originated(i)' = Originated(i)
  BY <1>1, <1>2 DEF Originated
<1>4. /\ cursor'[n][m] = o.seq
      /\ \A i, k \in Node : (i # n \/ k # m) => cursor'[i][k] = cursor[i][k]
  <2>1. cursor[n][m] \in Nat /\ Larger(cursor[n][m], o.seq) = o.seq
    BY <1>1 DEF Larger
  <2> QED
    BY <1>1, <1>2, <2>1
<1>5. \A i \in Node : \A r \in Op : Settled(i, r) => Settled(i, r)'
  BY SettledStays
<1>6. Settled(n, o)'
  <2>1. job'[l] = X
    BY <1>1
  <2> SUFFICES ASSUME NEW p \in Path, Affects(o, p)
               PROVE  Accounted(n, p, o.vv)' \/ Owed(n, o, p)'
    BY DEF Settled
  <2>2. (\E x \in X : x.op = o /\ Owes(x, p)) => Owed(n, o, p)'
    BY <2>1 DEF Owed
  <2> QED
    BY <2>2
<1>7. Single(job') /\ JobsOk'
  BY JobsMove
<1>8. /\ Single(leaf') /\ Single(session') /\ Authored' /\ SessionsSettle'
      /\ LeavesOk'
  BY <1>3, AuthoredStays, SessionsStay, LeavesStay DEF Sound, QInv
<1>9. Behindhand'
  <2>1. o.seq <= latest[m]
    BY <1>1, OpsHappened DEF Sound
  <2> SUFFICES ASSUME NEW j \in Link
               PROVE  cursor'[j[1]][j[2]] <= latest[j[2]]
    BY DEF Sound, QInv, Behindhand
  <2>2. CASE j = l
    BY <1>4, <2>1, <2>2
  <2>3. CASE j # l
    <3>1. j[1] \in Node /\ j[2] \in Node /\ (j[1] # n \/ j[2] # m)
      BY <2>3, LinkEnds, SameLink
    <3>2. cursor'[j[1]][j[2]] = cursor[j[1]][j[2]]
      BY <1>4, <3>1
    <3> QED
      BY <3>2 DEF Sound, QInv, Behindhand
  <2> QED
    BY <2>2, <2>3
<1>10. RecordsSettled'
  <2> SUFFICES ASSUME NEW i \in Node, NEW r \in oplog'[i]
               PROVE  Settled(i, r)'
    BY DEF RecordsSettled
  <2>1. CASE i = n /\ r = o
    BY <1>6, <2>1
  <2>2. CASE ~ (i = n /\ r = o)
    <3>1. r \in oplog[i] /\ r \in Op
      BY <1>1, <1>3, <2>2
    <3>2. Settled(i, r)
      BY <3>1 DEF Sound, QInv, RecordsSettled
    <3> QED
      BY <1>5, <3>1, <3>2
  <2> QED
    BY <2>1, <2>2
<1>11. CursorSettled'
  <2> SUFFICES ASSUME NEW j \in Link, NEW r \in Originated(j[2]),
                      r.seq <= cursor'[j[1]][j[2]]
               PROVE  Settled(j[1], r)'
    BY <1>3, LinkEnds DEF CursorSettled
  <2>1. j[1] \in Node /\ j[2] \in Node /\ r \in Op /\ r.seq \in Nat
    BY <1>1, LinkEnds DEF Originated, Op
  <2>2. CASE j = l /\ r.seq = o.seq
    <3>1. r = o
      BY <1>1, <2>2 DEF Sound, QInv, Authored, Originated
    <3> QED
      BY <1>6, <2>2, <3>1
  <2>3. CASE ~ (j = l /\ r.seq = o.seq)
    <3>1. r.seq <= cursor[j[1]][j[2]]
      <4>1. CASE j = l
        <5>1. cursor[n][m] \in Nat
          BY <1>1
        <5> QED
          BY <1>4, <2>1, <2>3, <4>1, <5>1
      <4>2. CASE j # l
        BY <1>4, <2>1, <4>2, SameLink
      <4> QED
        BY <4>1, <4>2
    <3>2. Settled(j[1], r)
      BY <3>1 DEF Sound, QInv, CursorSettled
    <3> QED
      BY <1>5, <2>1, <3>2
  <2> QED
    BY <2>2, <2>3
<1> QED
  BY <1>7, <1>8, <1>9, <1>10, <1>11 DEF QInv

\* The job that goes on to the source of a rename owes its effect there.
LEMMA ThenOk ==
  ASSUME NEW n, NEW k \in Job, k.contest.remote.vv = k.op.vv,
         k.contest.at = k.op.path,
         k.op.old # NoPath => Decide(files'[n][k.op.old], k.op.vv) # "Apply"
  PROVE  /\ \A x, y \in Then(k) : x = y
         /\ \A x \in Then(k) : JobOk(n, x)'
         /\ \A p \in Path : p = k.op.old =>
              \E x \in Then(k) : x.op = k.op /\ Owes(x, p)
<1>1. \A x, y \in Then(k) : x = y
  BY DEF Then
<1>2. ASSUME NEW x \in Then(k) PROVE JobOk(n, x)'
  <2>1. /\ x.op = k.op /\ x.contest = k.contest
        /\ x.st = "source" /\ k.op.old # NoPath
    BY <1>2, ThenKeeps
  <2> QED
    BY <2>1 DEF JobOk, Resolving
<1>3. ASSUME NEW p \in Path, p = k.op.old
      PROVE  \E x \in Then(k) : x.op = k.op /\ Owes(x, p)
  <2> DEFINE y == [k EXCEPT !.st = "source"]
  <2>1. y \in Then(k)
    BY <1>3, ReplicationAssumption DEF Then
  <2>2. y.op = k.op /\ y.st = "source"
    BY DEF Job
  <2> HIDE DEF y
  <2> QED
    BY <1>3, <2>1, <2>2 DEF Owes
<1> QED
  BY <1>1, <1>2, <1>3

\* A job that is still before its record has nothing in the rows to answer for.
LEMMA EarlyOk ==
  ASSUME NEW n, NEW x, x.st \in {"fetch", "resolve", "quarantine"},
         x.contest.remote.vv = x.op.vv, x.contest.at = x.op.path,
         x.st = "resolve" => Engaged(n, x.contest)'
  PROVE  JobOk(n, x)'
BY DEF JobOk, Resolving

\* Deciding on a pushed op.
LEMMA ReceiveSettles ==
  ASSUME Sound, Onward, NEW l \in Link, Receive(l)
  PROVE  QInv'
<1> DEFINE n == l[1]
<1>1. PICK o \in Delivered(l) :
        LET d == Decide(files[n][o.path], o.vv)
            k == Job0(o, "resolve")
        IN  /\ job[l] = {}
            /\ \/ /\ d = "Apply"
                  /\ job' = [job EXCEPT ![l] = {Job0(o, "fetch")}]
                  /\ UNCHANGED <<files, oplog, cursor, seen>>
               \/ /\ d = "Ignore"
                  /\ ApplyRemote(l, o, {})
                  /\ job' = [job EXCEPT ![l] = Then(k)]
               \/ /\ d = "Concurrent"
                  /\ UNCHANGED <<files, oplog, cursor, seen>>
                  /\ \/ \E plan \in Derivable(n, k.contest) :
                          job' = [job EXCEPT ![l] =
                            {[k EXCEPT !.contest = Restage(@, plan)]}]
                     \/ /\ job' = [job EXCEPT ![l] = After(k)]
                        /\ Lapse(n, {o.path}, o.vv)
            /\ UNCHANGED <<latest, session, leaf>>
  BY Zenon DEF Receive
<1> DEFINE k == Job0(o, "resolve")
<1>2. /\ l[2] \in Node /\ n \in Node /\ o \in oplog[l[2]] /\ o.origin = l[2]
      /\ o.seq = cursor[n][l[2]] + 1
  BY LinkEnds DEF Delivered
<1>3. o \in OpsUpTo(Bound) /\ o \in Op /\ o.vv \in VV /\ o.path \in Path
  BY <1>2, CarrierTypes DEF Sound, IInv, Fits
<1>4. k \in Job /\ Resolving(k)
  BY <1>3, Job0Type DEF JobsUpTo, Resolving
<1>5. /\ k.st = "resolve" /\ k.op = o /\ k.contest.at = o.path
      /\ k.contest.remote.vv = o.vv
  BY Job0Fields
<1> HIDE DEF k
<1>6. ASSUME NEW X, job' = [job EXCEPT ![l] = X], \A x, y \in X : x = y,
             \A x \in X : JobOk(n, x)', UNCHANGED <<oplog, cursor>>
      PROVE  QInv'
  BY <1>1, <1>6, JobStepSettles
<1>7. CASE job' = [job EXCEPT ![l] = {Job0(o, "fetch")}]
           /\ UNCHANGED <<files, oplog, cursor, seen>>
  <2> DEFINE y == Job0(o, "fetch")
             X == {y}
  <2>1. job' = [job EXCEPT ![l] = X]
    BY <1>7
  <2>2. /\ y.st = "fetch" /\ y.op = o /\ y.contest.at = o.path
        /\ y.contest.remote.vv = o.vv
    BY Job0Fields
  <2> HIDE DEF y
  <2>3. JobOk(n, y)'
    BY <2>2, EarlyOk
  <2>4. (\A x \in X : JobOk(n, x)') /\ \A x, z \in X : x = z
    BY <2>3
  <2> HIDE DEF X
  <2> QED
    BY <1>6, <1>7, <2>1, <2>4
<1>8. CASE /\ Decide(files[n][o.path], o.vv) = "Ignore"
           /\ ApplyRemote(l, o, {}) /\ job' = [job EXCEPT ![l] = Then(k)]
  <2> DEFINE T == {}
             X == Then(k)
  <2>1. ApplyRemote(l, o, T) /\ job' = [job EXCEPT ![l] = X]
    BY <1>8
  <2> HIDE DEF T
  <2>2. o.old # NoPath => Decide(files'[n][o.old], o.vv) # "Apply"
    BY <1>3, <2>1, ApplyAccounts DEF Op
  <2>3. /\ \A x, y \in X : x = y
        /\ \A x \in X : JobOk(n, x)'
        /\ \A p \in Path : p = o.old => \E x \in X : x.op = o /\ Owes(x, p)
    BY <1>4, <1>5, <2>2, ThenOk
  <2>4. Accounted(n, o.path, o.vv)'
    BY <1>2, <1>3, <1>8, IgnoredIsAccounted
  <2>5. \A p \in Path : Affects(o, p) =>
          \/ Accounted(n, p, o.vv)'
          \/ \E x \in X : x.op = o /\ Owes(x, p)
    BY <2>3, <2>4 DEF Affects
  <2> HIDE DEF X
  <2> QED
    BY <1>1, <1>2, <2>1, <2>3, <2>5, RecordSettles
<1>9. ASSUME NEW plan, Decide(files[n][o.path], o.vv) = "Concurrent",
             job' = [job EXCEPT ![l] = {[k EXCEPT !.contest = Restage(@, plan)]}],
             UNCHANGED <<files, oplog, cursor, seen>>
      PROVE  QInv'
  <2> DEFINE y == [k EXCEPT !.contest = Restage(@, plan)]
             X == {y}
  <2>1. /\ y.op = k.op /\ y.st = k.st /\ y.contest.at = k.contest.at
        /\ y.contest.remote = k.contest.remote
    <3>1. k.contest \in Contest /\ y.op = k.op /\ y.st = k.st
          /\ y.contest = Restage(k.contest, plan)
      BY <1>4 DEF Job
    <3> HIDE DEF y
    <3> QED
      BY <3>1, RestageKeeps
  <2>2. job' = [job EXCEPT ![l] = X]
    BY <1>9
  <2> HIDE DEF y
  <2>3. JobOk(n, y)'
    <3>1. ~ Leq(files'[n][o.path].vv, o.vv)
      BY <1>9, DecideCases
    <3>2. Engaged(n, y.contest)'
      BY <1>5, <2>1, <3>1 DEF Engaged
    <3> QED
      BY <1>5, <2>1, <3>2, EarlyOk
  <2>4. (\A x \in X : JobOk(n, x)') /\ \A x, z \in X : x = z
    BY <2>3
  <2> HIDE DEF X
  <2> QED
    BY <1>6, <1>9, <2>2, <2>4
<1>10. CASE /\ job' = [job EXCEPT ![l] = After(k)] /\ Lapse(n, {o.path}, o.vv)
            /\ UNCHANGED <<files, oplog, cursor, seen>>
  <2> DEFINE y == [k EXCEPT !.st = "record"]
             X == {y}
             P == {o.path}
  <2>1. After(k) = X
    BY <1>5, Zenon DEF After
  <2>2. y.op = o /\ y.st = "record" /\ y.contest = k.contest
    BY <1>4, <1>5 DEF Job
  <2>3. Accounted(n, o.path, o.vv)'
    <3>1. Lapse(n, P, o.vv) /\ o.path \in P
      BY <1>10
    <3> HIDE DEF P
    <3> QED
      BY <1>2, <1>3, <3>1, LapseCounts DEF Sound
  <2>4. job' = [job EXCEPT ![l] = X]
    BY <1>10, <2>1
  <2> HIDE DEF y
  <2>5. JobOk(n, y)'
    BY <1>5, <2>2, <2>3 DEF JobOk, Resolving
  <2>6. (\A x \in X : JobOk(n, x)') /\ \A x, z \in X : x = z
    BY <2>5
  <2> HIDE DEF X
  <2> QED
    BY <1>6, <1>10, <2>4, <2>6
<1> QED
  BY <1>1, <1>7, <1>8, <1>9, <1>10 DEF k

\* What is known of the one job of a link.
LEMMA OneJob ==
  ASSUME Sound, NEW l \in Link, NEW k \in job[l]
  PROVE  /\ l[1] \in Node /\ k \in Job /\ JobOk(l[1], k)
         /\ k.contest \in ContestsUpTo(Bound) /\ k.contest.at \in Path
         /\ k.op \in Op /\ k.op.path \in Path /\ k.op.vv \in VV
         /\ k.op.old # NoPath => k.op.old \in Path
         /\ k.op \in oplog[l[2]] /\ k.op.origin = l[2]
         /\ \A j \in job[l] : j = k
<1>1. l[1] \in Node /\ k \in JobsUpTo(Bound)
  BY LinkEnds DEF Sound, IInv, Fits
<1>2. /\ k \in Job /\ k.contest \in ContestsUpTo(Bound) /\ k.op \in Op
      /\ k.contest.at \in Path
      /\ k.op.path \in Path /\ k.op.vv \in VV
      /\ k.op.old # NoPath => k.op.old \in Path
  BY <1>1 DEF JobsUpTo, OpsUpTo, Op, ContestsUpTo, Contest
<1>3. k.op \in oplog[l[2]] /\ k.op.origin = l[2]
  BY DEF Sound, HInv, Sourced, OInv, InOrder
<1>4. JobOk(l[1], k) /\ \A j \in job[l] : j = k
  BY DEF Sound, QInv, JobsOk, Single
<1> QED
  BY <1>1, <1>2, <1>3, <1>4

\* A resolution that ends with the remote version accounted for: the op goes
\* on to its record, to the source of its rename, or is done.
LEMMA ResolutionEnds ==
  ASSUME Sound, Onward, UNCHANGED <<oplog, latest, cursor, session, leaf>>,
         NEW l \in Link, NEW k \in job[l], Resolving(k),
         job' = [job EXCEPT ![l] = After(k)],
         Accounted(l[1], k.contest.at, k.contest.remote.vv)'
  PROVE  QInv'
<1> DEFINE n == l[1]
<1>1. /\ n \in Node /\ k \in Job /\ JobOk(n, k) /\ k.op.vv \in VV
      /\ k.op.old # NoPath => k.op.old \in Path
      /\ \A j \in job[l] : j = k
  BY OneJob
<1>2. k.contest.remote.vv = k.op.vv
  BY <1>1 DEF JobOk
<1>3. ASSUME NEW X, After(k) = X, \A x, y \in X : x = y,
             \A x \in X : JobOk(n, x)',
             \A p \in Path : (Owes(k, p) /\ Affects(k.op, p)) =>
               \/ Accounted(n, p, k.op.vv)'
               \/ \E x \in X : x.op = k.op /\ Owes(x, p)
      PROVE  QInv'
  BY <1>1, <1>3, JobStepSettles
<1>4. CASE k.st = "resolve"
  <2> DEFINE y == [k EXCEPT !.st = "record"]
             X == {y}
  <2>1. After(k) = X
    BY <1>4, Zenon DEF After
  <2>2. y.op = k.op /\ y.st = "record" /\ y.contest = k.contest
    BY <1>1 DEF Job
  <2>3. k.contest.at = k.op.path
    BY <1>1, <1>4 DEF JobOk
  <2>4. Accounted(n, k.op.path, k.op.vv)'
    BY <1>2, <2>3
  <2> HIDE DEF y
  <2>5. JobOk(n, y)'
    BY <1>2, <2>2, <2>3, <2>4 DEF JobOk, Resolving
  <2>6. (\A x \in X : JobOk(n, x)') /\ \A x, z \in X : x = z
    BY <2>5
  <2>7. \A p \in Path : ~ Owes(k, p)
    BY <1>4 DEF Owes
  <2> HIDE DEF X
  <2> QED
    BY <1>3, <2>1, <2>6, <2>7
<1>5. CASE k.st = "late"
  <2>1. After(k) = Then(k)
    BY <1>5, Zenon DEF After
  <2>2. k.contest.at = k.op.path
    BY <1>1, <1>5 DEF JobOk
  <2>3. k.op.old # NoPath => Decide(files'[n][k.op.old], k.op.vv) # "Apply"
    BY <1>1, <1>5, NeverAppliesAgain DEF JobOk
  <2>4. /\ \A x, y \in Then(k) : x = y
        /\ \A x \in Then(k) : JobOk(n, x)'
        /\ \A p \in Path : p = k.op.old =>
             \E x \in Then(k) : x.op = k.op /\ Owes(x, p)
    BY <1>1, <1>2, <2>2, <2>3, ThenOk
  <2>5. Accounted(n, k.op.path, k.op.vv)'
    BY <1>2, <2>2
  <2>6. \A p \in Path : Affects(k.op, p) =>
          \/ Accounted(n, p, k.op.vv)'
          \/ \E x \in Then(k) : x.op = k.op /\ Owes(x, p)
    BY <2>4, <2>5 DEF Affects
  <2> QED
    BY <1>3, <2>1, <2>4, <2>6
<1>6. CASE k.st = "settle"
  <2> DEFINE X == {}
  <2>1. After(k) = X
    BY <1>6, Zenon DEF After
  <2>2. k.contest.at = k.op.old
    BY <1>1, <1>6 DEF JobOk
  <2>3. Accounted(n, k.op.old, k.op.vv)'
    BY <1>2, <2>2
  <2>4. \A p \in Path : Owes(k, p) => Accounted(n, p, k.op.vv)'
    BY <1>6, <2>3 DEF Owes
  <2>5. \A x \in X : FALSE
    OBVIOUS
  <2> HIDE DEF X
  <2> QED
    BY <1>3, <2>1, <2>4, <2>5
<1> QED
  BY <1>4, <1>5, <1>6 DEF Resolving

\* The commit of a materialized op: covered, ignored, or left to a late
\* resolution that owes both of its paths.
LEMMA FetchedSettles ==
  ASSUME Sound, Onward, NEW l \in Link, Fetched(l)
  PROVE  QInv'
<1> DEFINE n == l[1]
<1>1. PICK k \in job[l] :
        /\ k.st = "fetch"
        /\ ApplyRemote(l, k.op, {k.op.path})
        /\ job' = [job EXCEPT ![l] =
             IF Decide(files[l[1]][k.op.path], k.op.vv) = "Concurrent"
             THEN {[k EXCEPT !.st = "late"]} ELSE Then(k)]
        /\ UNCHANGED <<latest, session, leaf>>
  BY DEF Fetched
<1> DEFINE T == {k.op.path}
<1>2. /\ n \in Node /\ k \in Job /\ JobOk(n, k)
      /\ k.op \in Op /\ k.op.path \in Path /\ k.op.vv \in VV
      /\ k.op.old # NoPath => k.op.old \in Path
      /\ k.op \in oplog[l[2]] /\ k.op.origin = l[2]
      /\ \A j \in job[l] : j = k
  BY OneJob
<1>3. /\ k.op.seq = cursor[n][l[2]] + 1 /\ \A p \in Path : ~ Owes(k, p)
      /\ k.contest.remote.vv = k.op.vv /\ k.contest.at = k.op.path
  BY <1>1, <1>2 DEF Sound, OInv, InOrder, Early, Owes, JobOk
<1>4. ApplyRemote(l, k.op, T) /\ k.op.path \in T
  BY <1>1
<1> HIDE DEF T
<1>5. /\ k.op.old # NoPath => Decide(files'[n][k.op.old], k.op.vv) # "Apply"
      /\ Decide(files[n][k.op.path], k.op.vv) # "Concurrent"
           => Accounted(n, k.op.path, k.op.vv)'
  BY <1>2, <1>4, ApplyAccounts
<1>6. ASSUME NEW X, job' = [job EXCEPT ![l] = X], \A x, y \in X : x = y,
             \A x \in X : JobOk(n, x)',
             \A p \in Path : Affects(k.op, p) =>
               \/ Accounted(n, p, k.op.vv)'
               \/ \E x \in X : x.op = k.op /\ Owes(x, p)
      PROVE  QInv'
  <2> DEFINE o == k.op
  <2>1. /\ o \in oplog[l[2]] /\ o.origin = l[2] /\ o.seq = cursor[n][l[2]] + 1
        /\ ApplyRemote(l, o, T)
        /\ \A j \in job[l] : \A p \in Path : ~ Owes(j, p)
        /\ \A p \in Path : Affects(o, p) =>
               \/ Accounted(n, p, o.vv)'
               \/ \E x \in X : x.op = o /\ Owes(x, p)
    BY <1>2, <1>3, <1>4, <1>6
  <2> HIDE DEF o
  <2> QED
    BY <1>1, <1>6, <2>1, RecordSettles
<1>7. CASE Decide(files[n][k.op.path], k.op.vv) = "Concurrent"
  <2> DEFINE y == [k EXCEPT !.st = "late"]
             X == {y}
  <2>1. y.op = k.op /\ y.contest = k.contest /\ y.st = "late"
    BY <1>2 DEF Job
  <2>2. job' = [job EXCEPT ![l] = X]
    BY <1>1, <1>7
  <2> HIDE DEF y
  <2>3. JobOk(n, y)'
    <3>1. Engaged(n, y.contest)'
      BY <1>2, <1>3, <1>7, <2>1, ConcurrentEngages
    <3> QED
      BY <1>3, <1>5, <2>1, <3>1 DEF JobOk
  <2>4. \A p \in Path : Owes(y, p)
    BY <2>1 DEF Owes
  <2>5. /\ \A x \in X : JobOk(n, x)'
        /\ \A x, z \in X : x = z
        /\ \A p \in Path : \E x \in X : x.op = k.op /\ Owes(x, p)
    BY <2>1, <2>3, <2>4
  <2> HIDE DEF X
  <2> QED
    BY <1>6, <2>2, <2>5
<1>8. CASE Decide(files[n][k.op.path], k.op.vv) # "Concurrent"
  <2>1. job' = [job EXCEPT ![l] = Then(k)]
    BY <1>1, <1>8
  <2>2. /\ \A x, y \in Then(k) : x = y
        /\ \A x \in Then(k) : JobOk(n, x)'
        /\ \A p \in Path : p = k.op.old =>
             \E x \in Then(k) : x.op = k.op /\ Owes(x, p)
    BY <1>2, <1>3, <1>5, ThenOk
  <2>3. \A p \in Path : Affects(k.op, p) =>
          \/ Accounted(n, p, k.op.vv)'
          \/ \E x \in Then(k) : x.op = k.op /\ Owes(x, p)
    BY <1>5, <1>8, <2>2 DEF Affects
  <2> QED
    BY <1>6, <2>1, <2>2, <2>3
<1> QED
  BY <1>7, <1>8

\* Recording an op that was resolved before, or one that is quarantined and
\* gone on without at both of its paths.
LEMMA RecordedSettles ==
  ASSUME Sound, Onward, NEW l \in Link, Record(l)
  PROVE  QInv'
<1> DEFINE n == l[1]
<1>1. PICK k \in job[l] :
        /\ k.st \in {"record", "quarantine"}
        /\ ApplyRemote(l, k.op, {})
        /\ job' = [job EXCEPT ![l] = IF k.st = "record" THEN Then(k) ELSE {}]
        /\ Lapse(n, IF k.st = "record" THEN {} ELSE {k.op.path, k.op.old},
                 k.op.vv)
        /\ UNCHANGED <<latest, session, leaf>>
  BY DEF Record
<1> DEFINE T == {}
<1>2. /\ n \in Node /\ k \in Job /\ JobOk(n, k)
      /\ k.op \in Op /\ k.op.path \in Path /\ k.op.vv \in VV
      /\ k.op.old # NoPath => k.op.old \in Path
      /\ k.op \in oplog[l[2]] /\ k.op.origin = l[2]
      /\ \A j \in job[l] : j = k
  BY OneJob
<1>3. /\ k.op.seq = cursor[n][l[2]] + 1 /\ \A p \in Path : ~ Owes(k, p)
      /\ k.contest.remote.vv = k.op.vv /\ k.contest.at = k.op.path
  BY <1>1, <1>2 DEF Sound, OInv, InOrder, Early, Owes, JobOk
<1>4. ApplyRemote(l, k.op, T)
  BY <1>1
<1> HIDE DEF T
<1>5. k.op.old # NoPath => Decide(files'[n][k.op.old], k.op.vv) # "Apply"
  BY <1>2, <1>4, ApplyAccounts
<1>6. ASSUME NEW X, job' = [job EXCEPT ![l] = X], \A x, y \in X : x = y,
             \A x \in X : JobOk(n, x)',
             \A p \in Path : Affects(k.op, p) =>
               \/ Accounted(n, p, k.op.vv)'
               \/ \E x \in X : x.op = k.op /\ Owes(x, p)
      PROVE  QInv'
  <2> DEFINE o == k.op
  <2>1. /\ o \in oplog[l[2]] /\ o.origin = l[2] /\ o.seq = cursor[n][l[2]] + 1
        /\ ApplyRemote(l, o, T)
        /\ \A j \in job[l] : \A p \in Path : ~ Owes(j, p)
        /\ \A p \in Path : Affects(o, p) =>
               \/ Accounted(n, p, o.vv)'
               \/ \E x \in X : x.op = o /\ Owes(x, p)
    BY <1>2, <1>3, <1>4, <1>6
  <2> HIDE DEF o
  <2> QED
    BY <1>1, <1>6, <2>1, RecordSettles
<1>7. CASE k.st = "record"
  <2>1. job' = [job EXCEPT ![l] = Then(k)]
    BY <1>1, <1>7
  <2>2. /\ \A x, y \in Then(k) : x = y
        /\ \A x \in Then(k) : JobOk(n, x)'
        /\ \A p \in Path : p = k.op.old =>
             \E x \in Then(k) : x.op = k.op /\ Owes(x, p)
    BY <1>2, <1>3, <1>5, ThenOk
  <2>3. Accounted(n, k.op.path, k.op.vv)'
    BY <1>2, <1>7, AccountedStays DEF JobOk
  <2>4. \A p \in Path : Affects(k.op, p) =>
          \/ Accounted(n, p, k.op.vv)'
          \/ \E x \in Then(k) : x.op = k.op /\ Owes(x, p)
    BY <2>2, <2>3 DEF Affects
  <2> QED
    BY <1>6, <2>1, <2>2, <2>4
<1>8. CASE k.st = "quarantine"
  <2> DEFINE X == {}
             P == {k.op.path, k.op.old}
  <2>1. /\ job' = [job EXCEPT ![l] = X] /\ Lapse(n, P, k.op.vv)
        /\ \A x \in X : FALSE
    BY <1>1, <1>8
  <2>2. \A p \in Path : Affects(k.op, p) => p \in P
    BY DEF Affects
  <2> HIDE DEF X, P
  <2>3. \A p \in Path : Affects(k.op, p) => Accounted(n, p, k.op.vv)'
    BY <1>2, <2>1, <2>2, LapseCounts DEF Sound
  <2> QED
    BY <1>6, <2>1, <2>3
<1> QED
  BY <1>1, <1>7, <1>8

\* A job fails for good, is resolved, or turns to the source of its rename.
LEMMA WorkingSettles ==
  ASSUME Sound, Onward, NEW l \in Link,
         Quarantine(l) \/ ResolveOp(l) \/ AbandonOp(l) \/ CheckSource(l)
  PROVE  QInv'
<1> DEFINE n == l[1]
<1>1. UNCHANGED <<oplog, latest, cursor, session, leaf>>
  BY DEF Quarantine, ResolveOp, AbandonOp, CheckSource
<1>2. ASSUME NEW k \in job[l], NEW X, job' = [job EXCEPT ![l] = X],
             \A x, y \in X : x = y, \A x \in X : JobOk(n, x)',
             \A p \in Path : (Owes(k, p) /\ Affects(k.op, p)) =>
               \/ Accounted(n, p, k.op.vv)'
               \/ \E x \in X : x.op = k.op /\ Owes(x, p)
      PROVE  QInv'
  <2>1. \A j \in job[l] : j = k
    BY <1>2, OneJob
  <2> QED
    BY <1>1, <1>2, <2>1, JobStepSettles
<1>3. ASSUME NEW k \in job[l], Resolving(k),
             job' = [job EXCEPT ![l] = After(k)],
             Lapse(n, {k.contest.at}, k.contest.remote.vv)
      PROVE  QInv'
  <2> DEFINE P == {k.contest.at}
             vv == k.contest.remote.vv
             at == k.contest.at
  <2>1. Lapse(n, P, vv) /\ at \in P
    BY <1>3
  <2>2. n \in Node /\ vv \in VV /\ at \in Path
    BY <1>3, LinkEnds, CarrierTypes DEF Sound
  <2> HIDE DEF P, vv, at
  <2>3. Accounted(n, at, vv)'
    BY <2>1, <2>2, LapseCounts DEF Sound
  <2> QED
    BY <1>1, <1>3, <2>3, ResolutionEnds DEF at, vv
<1>4. CASE Quarantine(l)
  <2>1. PICK k \in job[l] :
          /\ k.st = "fetch"
          /\ job' = [job EXCEPT ![l] = {[k EXCEPT !.st = "quarantine"]}]
    BY <1>4 DEF Quarantine
  <2> DEFINE y == [k EXCEPT !.st = "quarantine"]
             X == {y}
  <2>2. k \in Job /\ JobOk(n, k)
    BY OneJob
  <2>3. y.op = k.op /\ y.contest = k.contest /\ y.st = "quarantine"
    BY <2>2 DEF Job
  <2>4. k.contest.remote.vv = k.op.vv /\ k.contest.at = k.op.path
    BY <2>1, <2>2 DEF JobOk
  <2>5. job' = [job EXCEPT ![l] = X]
    BY <2>1
  <2> HIDE DEF y
  <2>6. JobOk(n, y)'
    BY <2>3, <2>4, EarlyOk
  <2>7. \A p \in Path : ~ Owes(k, p)
    BY <2>1 DEF Owes
  <2>8. (\A x \in X : JobOk(n, x)') /\ \A x, z \in X : x = z
    BY <2>6
  <2> HIDE DEF X
  <2> QED
    BY <1>2, <2>5, <2>7, <2>8
<1>5. CASE AbandonOp(l)
  <2>1. PICK k \in job[l] :
          /\ Resolving(k) /\ job' = [job EXCEPT ![l] = After(k)]
          /\ Lapse(n, {k.contest.at}, k.contest.remote.vv)
    BY <1>5 DEF AbandonOp
  <2> QED
    BY <1>3, <2>1
<1>6. CASE ResolveOp(l)
  <2>1. PICK k \in job[l] :
          /\ Resolving(k)
          /\ \/ /\ Commit(n, k.contest)
                /\ job' = [job EXCEPT ![l] = After(k)]
             \/ \E plan \in Derivable(n, k.contest) :
                  job' = [job EXCEPT ![l] =
                    {[k EXCEPT !.contest = Restage(@, plan)]}]
             \/ /\ job' = [job EXCEPT ![l] = After(k)]
                /\ Forgo(n, k.contest)
    BY <1>6, Zenon DEF ResolveOp
  <2>2. /\ n \in Node /\ k \in Job /\ k.contest \in ContestsUpTo(Bound)
        /\ JobOk(n, k)
    BY OneJob
  <2>3. CASE Commit(n, k.contest) /\ job' = [job EXCEPT ![l] = After(k)]
    <3> DEFINE c == k.contest
    <3>1. c \in ContestsUpTo(Bound) /\ Commit(n, c)
      BY <2>2, <2>3
    <3> HIDE DEF c
    <3>2. Accounted(n, c.at, c.remote.vv)'
      BY <2>2, <3>1, CommitAccounts
    <3> QED
      BY <1>1, <2>1, <2>3, <3>2, ResolutionEnds DEF c
  <2>4. ASSUME NEW plan, job' = [job EXCEPT ![l] =
                 {[k EXCEPT !.contest = Restage(@, plan)]}]
        PROVE  QInv'
    <3> DEFINE y == [k EXCEPT !.contest = Restage(@, plan)]
               X == {y}
    <3>1. /\ k.contest \in Contest /\ y.op = k.op /\ y.st = k.st
          /\ y.contest = Restage(k.contest, plan)
      BY <2>2 DEF Job
    <3>2. job' = [job EXCEPT ![l] = X]
      BY <2>4
    <3> HIDE DEF y
    <3>3. y.contest.at = k.contest.at /\ y.contest.remote = k.contest.remote
      BY <3>1, RestageKeeps
    <3>4. JobOk(n, k)'
      BY <2>2, JobOkStays
    <3>5. JobOk(n, y)'
      <4>1. Engaged(n, y.contest)' <=> Engaged(n, k.contest)'
        BY <3>3 DEF Engaged
      <4> QED
        BY <3>1, <3>3, <3>4, <4>1 DEF JobOk, Resolving
    <3>6. \A p \in Path : Owes(k, p) => Owes(y, p)
      BY <3>1 DEF Owes
    <3>7. /\ \A x \in X : JobOk(n, x)'
          /\ \A x, z \in X : x = z
          /\ \A p \in Path : (Owes(k, p) /\ Affects(k.op, p)) =>
               \/ Accounted(n, p, k.op.vv)'
               \/ \E x \in X : x.op = k.op /\ Owes(x, p)
      BY <3>1, <3>5, <3>6
    <3> HIDE DEF X
    <3> QED
      BY <1>2, <3>2, <3>7, ZenonT(60)
  <2>5. CASE job' = [job EXCEPT ![l] = After(k)] /\ Forgo(n, k.contest)
    <3> DEFINE c == k.contest
    <3>1. /\ c.at \in Path /\ c.remote.vv \in VV /\ Engaged(n, c)
          /\ Forgo(n, c)
      BY <2>1, <2>2, <2>5, CarrierTypes DEF Sound, JobOk
    <3> HIDE DEF c
    <3>2. Accounted(n, c.at, c.remote.vv)'
      BY <2>2, <3>1, ForgoAccounts
    <3> QED
      BY <1>1, <2>1, <2>5, <3>2, ResolutionEnds DEF c
  <2> QED
    BY <2>1, <2>3, <2>4, <2>5
<1>7. CASE CheckSource(l)
  <2>1. PICK k \in job[l] :
          /\ k.st = "source"
          /\ LET old == k.op.old
             IN  job' = [job EXCEPT ![l] =
                   IF Decide(files[n][old], k.op.vv) = "Concurrent"
                   THEN {[k EXCEPT !.st = "settle",
                                   !.contest = Contend(old,
                                                       EffectAt(k.op, old),
                                                       History(k.op))]}
                   ELSE {}]
          /\ UNCHANGED files
    BY <1>7 DEF CheckSource
  <2>2. /\ n \in Node /\ k \in Job /\ JobOk(n, k) /\ k.op.vv \in VV
        /\ k.op.old # NoPath => k.op.old \in Path
    BY OneJob
  <2>3. \A p \in Path : Owes(k, p) => p = k.op.old
    BY <2>1 DEF Owes
  <2>4. CASE Decide(files[n][k.op.old], k.op.vv) = "Concurrent"
    <3> DEFINE c == Contend(k.op.old, EffectAt(k.op, k.op.old), History(k.op))
               y == [k EXCEPT !.st = "settle", !.contest = c]
               X == {y}
    <3>1. c.at = k.op.old /\ c.remote.vv = k.op.vv
      BY DEF Contend, EffectAt
    <3>2. job' = [job EXCEPT ![l] = X]
      BY <2>1, <2>4
    <3> HIDE DEF c
    <3>3. y.op = k.op /\ y.st = "settle" /\ y.contest = c
      BY <2>2 DEF Job
    <3> HIDE DEF y
    <3>4. JobOk(n, y)'
      <4>1. Engaged(n, y.contest)'
        BY <2>1, <2>4, <3>1, <3>3, DecideCases DEF Engaged
      <4> QED
        BY <3>1, <3>3, <4>1 DEF JobOk
    <3>5. \A p \in Path : Owes(k, p) => y.op = k.op /\ Owes(y, p)
      BY <2>3, <3>3 DEF Owes
    <3>6. /\ \A x \in X : JobOk(n, x)'
          /\ \A x, z \in X : x = z
          /\ \A p \in Path : (Owes(k, p) /\ Affects(k.op, p)) =>
               \/ Accounted(n, p, k.op.vv)'
               \/ \E x \in X : x.op = k.op /\ Owes(x, p)
      BY <3>4, <3>5
    <3> HIDE DEF X
    <3> QED
      BY <1>2, <3>2, <3>6, ZenonT(60)
  <2>5. CASE Decide(files[n][k.op.old], k.op.vv) # "Concurrent"
    <3> DEFINE X == {}
    <3>1. job' = [job EXCEPT ![l] = X] /\ \A x \in X : FALSE
      BY <2>1, <2>5
    <3> HIDE DEF X
    <3>2. ASSUME NEW p \in Path, Owes(k, p)
          PROVE  Accounted(n, p, k.op.vv)'
      <4>1. p = k.op.old /\ k.op.old # NoPath
        BY <2>3, <3>2, ReplicationAssumption
      <4>2. Decide(files[n][p], k.op.vv) = "Ignore"
        BY <2>1, <2>2, <2>5, <4>1, DecideCases DEF JobOk
      <4> QED
        BY <2>2, <4>2, IgnoredIsAccounted
    <3> QED
      BY <1>2, <3>1, <3>2
  <2> QED
    BY <2>4, <2>5
<1> QED
  BY <1>4, <1>5, <1>6, <1>7

-----------------------------------------------------------------------------
(* Anti-entropy *)

\* A step that leaves the jobs alone keeps all that is settled.
LEMMA QuietSettles ==
  ASSUME Sound, Onward, UNCHANGED <<oplog, latest, job>>,
         Single(leaf'), Single(session'), LeavesOk', Behindhand',
         CursorSettled', SessionsSettle'
  PROVE  QInv'
<1>1. \A m \in Node : Originated(m)' = Originated(m)
  BY DEF Originated
<1>2. Authored'
  BY <1>1, AuthoredStays
<1>3. Single(job')
  BY DEF Sound, QInv, Single
<1>4. JobsOk'
  BY JobOkStays DEF Sound, QInv, JobsOk
<1>5. RecordsSettled'
  BY SettledQuietly, CarrierTypes DEF Sound, QInv, RecordsSettled
<1> QED
  BY <1>2, <1>3, <1>4, <1>5 DEF QInv

\* A cursor that does not move stays settled.
LEMMA CursorStays ==
  ASSUME Sound, Onward, UNCHANGED <<oplog, cursor, job>>
  PROVE  CursorSettled'
<1> SUFFICES ASSUME NEW l \in Link, NEW o \in Originated(l[2]),
                    o.seq <= cursor[l[1]][l[2]]
             PROVE  Settled(l[1], o)'
  BY DEF CursorSettled, Originated
<1>1. l[1] \in Node /\ l[2] \in Node /\ o \in Op
  BY LinkEnds, CarrierTypes DEF Sound, Originated
<1>2. Settled(l[1], o)
  BY DEF Sound, QInv, CursorSettled
<1> QED
  BY <1>1, <1>2, SettledQuietly

\* Only one link's session and leaf change.
LEMMA SessionMoves ==
  ASSUME Sound, Onward, UNCHANGED oplog, NEW l \in Link,
         \A j \in Link : j # l =>
           session'[j] \subseteq session[j] /\ leaf'[j] = leaf[j],
         \A s \in session'[l] : \A o \in Originated(l[2]) :
           o.seq <= s.frontier => \A p \in Path : Affects(o, p) =>
             Accounted(l[1], p, o.vv)' \/ InSession(l, s, p, o.vv)'
  PROVE  SessionsSettle'
<1> SUFFICES ASSUME NEW j \in Link, NEW s \in session'[j],
                    NEW o \in Originated(j[2]), o.seq <= s.frontier,
                    NEW p \in Path, Affects(o, p)
             PROVE  Accounted(j[1], p, o.vv)' \/ InSession(j, s, p, o.vv)'
  BY DEF SessionsSettle, Originated
<1>1. CASE j = l
  BY <1>1
<1>2. CASE j # l
  <2>1. s \in session[j] /\ leaf'[j] = leaf[j]
    BY <1>2
  <2>2. Accounted(j[1], p, o.vv) \/ InSession(j, s, p, o.vv)
    BY <2>1 DEF Sound, QInv, SessionsSettle
  <2>3. j[1] \in Node /\ o.vv \in VV
    BY LinkEnds, CarrierTypes DEF Sound, Originated
  <2>4. InSession(j, s, p, o.vv) => InSession(j, s, p, o.vv)'
    BY <2>1 DEF InSession
  <2> QED
    BY <2>2, <2>3, <2>4, AccountedStays
<1> QED
  BY <1>1, <1>2

\* A snapshot holds all that its responder has originated.
LEMMA SnapshotSettles ==
  ASSUME Sound, Onward, NEW l \in Link, Connect(l) \/ PeriodicReconcile(l)
  PROVE  QInv'
<1> DEFINE m == l[2]
           t == Snapshot(m)
<1>1. /\ session' = [session EXCEPT ![l] = {t}] /\ m \in Node
      /\ UNCHANGED <<oplog, latest, cursor, job, leaf>>
  BY LinkEnds DEF Connect, PeriodicReconcile
<1>2. /\ session'[l] = {t}
      /\ \A j \in Link : j # l => session'[j] = session[j]
  BY <1>1 DEF Sound, IInv, Fits
<1>3. t.rows = files[m] /\ t.frontier = latest[m] /\ latest[m] \in Nat
  BY <1>1 DEF Snapshot, Sound, IInv, Counters
<1> HIDE DEF t
<1>4. ASSUME NEW s \in session'[l], NEW o \in Originated(m), NEW p \in Path,
             Affects(o, p)
      PROVE  InSession(l, s, p, o.vv)'
  <2>1. Leq(o.vv, s.rows[p].vv)
    BY <1>1, <1>2, <1>3, <1>4 DEF Sound, QInv, Authored
  <2> QED
    BY <2>1 DEF InSession
<1>5. SessionsSettle'
  BY <1>1, <1>2, <1>4, SessionMoves
<1>6. Single(leaf') /\ Single(session') /\ LeavesOk'
  BY <1>1, <1>2, LeavesStay DEF Sound, QInv, Single
<1>7. Behindhand'
  BY <1>1, <1>2, <1>3 DEF Sound, QInv, Behindhand
<1> QED
  BY <1>1, <1>5, <1>6, <1>7, CursorStays, QuietSettles

\* A leaf is handled: what it stood for is accounted for, or the leaf that
\* replaces it still stands for it.
LEMMA LeafEnds ==
  ASSUME Sound, Onward, UNCHANGED <<oplog, latest, cursor, job, session>>,
         NEW l \in Link, NEW k \in leaf[l], NEW X,
         leaf' = [leaf EXCEPT ![l] = X], \A x, y \in X : x = y,
         \A x \in X : x.st = "resolve" => Engaged(l[1], x.contest)',
         \/ Accounted(l[1], k.contest.at, k.contest.remote.vv)'
         \/ \E x \in X : /\ x.contest.at = k.contest.at
                         /\ x.contest.remote = k.contest.remote
  PROVE  QInv'
<1>1. leaf'[l] = X /\ \A j \in Link : j # l => leaf'[j] = leaf[j]
  BY DEF Sound, IInv, Fits
<1>2. /\ l[1] \in Node /\ k.contest.remote.vv \in VV /\ k.contest.at \in Path
      /\ \A j \in leaf[l] : j = k
  BY LinkEnds, CarrierTypes DEF Sound, QInv, Single
<1>3. ASSUME NEW s \in session[l], NEW o \in Originated(l[2]),
             o.seq <= s.frontier, NEW p \in Path, Affects(o, p)
      PROVE  Accounted(l[1], p, o.vv)' \/ InSession(l, s, p, o.vv)'
  <2>1. o.vv \in VV
    BY LinkEnds, CarrierTypes DEF Sound, Originated
  <2>2. CASE Accounted(l[1], p, o.vv)
    BY <1>2, <2>1, <2>2, AccountedStays
  <2>3. CASE Leq(o.vv, s.rows[p].vv)
    BY <2>3 DEF InSession
  <2>4. CASE k.contest.at = p /\ Leq(o.vv, k.contest.remote.vv)
    <3>1. CASE Accounted(l[1], k.contest.at, k.contest.remote.vv)'
      <4> DEFINE w == k.contest.remote.vv
      <4>1. w \in VV /\ Leq(o.vv, w) /\ Accounted(l[1], p, w)'
        BY <1>2, <2>4, <3>1
      <4> HIDE DEF w
      <4> QED
        BY <1>2, <2>1, <4>1, AccountedBelow
    <3>2. CASE \E x \in X : /\ x.contest.at = k.contest.at
                            /\ x.contest.remote = k.contest.remote
      BY <1>1, <2>4, <3>2 DEF InSession
    <3> QED
      BY <3>1, <3>2
  <2>5. Accounted(l[1], p, o.vv) \/ InSession(l, s, p, o.vv)
    BY <1>3 DEF Sound, QInv, SessionsSettle
  <2> QED
    BY <1>2, <2>2, <2>3, <2>4, <2>5 DEF InSession
<1>4. SessionsSettle'
  BY <1>1, <1>3, SessionMoves
<1>5. Single(leaf') /\ Single(session')
  BY <1>1 DEF Sound, QInv, Single
<1>6. LeavesOk'
  BY <1>1, LeavesStayElsewhere
<1>7. Behindhand'
  BY DEF Sound, QInv, Behindhand
<1> QED
  BY <1>4, <1>5, <1>6, <1>7, CursorStays, QuietSettles

\* The three ways a leaf ends, and its late conflict.
LEMMA LeafSettles ==
  ASSUME Sound, Onward, NEW l \in Link,
         Upsert(l) \/ ResolveLeaf(l) \/ SkipLeaf(l)
  PROVE  QInv'
<1> DEFINE n == l[1]
<1>1. UNCHANGED <<oplog, latest, cursor, job, session>> /\ n \in Node
  BY LinkEnds DEF Upsert, ResolveLeaf, SkipLeaf
<1>2. ASSUME NEW k \in leaf[l], leaf' = [leaf EXCEPT ![l] = {}],
             Accounted(n, k.contest.at, k.contest.remote.vv)'
      PROVE  QInv'
  <2> DEFINE X == {}
  <2>1. leaf' = [leaf EXCEPT ![l] = X] /\ \A x \in X : FALSE
    BY <1>2
  <2> HIDE DEF X
  <2> QED
    BY <1>1, <1>2, <2>1, LeafEnds
<1>3. ASSUME NEW k \in leaf[l], leaf' = [leaf EXCEPT ![l] = {}],
             Lapse(n, {k.contest.at}, k.contest.remote.vv)
      PROVE  QInv'
  <2> DEFINE P == {k.contest.at}
             vv == k.contest.remote.vv
             at == k.contest.at
  <2>1. Lapse(n, P, vv) /\ at \in P
    BY <1>3
  <2>2. n \in Node /\ vv \in VV /\ at \in Path
    BY <1>3, LinkEnds, CarrierTypes DEF Sound
  <2> HIDE DEF P, vv, at
  <2>3. Accounted(n, at, vv)'
    BY <2>1, <2>2, LapseCounts DEF Sound
  <2> QED
    BY <1>2, <1>3, <2>3 DEF at, vv
<1>4. CASE SkipLeaf(l)
  <2>1. PICK k \in leaf[l] :
          /\ leaf' = [leaf EXCEPT ![l] = {}]
          /\ Lapse(n, {k.contest.at}, k.contest.remote.vv)
    BY <1>4 DEF SkipLeaf
  <2> QED
    BY <1>3, <2>1
<1>5. CASE ResolveLeaf(l)
  <2>1. PICK k \in leaf[l] :
          /\ k.st = "resolve"
          /\ \/ /\ Commit(n, k.contest)
                /\ leaf' = [leaf EXCEPT ![l] = {}]
             \/ \E plan \in Derivable(n, k.contest) :
                  leaf' = [leaf EXCEPT ![l] =
                    {[k EXCEPT !.contest = Restage(@, plan)]}]
             \/ /\ leaf' = [leaf EXCEPT ![l] = {}]
                /\ Forgo(n, k.contest)
    BY <1>5, Zenon DEF ResolveLeaf
  <2>2. /\ k \in Leaf /\ k.contest \in ContestsUpTo(Bound)
        /\ k.contest.at \in Path /\ k.contest.remote.vv \in VV
        /\ Engaged(n, k.contest)
    BY <2>1, CarrierTypes
       DEF Sound, IInv, Fits, LeavesUpTo, QInv, LeavesOk
  <2>3. CASE Commit(n, k.contest) /\ leaf' = [leaf EXCEPT ![l] = {}]
    <3> DEFINE c == k.contest
    <3>1. c \in ContestsUpTo(Bound) /\ Commit(n, c)
      BY <2>2, <2>3
    <3> HIDE DEF c
    <3>2. Accounted(n, c.at, c.remote.vv)'
      BY <1>1, <3>1, CommitAccounts
    <3> QED
      BY <1>2, <2>3, <3>2 DEF c
  <2>4. ASSUME NEW plan, leaf' = [leaf EXCEPT ![l] =
                 {[k EXCEPT !.contest = Restage(@, plan)]}]
        PROVE  QInv'
    <3> DEFINE y == [k EXCEPT !.contest = Restage(@, plan)]
               X == {y}
    <3>1. k.contest \in Contest /\ y.contest = Restage(k.contest, plan)
      BY <2>2 DEF Leaf
    <3>2. leaf' = [leaf EXCEPT ![l] = X]
      BY <2>4
    <3> HIDE DEF y
    <3>3. y.contest.at = k.contest.at /\ y.contest.remote = k.contest.remote
      BY <3>1, RestageKeeps
    <3>4. Engaged(n, y.contest)'
      BY <1>1, <2>2, <3>3, EngagedStays DEF Engaged
    <3>5. /\ \A x, z \in X : x = z
          /\ \A x \in X : x.st = "resolve" => Engaged(n, x.contest)'
          /\ \E x \in X : /\ x.contest.at = k.contest.at
                          /\ x.contest.remote = k.contest.remote
      BY <3>3, <3>4
    <3> HIDE DEF X
    <3> QED
      BY <1>1, <3>2, <3>5, LeafEnds
  <2>5. CASE leaf' = [leaf EXCEPT ![l] = {}] /\ Forgo(n, k.contest)
    <3> DEFINE c == k.contest
    <3>1. /\ c.at \in Path /\ c.remote.vv \in VV /\ Engaged(n, c)
          /\ Forgo(n, c)
      BY <2>2, <2>5
    <3> HIDE DEF c
    <3>2. Accounted(n, c.at, c.remote.vv)'
      BY <1>1, <3>1, ForgoAccounts
    <3> QED
      BY <1>2, <2>5, <3>2 DEF c
  <2> QED
    BY <2>1, <2>3, <2>4, <2>5
<1>6. CASE Upsert(l)
  <2>1. PICK k \in leaf[l] :
          LET c == k.contest
              d == Decide(files[n][c.at], c.remote.vv)
          IN  /\ files' = [files EXCEPT ![n][c.at] =
                   IF d = "Apply" THEN Adopt(@, c.remote) ELSE @]
              /\ leaf' = [leaf EXCEPT ![l] =
                   IF d = "Concurrent" THEN {[k EXCEPT !.st = "resolve"]}
                   ELSE {}]
    BY <1>6 DEF Upsert
  <2> DEFINE c == k.contest
             d == Decide(files[n][c.at], c.remote.vv)
  <2>2. /\ k \in Leaf /\ c.at \in Path /\ c.remote.vv \in VV
        /\ files[n][c.at].vv \in VV /\ files \in [Node -> [Path -> Version]]
    BY <1>1, CarrierTypes DEF Sound, IInv, Fits, LeavesUpTo, VersionsUpTo
  <2>3. CASE d = "Concurrent"
    <3> DEFINE y == [k EXCEPT !.st = "resolve"]
               X == {y}
    <3>1. y.contest = k.contest
      BY <2>2 DEF Leaf
    <3>2. leaf' = [leaf EXCEPT ![l] = X]
      BY <2>1, <2>3
    <3> HIDE DEF y
    <3>3. Engaged(n, y.contest)'
      BY <1>1, <2>2, <2>3, <3>1, ConcurrentEngages
    <3>4. /\ \A x, z \in X : x = z
          /\ \A x \in X : x.st = "resolve" => Engaged(n, x.contest)'
          /\ \E x \in X : /\ x.contest.at = k.contest.at
                          /\ x.contest.remote = k.contest.remote
      BY <3>1, <3>3
    <3> HIDE DEF X
    <3> QED
      BY <1>1, <3>2, <3>4, LeafEnds
  <2>4. CASE d = "Ignore"
    <3>1. leaf' = [leaf EXCEPT ![l] = {}]
      BY <2>1, <2>4
    <3> DEFINE at == c.at
               vv == c.remote.vv
    <3>2. Decide(files[n][at], vv) = "Ignore" /\ at \in Path /\ vv \in VV
      BY <2>2, <2>4
    <3> HIDE DEF at, vv
    <3>3. Accounted(n, at, vv)'
      BY <1>1, <3>2, IgnoredIsAccounted
    <3> QED
      BY <1>2, <3>1, <3>3 DEF at, vv
  <2>5. CASE d = "Apply"
    <3>1. leaf' = [leaf EXCEPT ![l] = {}]
      BY <2>1, <2>5
    <3>2. files'[n][c.at] = Adopt(files[n][c.at], c.remote)
      BY <1>1, <2>1, <2>2, <2>5
    <3>3. files'[n][c.at].vv = Merge(files[n][c.at].vv, c.remote.vv)
      BY <3>2 DEF Adopt
    <3>4. Leq(c.remote.vv, files'[n][c.at].vv)
      <4> DEFINE u == files[n][c.at].vv
                 v == c.remote.vv
      <4>1. u \in VV /\ v \in VV /\ files'[n][c.at].vv = Merge(u, v)
        BY <2>2, <3>3
      <4> HIDE DEF u, v
      <4>2. Leq(v, Merge(u, v))
        BY <4>1, MergeIsLub
      <4> QED
        BY <4>1, <4>2 DEF v
    <3>5. Accounted(n, k.contest.at, k.contest.remote.vv)'
      BY <3>4 DEF Accounted
    <3> QED
      BY <1>2, <3>1, <3>5
  <2>6. d \in {"Apply", "Ignore", "Concurrent"}
    BY DecideCases
  <2> QED
    BY <2>3, <2>4, <2>5, <2>6
<1> QED
  BY <1>4, <1>5, <1>6

\* Taking up a leaf: the snapshot hands it over, or it is gone on without.
LEMMA HandleLeafSettles ==
  ASSUME Sound, Onward, NEW l \in Link, NEW p \in Path, HandleLeaf(l, p)
  PROVE  QInv'
<1> DEFINE n == l[1]
<1>1. PICK s \in session[l] :
        LET k == Contend(p, s.rows[p], s.seen[p])
        IN  /\ leaf[l] = {}
            /\ session' = [session EXCEPT ![l] = {[s EXCEPT !.rows[p] = NoRow]}]
            /\ UNCHANGED <<oplog, latest, cursor, job>>
            /\ \/ leaf' = [leaf EXCEPT ![l] = {[st |-> "fetch", contest |-> k]}]
               \/ /\ Decide(files[n][p], s.rows[p].vv) = "Concurrent"
                  /\ \E plan \in Derivable(n, k) :
                       leaf' = [leaf EXCEPT ![l] =
                         {[st |-> "resolve", contest |-> Restage(k, plan)]}]
               \/ UNCHANGED leaf /\ Lapse(n, {p}, s.rows[p].vv)
  BY Zenon DEF HandleLeaf
<1> DEFINE k == Contend(p, s.rows[p], s.seen[p])
           t == [s EXCEPT !.rows[p] = NoRow]
<1>2. /\ s \in Session /\ s \in SessionsUpTo(Bound) /\ n \in Node
      /\ s.rows[p].vv \in VV
  BY LinkEnds, CarrierTypes DEF Sound, IInv, Fits, SessionsUpTo
<1>3. k.at = p /\ k.remote = s.rows[p] /\ k \in Contest
  <2>1. s.rows[p] \in VersionsUpTo(Bound) /\ s.seen[p] \in SUBSET OpId
    BY <1>2 DEF SessionsUpTo, Session
  <2>2. k \in ContestsUpTo(Bound)
    BY <2>1, ContendType
  <2> QED
    BY <2>2 DEF Contend, ContestsUpTo
<1>4. /\ session'[l] = {t}
      /\ \A j \in Link : j # l => session'[j] = session[j]
  BY <1>1 DEF Sound, IInv, Fits
<1>5. /\ \A q \in Path : q # p => t.rows[q] = s.rows[q]
      /\ t.frontier = s.frontier
  BY <1>2 DEF Session
<1> HIDE DEF k, t
<1>6. ASSUME NEW y, leaf' = [leaf EXCEPT ![l] = {y}],
             y.contest.at = p, y.contest.remote = s.rows[p],
             y.st = "resolve" => Engaged(n, y.contest)'
      PROVE  /\ leaf'[l] = {y}
             /\ \A x \in leaf'[l] : x.st = "resolve"
                                       => Engaged(n, x.contest)'
             /\ \A j \in Link : j # l => leaf'[j] = leaf[j]
  BY <1>6 DEF Sound, IInv, Fits
<1>7. \/ Accounted(n, p, s.rows[p].vv)' /\ leaf' = leaf
      \/ /\ \E y : /\ leaf'[l] = {y} /\ y.contest.at = p
                   /\ y.contest.remote = s.rows[p]
         /\ \A x \in leaf'[l] : x.st = "resolve" => Engaged(n, x.contest)'
         /\ \A j \in Link : j # l => leaf'[j] = leaf[j]
  <2>1. CASE leaf' = [leaf EXCEPT ![l] = {[st |-> "fetch", contest |-> k]}]
    <3> DEFINE y == [st |-> "fetch", contest |-> k]
    <3>1. y.contest.at = p /\ y.contest.remote = s.rows[p] /\ y.st # "resolve"
      BY <1>3
    <3>2. leaf' = [leaf EXCEPT ![l] = {y}]
      BY <2>1
    <3> HIDE DEF y
    <3> QED
      BY <1>6, <3>1, <3>2
  <2>2. ASSUME Decide(files[n][p], s.rows[p].vv) = "Concurrent",
               NEW plan, leaf' = [leaf EXCEPT ![l] =
                 {[st |-> "resolve", contest |-> Restage(k, plan)]}]
        PROVE  /\ \E y : /\ leaf'[l] = {y} /\ y.contest.at = p
                         /\ y.contest.remote = s.rows[p]
               /\ \A x \in leaf'[l] : x.st = "resolve"
                                         => Engaged(n, x.contest)'
               /\ \A j \in Link : j # l => leaf'[j] = leaf[j]
    <3> DEFINE c == Restage(k, plan)
               y == [st |-> "resolve", contest |-> c]
    <3>1. c.at = p /\ c.remote = s.rows[p]
      BY <1>3, RestageKeeps
    <3>2. leaf' = [leaf EXCEPT ![l] = {y}]
      BY <2>2
    <3> HIDE DEF c
    <3>3. y.contest = c
      OBVIOUS
    <3> HIDE DEF y
    <3>4. Engaged(n, y.contest)'
      BY <1>2, <2>2, <3>1, <3>3, ConcurrentEngages
    <3> QED
      BY <1>6, <3>1, <3>2, <3>3, <3>4
  <2>3. CASE UNCHANGED leaf /\ Lapse(n, {p}, s.rows[p].vv)
    <3> DEFINE P == {p}
               vv == s.rows[p].vv
    <3>1. Lapse(n, P, vv) /\ p \in P /\ vv \in VV
      BY <1>2, <2>3
    <3> HIDE DEF P, vv
    <3>2. Accounted(n, p, vv)'
      BY <1>2, <3>1, LapseCounts DEF Sound
    <3> QED
      BY <2>3, <3>2 DEF vv
  <2> QED
    BY <1>1, <2>1, <2>2, <2>3 DEF k
<1>8. /\ \A j \in Link : j # l => leaf'[j] = leaf[j]
      /\ Single(leaf') /\ Single(session')
  BY <1>1, <1>4, <1>7 DEF Sound, QInv, Single
<1>9. LeavesOk'
  BY <1>7, LeavesStay, LeavesStayElsewhere
<1>10. ASSUME NEW o \in Originated(l[2]), o.seq <= s.frontier,
             NEW q \in Path, Affects(o, q), NEW z, z = t
      PROVE  Accounted(n, q, o.vv)' \/ InSession(l, z, q, o.vv)'
  <2>1. o.vv \in VV
    BY LinkEnds, CarrierTypes DEF Sound, Originated
  <2>2. Accounted(n, q, o.vv) \/ Leq(o.vv, s.rows[q].vv)
    BY <1>1, <1>10 DEF Sound, QInv, SessionsSettle, InSession
  <2>3. CASE Accounted(n, q, o.vv)
    BY <1>2, <2>1, <2>3, AccountedStays
  <2>4. CASE Leq(o.vv, s.rows[q].vv) /\ q # p
    BY <1>5, <1>10, <2>4 DEF InSession
  <2>5. CASE Leq(o.vv, s.rows[q].vv) /\ q = p
    <3>1. CASE Accounted(n, p, s.rows[p].vv)'
      <4> DEFINE w == s.rows[p].vv
      <4>1. w \in VV /\ Leq(o.vv, w) /\ Accounted(n, p, w)'
        BY <1>2, <2>5, <3>1
      <4> HIDE DEF w
      <4> QED
        BY <1>2, <2>1, <2>5, <4>1, AccountedBelow
    <3>2. CASE \E y : /\ leaf'[l] = {y} /\ y.contest.at = p
                      /\ y.contest.remote = s.rows[p]
      BY <2>5, <3>2 DEF InSession
    <3> QED
      BY <1>7, <3>1, <3>2
  <2> QED
    BY <2>2, <2>3, <2>4, <2>5
<1>11. SessionsSettle'
  <2>1. \A z \in session'[l] : z = t /\ z.frontier = s.frontier
    BY <1>4, <1>5
  <2>2. \A z \in session'[l] : \A o \in Originated(l[2]) :
          o.seq <= z.frontier => \A q \in Path : Affects(o, q) =>
            Accounted(n, q, o.vv)' \/ InSession(l, z, q, o.vv)'
    BY <1>10, <2>1
  <2> QED
    BY <1>1, <1>4, <1>8, <2>2, SessionMoves
<1>12. Behindhand'
  BY <1>1, <1>4, <1>5 DEF Sound, QInv, Behindhand
<1> QED
  BY <1>1, <1>8, <1>11, <1>12, <1>9, CursorStays, QuietSettles

\* The gate's handoff: with nothing pending, all that the frontier counts is
\* settled, and the cursor may move there.
LEMMA SessionDoneSettles ==
  ASSUME Sound, Onward, NEW l \in Link, SessionDone(l)
  PROVE  QInv'
<1> DEFINE n == l[1]
           m == l[2]
<1>1. PICK s \in session[l] :
        /\ leaf[l] = {}
        /\ \A p \in Path : ~ Pending(n, s, p)
        /\ session' = [session EXCEPT ![l] = {}]
        /\ cursor' = [cursor EXCEPT ![n][m] =
             IF conn[l] = "gate" THEN Larger(@, s.frontier) ELSE @]
        /\ UNCHANGED <<files, oplog, latest, job, leaf, lapsed>>
  BY DEF SessionDone
<1>2. /\ n \in Node /\ m \in Node /\ cursor \in [Node -> [Node -> Nat]]
      /\ s \in Session
  BY LinkEnds DEF Sound, IInv, Fits, Counters, SessionsUpTo
<1>3. /\ cursor'[n][m] \in {cursor[n][m], s.frontier}
      /\ \A i, k \in Node : (i # n \/ k # m) => cursor'[i][k] = cursor[i][k]
  BY <1>1, <1>2 DEF Larger
<1>4. session'[l] = {} /\ \A j \in Link : j # l => session'[j] = session[j]
  BY <1>1 DEF Sound, IInv, Fits
<1>5. ASSUME NEW o \in Originated(m), o.seq <= s.frontier
      PROVE  Settled(n, o)'
  <2> SUFFICES ASSUME NEW p \in Path, Affects(o, p)
               PROVE  Accounted(n, p, o.vv)'
    BY DEF Settled
  <2>1. Accounted(n, p, o.vv) \/ Leq(o.vv, s.rows[p].vv)
    BY <1>1, <1>5 DEF Sound, QInv, SessionsSettle, InSession
  <2>2. o.vv \in VV /\ s.rows[p].vv \in VV /\ files[n][p].vv \in VV
    BY <1>2, CarrierTypes DEF Sound, Originated
  <2>3. Leq(s.rows[p].vv, files[n][p].vv)
    BY <1>1, DecideCases DEF Pending
  <2>4. Leq(o.vv, s.rows[p].vv) => Leq(o.vv, files[n][p].vv)
    BY <2>2, <2>3, LeqTransitive
  <2>5. Accounted(n, p, o.vv)
    BY <2>1, <2>4 DEF Accounted
  <2> QED
    BY <1>2, <2>2, <2>5, AccountedStays
<1>6. CursorSettled'
  <2> SUFFICES ASSUME NEW j \in Link, NEW o \in Originated(j[2]),
                      o.seq <= cursor'[j[1]][j[2]]
               PROVE  Settled(j[1], o)'
    BY <1>1 DEF CursorSettled, Originated
  <2>1. j[1] \in Node /\ j[2] \in Node /\ o \in Op
    BY LinkEnds, CarrierTypes DEF Sound, Originated
  <2>2. CASE j = l /\ cursor'[n][m] = s.frontier
    BY <1>5, <2>2
  <2>3. CASE ~ (j = l /\ cursor'[n][m] = s.frontier)
    <3>1. cursor'[j[1]][j[2]] = cursor[j[1]][j[2]]
      BY <1>3, <2>1, <2>3, SameLink
    <3>2. Settled(j[1], o)
      BY <3>1 DEF Sound, QInv, CursorSettled
    <3> QED
      BY <1>1, <2>1, <3>2, SettledQuietly
  <2> QED
    BY <2>2, <2>3
<1>7. Behindhand'
  <2> SUFFICES ASSUME NEW j \in Link
               PROVE  /\ cursor'[j[1]][j[2]] <= latest[j[2]]
                      /\ \A x \in session'[j] : x.frontier <= latest[j[2]]
    BY <1>1 DEF Behindhand
  <2>1. /\ cursor[j[1]][j[2]] <= latest[j[2]]
        /\ \A x \in session[j] : x.frontier <= latest[j[2]]
    BY DEF Sound, QInv, Behindhand
  <2>2. CASE j = l
    BY <1>3, <1>4, <2>1, <2>2
  <2>3. CASE j # l
    <3>1. cursor'[j[1]][j[2]] = cursor[j[1]][j[2]]
      BY <1>3, <2>3, LinkEnds, SameLink
    <3> QED
      BY <1>4, <2>1, <2>3, <3>1
  <2> QED
    BY <2>2, <2>3
<1>8. SessionsSettle'
  <2>1. \A j \in Link : j # l =>
          session'[j] \subseteq session[j] /\ leaf'[j] = leaf[j]
    BY <1>1, <1>4
  <2> QED
    BY <1>1, <1>4, <2>1, SessionMoves
<1>9. Single(leaf') /\ Single(session') /\ LeavesOk'
  BY <1>1, <1>4, LeavesStay DEF Sound, QInv, Single
<1> QED
  BY <1>1, <1>6, <1>7, <1>8, <1>9, QuietSettles

\* A periodic session that is given up leaves nothing to account for.
LEMMA AbortSettles ==
  ASSUME Sound, Onward, NEW l \in Link, AbortSession(l)
  PROVE  QInv'
<1>1. /\ session' = [session EXCEPT ![l] = {}]
      /\ leaf' = [leaf EXCEPT ![l] = {}]
      /\ UNCHANGED <<oplog, latest, cursor, job>>
  BY DEF AbortSession
<1>2. /\ session'[l] = {} /\ leaf'[l] = {}
      /\ \A j \in Link : j # l => session'[j] = session[j] /\ leaf'[j] = leaf[j]
  BY <1>1 DEF Sound, IInv, Fits
<1>3. SessionsSettle'
  <2>1. \A j \in Link : j # l =>
          session'[j] \subseteq session[j] /\ leaf'[j] = leaf[j]
    BY <1>2
  <2> QED
    BY <1>1, <1>2, <2>1, SessionMoves
<1>4. Single(leaf') /\ Single(session') /\ LeavesOk'
  BY <1>2, LeavesStay DEF Sound, QInv, Single
<1>5. Behindhand'
  BY <1>1, <1>2 DEF Sound, QInv, Behindhand
<1> QED
  BY <1>1, <1>3, <1>4, <1>5, CursorStays, QuietSettles

-----------------------------------------------------------------------------
(* Failures and local operations *)

\* A lost connection: what its job still owed is put on the node's list.
LEMMA CutSettles ==
  ASSUME Sound, Onward, NEW L, L \subseteq Link, Cut(L)
  PROVE  QInv'
<1>1. /\ UNCHANGED <<files, oplog, latest, cursor>>
      /\ \A l \in Link :
           /\ job'[l] = IF l \in L THEN {} ELSE job[l]
           /\ session'[l] = IF l \in L THEN {} ELSE session[l]
           /\ leaf'[l] = IF l \in L THEN {} ELSE leaf[l]
  BY DEF Cut
<1>2. \A n \in Node, p \in Path :
        lapsed'[n][p] = lapsed[n][p] \cup Unfinished(L, n, p)
  BY CutLapsed DEF Sound
<1>3. \A m \in Node : Originated(m)' = Originated(m)
  BY <1>1 DEF Originated
<1>4. ASSUME NEW n \in Node, NEW o \in Op, Settled(n, o)
      PROVE  Settled(n, o)'
  <2> SUFFICES ASSUME NEW p \in Path, Affects(o, p)
               PROVE  Accounted(n, p, o.vv)' \/ Owed(n, o, p)'
    BY DEF Settled
  <2>1. o.vv \in VV
    BY DEF Op
  <2>2. CASE Accounted(n, p, o.vv)
    BY <2>1, <2>2, AccountedStays
  <2>3. CASE Owed(n, o, p)
    <3>1. PICK j \in Link :
            j[1] = n /\ \E k \in job[j] : k.op = o /\ Owes(k, p)
      BY <2>3 DEF Owed
    <3>2. PICK k \in job[j] : k.op = o /\ Owes(k, p)
      BY <3>1
    <3>3. CASE j \notin L
      BY <1>1, <3>1, <3>2, <3>3 DEF Owed
    <3>4. CASE j \in L
      <4>1. CASE Leq(o.vv, files[n][p].vv)
        BY <1>1, <4>1 DEF Accounted
      <4>2. CASE ~ Leq(o.vv, files[n][p].vv)
        <5>1. k \in UNION {job[l] : l \in {l \in L : l[1] = n}}
          BY <3>1, <3>2, <3>4
        <5>2. k.st \in {"late", "source", "settle"}
          BY <3>2 DEF Owes
        <5>3. k.op.vv \in Unfinished(L, n, p)
          BY <3>2, <4>2, <5>1, <5>2 DEF Unfinished
        <5>4. o.vv \in lapsed'[n][p] /\ Leq(o.vv, o.vv)
          BY <1>2, <2>1, <3>2, <5>3, LeqReflexive
        <5> QED
          BY <5>4 DEF Accounted
      <4> QED
        BY <4>1, <4>2
    <3> QED
      BY <3>3, <3>4
  <2> QED
    BY <1>4, <2>2, <2>3 DEF Settled
<1>5. Single(job') /\ Single(leaf') /\ Single(session')
  <2>1. Single(job')
    BY <1>1 DEF Sound, QInv, Single
  <2>2. Single(leaf')
    BY <1>1 DEF Sound, QInv, Single
  <2>3. Single(session')
    BY <1>1 DEF Sound, QInv, Single
  <2> QED
    BY <2>1, <2>2, <2>3
<1>6. JobsOk' /\ LeavesOk'
  BY <1>1, JobOkStays, LeavesStay DEF Sound, QInv, JobsOk
<1>7. Authored'
  BY <1>3, AuthoredStays
<1>8. Behindhand'
  BY <1>1 DEF Sound, QInv, Behindhand
<1>9. RecordsSettled'
  BY <1>1, <1>4, CarrierTypes DEF Sound, QInv, RecordsSettled
<1>10. CursorSettled'
  BY <1>1, <1>3, <1>4, LinkEnds, CarrierTypes
     DEF Sound, QInv, CursorSettled, Originated
<1>11. SessionsSettle'
  <2> SUFFICES ASSUME NEW l \in Link, NEW s \in session'[l],
                      NEW o \in Originated(l[2]), o.seq <= s.frontier,
                      NEW p \in Path, Affects(o, p)
               PROVE  Accounted(l[1], p, o.vv)' \/ InSession(l, s, p, o.vv)'
    BY <1>3, LinkEnds DEF SessionsSettle
  <2>1. s \in session[l] /\ leaf'[l] = leaf[l]
    BY <1>1
  <2>2. Accounted(l[1], p, o.vv) \/ InSession(l, s, p, o.vv)
    BY <2>1 DEF Sound, QInv, SessionsSettle
  <2>3. l[1] \in Node /\ o.vv \in VV
    BY LinkEnds, CarrierTypes DEF Sound, Originated
  <2>4. InSession(l, s, p, o.vv) => InSession(l, s, p, o.vv)'
    BY <2>1 DEF InSession
  <2> QED
    BY <2>2, <2>3, <2>4, AccountedStays
<1> QED
  BY <1>5, <1>6, <1>7, <1>8, <1>9, <1>10, <1>11 DEF QInv

\* Originating the op a: its author's rows cover it, and no cursor or
\* frontier has counted it yet.
LEMMA OriginSettles ==
  ASSUME Sound, Onward, NEW n \in Node, NEW a \in Op,
         a.origin = n, a.seq = latest[n] + 1,
         oplog' = [oplog EXCEPT ![n] = @ \cup {a}],
         latest' = [latest EXCEPT ![n] = @ + 1],
         UNCHANGED <<cursor, job, session, leaf>>,
         \A p \in Path : Affects(a, p) => files'[n][p].vv = a.vv
  PROVE  QInv'
<1>1. /\ oplog \in [Node -> SUBSET Op] /\ latest \in [Node -> Nat]
      /\ a.vv \in VV
  BY DEF Sound, IInv, Fits, OpsUpTo, Counters, Op
<1>2. /\ oplog'[n] = oplog[n] \cup {a}
      /\ \A m \in Node : m # n => oplog'[m] = oplog[m]
  BY <1>1
<1>3. /\ \A m \in Node : \A o \in Originated(m)' :
           o \in Originated(m) \/ (m = n /\ o = a)
      /\ \A m \in Node : \A o \in Originated(m) :
           /\ o \in Op /\ o.vv \in VV /\ o.seq \in Nat /\ o.seq <= latest[m]
  <2>1. \A m \in Node : \A o \in Originated(m)' :
          o \in Originated(m) \/ (m = n /\ o = a)
    BY <1>1, <1>2 DEF Originated
  <2>2. ASSUME NEW m \in Node, NEW o \in Originated(m)
        PROVE  /\ o \in Op /\ o.vv \in VV /\ o.seq \in Nat
               /\ o.seq <= latest[m]
    <3>1. o \in AllOps /\ o.origin = m
      BY <2>2 DEF AllOps, Originated
    <3> QED
      BY <3>1, OpsHappened DEF Sound, Op
  <2> QED
    BY <2>1, <2>2
<1>4. /\ latest'[n] = latest[n] + 1 /\ latest[n] \in Nat
      /\ \A m \in Node : latest[m] <= latest'[m] /\ latest[m] \in Nat
                         /\ latest'[m] \in Nat
  BY <1>1
<1>5. Authored'
  <2> SUFFICES ASSUME NEW m \in Node, NEW o \in Originated(m)'
               PROVE  /\ \A r \in Originated(m)' : r.seq = o.seq => r = o
                      /\ \A p \in Path : Affects(o, p) =>
                           Leq(o.vv, files'[m][p].vv)
    BY DEF Authored
  <2>1. \A r \in Originated(m)' : r.seq = o.seq => r = o
    <3>1. \A r \in Originated(m) : r.seq <= latest[m] /\ r.seq \in Nat
      BY <1>3
    <3>2. \A r, q \in Originated(m) : r.seq = q.seq => r = q
      BY DEF Sound, QInv, Authored
    <3> QED
      BY <1>3, <1>4, <3>1, <3>2
  <2>2. ASSUME NEW p \in Path, Affects(o, p)
        PROVE  Leq(o.vv, files'[m][p].vv)
    <3>1. CASE o \in Originated(m)
      <4>1. Leq(o.vv, files[m][p].vv) /\ o.vv \in VV
        BY <1>3, <2>2, <3>1 DEF Sound, QInv, Authored
      <4>2. /\ files[m][p].vv \in VV /\ Leq(files[m][p].vv, files'[m][p].vv)
            /\ files'[m][p].vv \in VV
        BY CarrierTypes, RowsForward
           DEF Sound, Onward, IInv, Fits, VersionsUpTo, Version
      <4> QED
        BY <4>1, <4>2, LeqTransitive
    <3>2. CASE m = n /\ o = a
      <4>1. files'[m][p].vv = a.vv
        BY <2>2, <3>2
      <4> QED
        BY <1>1, <3>2, <4>1, LeqReflexive
    <3> QED
      BY <1>3, <3>1, <3>2
  <2> QED
    BY <2>1, <2>2
<1>6. Behindhand'
  <2> SUFFICES ASSUME NEW l \in Link
               PROVE  /\ cursor[l[1]][l[2]] <= latest'[l[2]]
                      /\ \A s \in session[l] : s.frontier <= latest'[l[2]]
    BY DEF Behindhand
  <2>1. /\ l[1] \in Node /\ l[2] \in Node /\ cursor[l[1]][l[2]] \in Nat
        /\ \A s \in session[l] : s.frontier \in Nat
    BY LinkEnds DEF Sound, IInv, Fits, Counters, SessionsUpTo, Session
  <2>2. /\ cursor[l[1]][l[2]] <= latest[l[2]]
        /\ \A s \in session[l] : s.frontier <= latest[l[2]]
    BY DEF Sound, QInv, Behindhand
  <2>3. latest[l[2]] <= latest'[l[2]] /\ latest[l[2]] \in Nat
        /\ latest'[l[2]] \in Nat
    BY <1>4, <2>1
  <2> QED
    BY <2>1, <2>2, <2>3
<1>7. RecordsSettled'
  <2> SUFFICES ASSUME NEW m \in Node, NEW o \in oplog'[m]
               PROVE  Settled(m, o)'
    BY DEF RecordsSettled
  <2>1. CASE o \in oplog[m]
    BY <1>1, <2>1, SettledQuietly DEF Sound, QInv, RecordsSettled
  <2>2. CASE m = n /\ o = a
    <3>1. \A p \in Path : Affects(a, p) => Leq(a.vv, files'[n][p].vv)
      BY <1>1, LeqReflexive
    <3> QED
      BY <2>2, <3>1 DEF Settled, Accounted
  <2> QED
    BY <1>2, <2>1, <2>2
<1>8. ASSUME NEW l \in Link, NEW o \in Originated(l[2])',
             NEW b \in Nat, o.seq <= b, b <= latest[l[2]]
      PROVE  o \in Originated(l[2])
  <2>1. l[2] \in Node
    BY LinkEnds
  <2> SUFFICES ASSUME l[2] = n, o = a PROVE FALSE
    BY <1>3, <1>8, <2>1
  <2> QED
    BY <1>4, <1>8
<1>9. CursorSettled'
  <2> SUFFICES ASSUME NEW l \in Link, NEW o \in Originated(l[2])',
                      o.seq <= cursor[l[1]][l[2]]
               PROVE  Settled(l[1], o)'
    BY DEF CursorSettled
  <2>1. /\ l[1] \in Node /\ l[2] \in Node /\ cursor[l[1]][l[2]] \in Nat
        /\ cursor[l[1]][l[2]] <= latest[l[2]]
    BY LinkEnds DEF Sound, IInv, Counters, QInv, Behindhand
  <2>2. o \in Originated(l[2])
    BY <1>8, <2>1
  <2>3. Settled(l[1], o) /\ o \in Op
    BY <1>3, <2>1, <2>2 DEF Sound, QInv, CursorSettled
  <2> QED
    BY <2>1, <2>3, SettledQuietly
<1>10. SessionsSettle'
  <2> SUFFICES ASSUME NEW l \in Link, NEW s \in session[l],
                      NEW o \in Originated(l[2])', o.seq <= s.frontier,
                      NEW p \in Path, Affects(o, p)
               PROVE  Accounted(l[1], p, o.vv)' \/ InSession(l, s, p, o.vv)'
    BY DEF SessionsSettle
  <2>1. /\ l[1] \in Node /\ l[2] \in Node /\ s.frontier \in Nat
        /\ s.frontier <= latest[l[2]]
    BY LinkEnds
       DEF Sound, IInv, Fits, SessionsUpTo, Session, QInv, Behindhand
  <2>2. o \in Originated(l[2])
    BY <1>8, <2>1
  <2>3. Accounted(l[1], p, o.vv) \/ InSession(l, s, p, o.vv)
    BY <2>2 DEF Sound, QInv, SessionsSettle
  <2>4. o.vv \in VV
    BY <1>3, <2>1, <2>2
  <2>5. InSession(l, s, p, o.vv) => InSession(l, s, p, o.vv)'
    BY DEF InSession
  <2> QED
    BY <2>1, <2>3, <2>4, <2>5, AccountedStays
<1>11. /\ JobsOk' /\ LeavesOk'
       /\ Single(job') /\ Single(leaf') /\ Single(session')
  BY JobOkStays, LeavesStay DEF Sound, QInv, JobsOk
<1> QED
  BY <1>5, <1>6, <1>7, <1>9, <1>10, <1>11 DEF QInv

\* Both local commands originate one op and write all of its rows.
LEMMA LocalSettles ==
  ASSUME Sound, Onward, NEW n \in Node, Local(n)
  PROVE  QInv'
<1>1. ASSUME NEW p \in UserPath, NEW v \in Value \cup {Tombstone},
             AppendLocal(n, p, v)
      PROVE  QInv'
  <2> DEFINE w == Increment(files[n][p].vv, n)
             a == [origin |-> n, seq |-> latest[n] + 1, path |-> p,
                   old |-> NoPath, val |-> v, vv |-> w, past |-> seen[n][p]]
  <2>1. /\ oplog' = [oplog EXCEPT ![n] = @ \cup {a}]
        /\ latest' = [latest EXCEPT ![n] = @ + 1]
        /\ files' = [files EXCEPT ![n][p] = [val |-> v, vv |-> w]]
        /\ UNCHANGED <<cursor, job, session, leaf>>
    BY <1>1 DEF AppendLocal
  <2>2. a \in Op
    <3>1. a \in oplog'[n]
      BY <2>1 DEF Sound, IInv, Fits
    <3> QED
      BY <3>1 DEF Onward, IInv, Fits, OpsUpTo
  <2>3. /\ a.origin = n /\ a.seq = latest[n] + 1 /\ a.vv = w
        /\ a.path = p /\ a.old = NoPath
    OBVIOUS
  <2> HIDE DEF a, w
  <2>4. p \in Path /\ files'[n][p].vv = w
    BY <2>1, ReplicationAssumption DEF Sound, IInv, Fits
  <2>5. \A q \in Path : Affects(a, q) => files'[n][q].vv = a.vv
    BY <2>3, <2>4, ReplicationAssumption DEF Affects
  <2> QED
    BY <2>1, <2>2, <2>3, <2>5, OriginSettles
<1>2. ASSUME NEW p \in UserPath, NEW q \in UserPath,
             AppendLocalRename(n, p, q)
      PROVE  QInv'
  <2> DEFINE w == Increment(Merge(files[n][p].vv, files[n][q].vv), n)
             h == seen[n][p] \cup seen[n][q]
             a == [origin |-> n, seq |-> latest[n] + 1, path |-> q, old |-> p,
                   val |-> files[n][p].val, vv |-> w, past |-> h]
  <2>1. /\ oplog' = [oplog EXCEPT ![n] = @ \cup {a}]
        /\ latest' = [latest EXCEPT ![n] = @ + 1]
        /\ files' = [files EXCEPT ![n][p] = [val |-> Tombstone, vv |-> w],
                                  ![n][q] = [val |-> a.val, vv |-> w]]
        /\ p # q
        /\ UNCHANGED <<cursor, job, session, leaf>>
    BY <1>2 DEF AppendLocalRename
  <2>2. a \in Op
    <3>1. a \in oplog'[n]
      BY <2>1 DEF Sound, IInv, Fits
    <3> QED
      BY <3>1 DEF Onward, IInv, Fits, OpsUpTo
  <2>3. /\ a.origin = n /\ a.seq = latest[n] + 1 /\ a.vv = w
        /\ a.path = q /\ a.old = p
    OBVIOUS
  <2> HIDE DEF a, w, h
  <2>4. files'[n][p].vv = w /\ files'[n][q].vv = w
    BY <2>1, ReplicationAssumption DEF Sound, IInv, Fits
  <2>5. \A r \in Path : Affects(a, r) => files'[n][r].vv = a.vv
    BY <2>3, <2>4 DEF Affects
  <2> QED
    BY <2>1, <2>2, <2>3, <2>5, OriginSettles
<1> QED
  BY <1>1, <1>2 DEF Local

-----------------------------------------------------------------------------
(* Theorems on records and cursors *)

\* Every step keeps what the nodes are responsible for accounted for.
LEMMA NextSettles ==
  ASSUME Sound, Next
  PROVE  QInv'
<1>1. Onward
  BY NextSafe, NextLapsed DEF Sound, Onward
<1>2. ASSUME NEW n \in Node, Local(n) \/ Crash(n) PROVE QInv'
  <2>1. {l \in Link : n \in {l[1], l[2]}} \subseteq Link
    OBVIOUS
  <2> QED
    BY <1>1, <1>2, <2>1, LocalSettles, CutSettles DEF Crash
<1>3. ASSUME NEW l \in Link, OpStep(l) PROVE QInv'
  BY <1>1, <1>3, ReceiveSettles, FetchedSettles, RecordedSettles,
     WorkingSettles DEF OpStep
<1>4. ASSUME NEW l \in Link, SyncStep(l) PROVE QInv'
  BY <1>1, <1>4, SnapshotSettles, HandleLeafSettles, LeafSettles,
     SessionDoneSettles DEF SyncStep
<1>5. ASSUME NEW l \in Link, Failure(l) PROVE QInv'
  <2>1. {l} \subseteq Link
    OBVIOUS
  <2> QED
    BY <1>1, <1>5, <2>1, WorkingSettles, LeafSettles, CutSettles, AbortSettles
       DEF Failure, Disconnect
<1> QED
  BY <1>2, <1>3, <1>4, <1>5 DEF Next

\* At the start there is nothing to account for.
LEMMA InitSettles ==
  ASSUME Init
  PROVE  QInv
<1>1. /\ Single(job) /\ Single(leaf) /\ Single(session)
      /\ JobsOk /\ LeavesOk /\ SessionsSettle
  BY DEF Init, Single, JobsOk, LeavesOk, SessionsSettle
<1>2. Authored /\ RecordsSettled
  BY DEF Init, Authored, Originated, RecordsSettled
<1>3. CursorSettled
  BY LinkEnds DEF Init, CursorSettled, Originated
<1>4. Behindhand
  BY LinkEnds DEF Init, Behindhand
<1> QED
  BY <1>1, <1>2, <1>3, <1>4 DEF QInv

\* Everything a node has taken responsibility for stays accounted for.
LEMMA AllSettled == Spec => []QInv
<1>1. Init => QInv
  BY InitSettles
<1>2. IInv /\ OInv /\ HInv /\ LapsedOK /\ QInv /\ [Next]_vars => QInv'
  <2>1. ASSUME QInv, UNCHANGED vars PROVE QInv'
    BY <2>1 DEF QInv, Single, JobsOk, JobOk, LeavesOk, Engaged, Authored,
       Originated, Behindhand, RecordsSettled, CursorSettled, SessionsSettle,
       Settled, Owed,
       InSession, Accounted, vars
  <2> QED
    BY <2>1, NextSettles DEF Sound
<1> QED
  BY <1>1, <1>2, Invariance, Ordered, Tracked, LapsedTyped, PTL DEF Spec

\* The record never outruns the effect unnoticed: whatever a node has recorded
\* is in every row it affects, or a task is still at it, or the node gave it
\* up on one of the paths that lead there, through downgraded Applies, both
\* effects of renames, quarantines and lost connections (process_remote_op).
THEOREM RecordsAreAbsorbed == Spec => []RecordedIsAbsorbed
<1>1. QInv => RecordedIsAbsorbed
  BY DEF QInv, RecordsSettled, Settled, Owed, InHand, RecordedIsAbsorbed
<1> QED
  BY <1>1, AllSettled, PTL

\* Nothing behind the cursor is needed again: neither the stream, which goes
\* by single ops, nor the gate, which jumps to the snapshot's frontier, moves
\* the cursor past an op that the node has not accounted for, whatever its
\* peer writes in between (subscription_io, snapshot_for_join, apply_remote).
THEOREM CursorIsCovered == Spec => []CursorCovered
<1>1. QInv => CursorCovered
  BY LinkEnds DEF QInv, CursorSettled, Settled, Owed, InHand, CursorCovered
<1> QED
  BY <1>1, AllSettled, PTL

\* Without renames a vector that covers an op is one that embodies it.
CursorEmbodied ==
  \A l \in Link : \A o \in Originated(l[2]) : \A p \in Path :
    (o.seq <= cursor[l[1]][l[2]] /\ Affects(o, p)) =>
      \/ OpIdOf(o) \in seen[l[1]][p]
      \/ \E u \in lapsed[l[1]][p] : Leq(o.vv, u)
      \/ InHand(l[1], o)

\* What the cursor has passed is really in the row: it has been absorbed, not
\* merely outvoted by a vector that happens to cover it (subscription_io,
\* apply_remote).
THEOREM CursorIsEmbodied ==
  ASSUME ~ Renames
  PROVE  Spec => []CursorEmbodied
<1>1. CursorCovered /\ VVTracksCausality => CursorEmbodied
  <2> SUFFICES ASSUME CursorCovered, VVTracksCausality,
                      NEW l \in Link, NEW o \in Originated(l[2]),
                      NEW p \in Path, Affects(o, p),
                      o.seq <= cursor[l[1]][l[2]],
                      ~ (\E u \in lapsed[l[1]][p] : Leq(o.vv, u)),
                      ~ InHand(l[1], o)
               PROVE  OpIdOf(o) \in seen[l[1]][p]
    BY DEF CursorEmbodied
  <2>1. l[1] \in Node /\ o \in AllOps
    BY LinkEnds DEF AllOps
  <2>2. Leq(o.vv, files[l[1]][p].vv)
    BY DEF CursorCovered, Accounted
  <2> QED
    BY <2>1, <2>2 DEF VVTracksCausality
<1> QED
  BY <1>1, CursorIsCovered, VectorsTrackCausality, PTL

=============================================================================
