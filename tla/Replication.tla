----------------------------- MODULE Replication -----------------------------
(***************************************************************************)
(* The replicated index of a Replicore mesh: local ops, the pushed op      *)
(* stream, the anti-entropy gate and the periodic reconcile session, and   *)
(* conflict resolution (src/oplog.rs, src/net.rs, src/merkle.rs).          *)
(*                                                                         *)
(* Every node runs ONE store thread, so each command (append, apply,       *)
(* reconcile_upsert, resolve_rows, snapshot) is one atomic step, and the   *)
(* tasks that issue the commands interleave between them.  A link <<n, m>> *)
(* is n's subscription to m: n dials, pulls m's rows through the gate,     *)
(* then applies the ops that m originated.                                 *)
(***************************************************************************)
EXTENDS Conflict, FiniteSets

CONSTANTS Node,
          Link,      \* the subscriptions: a set of pairs <<subscriber, origin>>
          UserPath,  \* paths that local users touch
          NoPath,    \* path_old of an op that is not a rename
          Established, \* links whose gate was passed before the first op
          Timer,     \* whether the reconcile timer fires within the horizon
          Renames,   \* whether users rename
          MaxCalls,  \* calls of resolve_rows that one resolution makes
          MaxOps,    \* bound: MaxOps[n], local ops of n
          MaxDrops,  \* bound: crashes and lost connections
          MaxSkips   \* bound: permanent materialization failures

ASSUME ReplicationAssumption ==
  /\ Id = Node \cup Path
  /\ Node \cap Path = {}
  /\ Link \subseteq Node \X Node
  /\ \A l \in Link : l[1] # l[2]
  /\ UserPath \subseteq Path
  /\ NoPath \notin Path
  /\ Established \subseteq Link
  /\ Timer \in BOOLEAN
  /\ Renames \in BOOLEAN
  /\ MaxCalls \in Nat \ {0}
  /\ MaxOps \in [Node -> Nat]
  /\ MaxDrops \in Nat
  /\ MaxSkips \in Nat

VARIABLES
  files,    \* files[n][p]: the row of p in n's index
  oplog,    \* oplog[n]: every op n has recorded, its own and its peers'
  latest,   \* latest[n]: latest_origin_seq, the last op n originated
  cursor,   \* cursor[n][m]: recv_cursor, how far n has handled m's ops
  conn,     \* conn[l]: the subscription's phase
  job,      \* job[l]: the pushed op being processed, if any
  session,  \* session[l]: the reconcile session, if any
  leaf,     \* leaf[l]: the leaf that session is handling, if any
  seen,     \* history: seen[n][p], the ops that the row really embodies
  lapsed,   \* history: lapsed[n][p], vectors that n went on without at p
  drops,    \* crashes and lost connections so far
  skips     \* permanent failures so far

vars == <<files, oplog, latest, cursor, conn, job, session, leaf, seen,
          lapsed, drops, skips>>

-----------------------------------------------------------------------------
(* State *)

OpId == Node \X Nat

\* A Write or Delete has old = NoPath; a Rename moves old to path.  past is
\* history: the ops whose effect the author's row embodied.
Op == [origin : Node, seq : Nat, path : Path, old : Path \cup {NoPath},
       val : Value \cup {Tombstone}, vv : VV, past : SUBSET OpId]

\* One resolution: the contested path, the remote version, the plan staged on
\* disk ({} before the first call of resolve_rows) and the calls made.
Contest == [at : Path, remote : Version, past : SUBSET OpId,
            plan : SUBSET PlannedRow, calls : 0 .. MaxCalls]

(***************************************************************************)
(* Where process_remote_op stands:                                         *)
(*   fetch       decided Apply, materializing                              *)
(*   resolve     decided Concurrent, resolving before the op is recorded   *)
(*   record      about to record without touching the target row           *)
(*   quarantine  as record, after a permanent failure                      *)
(*   late        a stale Apply was downgraded; resolving after the record  *)
(*   source      about to look at a rename's source                        *)
(*   settle      resolving at a rename's source                            *)
(***************************************************************************)
Job == [st : {"fetch", "resolve", "record", "quarantine", "late", "source",
              "settle"},
        op : Op, contest : Contest]

\* The responder's snapshot.  A leaf that has been handled is NoRow.
Session == [rows : [Path -> Version], seen : [Path -> SUBSET OpId],
            frontier : Nat]

Leaf == [st : {"fetch", "resolve"}, contest : Contest]

Init ==
  /\ files = [n \in Node |-> [p \in Path |-> NoRow]]
  /\ oplog = [n \in Node |-> {}]
  /\ latest = [n \in Node |-> 0]
  /\ cursor = [n \in Node |-> [m \in Node |-> 0]]
  /\ conn = [l \in Link |-> IF l \in Established THEN "live" ELSE "down"]
  /\ job = [l \in Link |-> {}]
  /\ session = [l \in Link |-> {}]
  /\ leaf = [l \in Link |-> {}]
  /\ seen = [n \in Node |-> [p \in Path |-> {}]]
  /\ lapsed = [n \in Node |-> [p \in Path |-> {}]]
  /\ drops = 0
  /\ skips = 0

OpIdOf(o) == <<o.origin, o.seq>>

History(o) == o.past \cup {OpIdOf(o)}

Affects(o, p) == o.path = p \/ o.old = p

\* An op's effect on p: a rename is a tombstone at its source.
EffectAt(o, p) ==
  [val |-> IF o.path = p THEN o.val ELSE Tombstone, vv |-> o.vv]

-----------------------------------------------------------------------------
(* Local operations *)

\* append_local: a write (v # Tombstone) or a delete.  The causal no-op filter
\* drops an unchanged file and a delete of an absent or deleted one.
AppendLocal(n, p, v) ==
  LET vv == Increment(files[n][p].vv, n)
      op == [origin |-> n, seq |-> latest[n] + 1, path |-> p, old |-> NoPath,
             val |-> v, vv |-> vv, past |-> seen[n][p]]
  IN  /\ latest[n] < MaxOps[n]
      /\ files[n][p].val # v
      /\ oplog' = [oplog EXCEPT ![n] = @ \cup {op}]
      /\ latest' = [latest EXCEPT ![n] = @ + 1]
      /\ files' = [files EXCEPT ![n][p] = [val |-> v, vv |-> vv]]
      /\ seen' = [seen EXCEPT ![n][p] = @ \cup {OpIdOf(op)}]
      /\ UNCHANGED <<cursor, conn, job, session, leaf, lapsed, drops, skips>>

\* Mutant: the rename counts as two writes.
BugAppendLocalRename(n, p, q) ==
  LET vv == Increment(Increment(Merge(files[n][p].vv, files[n][q].vv), n), n)
      op == [origin |-> n, seq |-> latest[n] + 1, path |-> q, old |-> p,
             val |-> files[n][p].val, vv |-> vv,
             past |-> seen[n][p] \cup seen[n][q]]
  IN  /\ Renames
      /\ latest[n] < MaxOps[n]
      /\ p # q
      /\ files[n][p].val # Tombstone
      /\ oplog' = [oplog EXCEPT ![n] = @ \cup {op}]
      /\ latest' = [latest EXCEPT ![n] = @ + 1]
      /\ files' = [files EXCEPT ![n][p] = [val |-> Tombstone, vv |-> vv],
                                ![n][q] = [val |-> op.val, vv |-> vv]]
      /\ seen' = [seen EXCEPT ![n][p] = @ \cup History(op),
                              ![n][q] = @ \cup History(op)]
      /\ UNCHANGED <<cursor, conn, job, session, leaf, lapsed, drops, skips>>

\* append_local_rename: one op, both path effects in one transaction.
AppendLocalRename(n, p, q) ==
  LET vv   == Increment(Merge(files[n][p].vv, files[n][q].vv), n)
      past == seen[n][p] \cup seen[n][q]
      op   == [origin |-> n, seq |-> latest[n] + 1, path |-> q, old |-> p,
               val |-> files[n][p].val, vv |-> vv, past |-> past]
  IN  /\ Renames
      /\ latest[n] < MaxOps[n]
      /\ p # q
      /\ files[n][p].val # Tombstone
      /\ oplog' = [oplog EXCEPT ![n] = @ \cup {op}]
      /\ latest' = [latest EXCEPT ![n] = @ + 1]
      /\ files' = [files EXCEPT ![n][p] = [val |-> Tombstone, vv |-> vv],
                                ![n][q] = [val |-> op.val, vv |-> vv]]
      /\ seen' = [seen EXCEPT ![n][p] = @ \cup History(op),
                              ![n][q] = @ \cup History(op)]
      /\ UNCHANGED <<cursor, conn, job, session, leaf, lapsed, drops, skips>>

-----------------------------------------------------------------------------
(* Conflict resolution: the loop around resolve_rows *)

\* History: n goes on without the version it had in hand for the paths of P.
Lapse(n, P, vv) ==
  lapsed' = [lapsed EXCEPT ![n] = [p \in Path |->
    IF p \in P /\ ~ Leq(vv, files'[n][p].vv) THEN @[p] \cup {vv} ELSE @[p]]]

Contend(p, version, past) ==
  [at |-> p, remote |-> version, past |-> past, plan |-> {}, calls |-> 0]

Restage(c, plan) == [c EXCEPT !.plan = plan, !.calls = @ + 1]

\* Mutant: the pairwise contest, where the row always stands for its history.
BugCandidates(n, c) == {files[n][c.at], c.remote}

\* The path's op history (ops_as_candidates) and the remote version; the row
\* itself only when these do not explain its vector.
Candidates(n, c) ==
  LET ops == {EffectAt(o, c.at) : o \in {o \in oplog[n] : Affects(o, c.at)}}
               \cup {c.remote}
      covered == Leq(files[n][c.at].vv, MergeAll({v.vv : v \in ops}))
  IN  IF covered THEN ops ELSE ops \cup {files[n][c.at]}

Derivable(n, c) == Plans(c.at, Candidates(n, c), files[n])

Contested(n, c) == Decide(files[n][c.at], c.remote.vv) = "Concurrent"

Install(rows, plan) ==
  [p \in Path |->
     IF \E r \in plan : r.path = p
     THEN LET r == CHOOSE r \in plan : r.path = p
          IN  [val |-> r.val, vv |-> r.vv]
     ELSE rows[p]]

\* What the winner row embodies once a resolution commits.
Absorbed(n, c) ==
  seen[n][c.at] \cup c.past
    \cup UNION {History(o) : o \in {o \in oplog[n] : Affects(o, c.at)}}

\* Resolved: the plan derived under the transaction is the staged one.
Commit(n, c) ==
  /\ Contested(n, c)
  /\ c.plan \in Derivable(n, c)
  /\ files' = [files EXCEPT ![n] = Install(@, c.plan)]
  /\ seen' = [seen EXCEPT ![n][c.at] = Absorbed(n, c)]

\* Stale: nothing is committed; the fresh plan is staged and tried again.
Stale(n, c, plan) ==
  /\ Contested(n, c)
  /\ plan \in Derivable(n, c)
  /\ plan # c.plan
  /\ c.calls + 1 < MaxCalls

\* The loop gives up: no longer concurrent, chain too deep, or out of calls.
\* Staged paths are restored on disk and the index stays as it is.
GiveUp(n, c) ==
  \/ ~ Contested(n, c)
  \/ Derivable(n, c) = {}
  \/ c.calls + 1 = MaxCalls /\ Derivable(n, c) \ {c.plan} # {}

\* History: a resolution given up for a row that is no longer contested has
\* nothing to go on without.
Forgo(n, c) == Lapse(n, IF Contested(n, c) THEN {c.at} ELSE {}, c.remote.vv)

-----------------------------------------------------------------------------
(* The pushed op stream: process_remote_op *)

\* The row a dominating version leaves: its value, the vectors merged.
Adopt(row, version) ==
  [val |-> version.val, vv |-> Merge(row.vv, version.vv)]

(***************************************************************************)
(* apply_remote: record the op and bump the cursor; touch each path of     *)
(* "targets" that the op dominates.  The source of a rename is always one. *)
(***************************************************************************)
\* Mutant: the decision is not taken again under the transaction.
BugDominated(n, o, targets) == targets

Dominated(n, o, targets) ==
  {p \in targets : Decide(files[n][p], o.vv) = "Apply"}

\* Mutant: the cursor is left for a later transaction.
BugApplyRemote(l, o, targets) ==
  LET n == l[1]
      D == Dominated(n, o, targets \cup ({o.old} \ {NoPath}))
  IN  /\ oplog' = [oplog EXCEPT ![n] = @ \cup {o}]
      /\ files' = [files EXCEPT ![n] = [p \in Path |->
                     IF p \in D THEN Adopt(@[p], EffectAt(o, p)) ELSE @[p]]]
      /\ seen' = [seen EXCEPT ![n] = [p \in Path |->
                     IF p \in D THEN @[p] \cup History(o) ELSE @[p]]]
      /\ UNCHANGED cursor

ApplyRemote(l, o, targets) ==
  LET n == l[1]
      D == Dominated(n, o, targets \cup ({o.old} \ {NoPath}))
  IN  /\ oplog' = [oplog EXCEPT ![n] = @ \cup {o}]
      /\ cursor' = [cursor EXCEPT ![n][o.origin] = Larger(@, o.seq)]
      /\ files' = [files EXCEPT ![n] = [p \in Path |->
                     IF p \in D THEN Adopt(@[p], EffectAt(o, p)) ELSE @[p]]]
      /\ seen' = [seen EXCEPT ![n] = [p \in Path |->
                     IF p \in D THEN @[p] \cup History(o) ELSE @[p]]]

\* After the commit: a rename goes on to its source, any other op is done.
Then(k) ==
  IF k.op.old = NoPath THEN {} ELSE {[k EXCEPT !.st = "source"]}

\* What follows a resolution, committed or abandoned.
After(k) ==
  CASE k.st = "resolve" -> {[k EXCEPT !.st = "record"]}
    [] k.st = "late"    -> Then(k)
    [] k.st = "settle"  -> {}

\* The responder pushes its own ops in ascending order from the cursor, and
\* the subscriber handles one at a time.
Delivered(l) ==
  {o \in oplog[l[2]] : o.origin = l[2] /\ o.seq = cursor[l[1]][l[2]] + 1}

Job0(o, st) ==
  [st |-> st, op |-> o,
   contest |-> Contend(o.path, EffectAt(o, o.path), History(o))]

(***************************************************************************)
(* The decision on the target row.  A row's vector only grows, so Ignore   *)
(* stays Ignore and Concurrent never becomes Apply: recording an ignored   *)
(* op and the first call of resolve_rows, which only derives a plan, are   *)
(* taken together with the decision they follow.                           *)
(***************************************************************************)
Receive(l) ==
  \E o \in Delivered(l) :
    LET n == l[1]
        d == Decide(files[n][o.path], o.vv)
        k == Job0(o, "resolve")
    IN  /\ conn[l] = "live"
        /\ job[l] = {}
        /\ \/ /\ d = "Apply"
              /\ job' = [job EXCEPT ![l] = {Job0(o, "fetch")}]
              /\ UNCHANGED <<files, oplog, cursor, seen, lapsed>>
           \/ /\ d = "Ignore"
              /\ ApplyRemote(l, o, {})
              /\ job' = [job EXCEPT ![l] = Then(k)]
              /\ UNCHANGED lapsed
           \/ /\ d = "Concurrent"
              /\ UNCHANGED <<files, oplog, cursor, seen>>
              /\ \/ /\ \E plan \in Derivable(n, k.contest) :
                         job' = [job EXCEPT ![l] =
                           {[k EXCEPT !.contest = Restage(@, plan)]}]
                    /\ UNCHANGED lapsed
                 \/ /\ Derivable(n, k.contest) = {}
                    /\ job' = [job EXCEPT ![l] = After(k)]
                    /\ Lapse(n, {o.path}, o.vv)
        /\ UNCHANGED <<latest, conn, session, leaf, drops, skips>>

\* Mutant: a downgraded Apply is recorded and never resolved.
BugFetched(l) ==
  \E k \in job[l] :
    /\ k.st = "fetch"
    /\ ApplyRemote(l, k.op, {k.op.path})
    /\ job' = [job EXCEPT ![l] = Then(k)]
    /\ UNCHANGED <<latest, conn, session, leaf, lapsed, drops, skips>>

\* Materialized: commit.  The decision is taken again under the transaction;
\* a downgrade to Concurrent is resolved after the op is recorded.
Fetched(l) ==
  \E k \in job[l] :
    /\ k.st = "fetch"
    /\ ApplyRemote(l, k.op, {k.op.path})
    /\ job' = [job EXCEPT ![l] =
         IF Decide(files[l[1]][k.op.path], k.op.vv) = "Concurrent"
         THEN {[k EXCEPT !.st = "late"]} ELSE Then(k)]
    /\ UNCHANGED <<latest, conn, session, leaf, lapsed, drops, skips>>

\* An error that no retry can cure (is_permanent): bad fields, content that no
\* peer serves, a lying manifest, a directory in the way.
PermanentFailure ==
  /\ skips < MaxSkips
  /\ skips' = skips + 1

\* Materializing fails for good: the op is recorded without its effect.
Quarantine(l) ==
  \E k \in job[l] :
    /\ k.st = "fetch"
    /\ PermanentFailure
    /\ job' = [job EXCEPT ![l] = {[k EXCEPT !.st = "quarantine"]}]
    /\ UNCHANGED <<files, oplog, latest, cursor, conn, session, leaf, seen,
                   lapsed, drops>>

\* Mutant: a quarantined op's vector is merged into the row all the same.
BugRecord(l) ==
  \E k \in job[l] :
    LET n == l[1]
    IN  /\ k.st \in {"record", "quarantine"}
        /\ oplog' = [oplog EXCEPT ![n] = @ \cup {k.op}]
        /\ cursor' = [cursor EXCEPT ![n][k.op.origin] = Larger(@, k.op.seq)]
        /\ files' = [files EXCEPT ![n][k.op.path].vv = Merge(@, k.op.vv)]
        /\ job' = [job EXCEPT ![l] = IF k.st = "record" THEN Then(k) ELSE {}]
        /\ UNCHANGED <<latest, conn, session, leaf, seen, lapsed, drops,
                       skips>>

Record(l) ==
  \E k \in job[l] :
    /\ k.st \in {"record", "quarantine"}
    /\ ApplyRemote(l, k.op, {})
    /\ job' = [job EXCEPT ![l] = IF k.st = "record" THEN Then(k) ELSE {}]
    /\ Lapse(l[1], IF k.st = "record" THEN {} ELSE {k.op.path, k.op.old},
             k.op.vv)
    /\ UNCHANGED <<latest, conn, session, leaf, drops, skips>>

Resolving(k) == k.st \in {"resolve", "late", "settle"}

ResolveOp(l) ==
  \E k \in job[l] :
    /\ Resolving(k)
    /\ \/ /\ Commit(l[1], k.contest)
          /\ job' = [job EXCEPT ![l] = After(k)]
          /\ UNCHANGED lapsed
       \/ \E plan \in Derivable(l[1], k.contest) :
            /\ Stale(l[1], k.contest, plan)
            /\ job' = [job EXCEPT ![l] =
                 {[k EXCEPT !.contest = Restage(@, plan)]}]
            /\ UNCHANGED <<files, seen, lapsed>>
       \/ /\ GiveUp(l[1], k.contest)
          /\ job' = [job EXCEPT ![l] = After(k)]
          /\ UNCHANGED <<files, seen>>
          /\ Forgo(l[1], k.contest)
    /\ UNCHANGED <<oplog, latest, cursor, conn, session, leaf, drops, skips>>

\* Staging a planned row fails for good: the resolution is abandoned.
AbandonOp(l) ==
  \E k \in job[l] :
    /\ Resolving(k)
    /\ k.contest.plan # {}
    /\ PermanentFailure
    /\ job' = [job EXCEPT ![l] = After(k)]
    /\ UNCHANGED <<files, oplog, latest, cursor, conn, session, leaf, seen,
                   drops>>
    /\ Lapse(l[1], {k.contest.at}, k.contest.remote.vv)

\* Mutant: a conflict at the source is left alone.
BugCheckSource(l) ==
  \E k \in job[l] :
    /\ k.st = "source"
    /\ job' = [job EXCEPT ![l] = {}]
    /\ UNCHANGED <<files, oplog, latest, cursor, conn, session, leaf, seen,
                   lapsed, drops, skips>>

\* A rename's second path effect: whatever did not dominate is resolved.
CheckSource(l) ==
  \E k \in job[l] :
    /\ k.st = "source"
    /\ LET old == k.op.old
       IN  job' = [job EXCEPT ![l] =
             IF Decide(files[l[1]][old], k.op.vv) = "Concurrent"
             THEN {[k EXCEPT !.st = "settle",
                             !.contest = Contend(old, EffectAt(k.op, old),
                                                 History(k.op))]}
             ELSE {}]
    /\ UNCHANGED <<files, oplog, latest, cursor, conn, session, leaf, seen,
                   lapsed, drops, skips>>

-----------------------------------------------------------------------------
(* Anti-entropy: the gate and the periodic session *)

\* snapshot_for_join: rows and frontier in one store turn.
Snapshot(m) ==
  [rows |-> files[m], seen |-> seen[m], frontier |-> latest[m]]

\* A connection is authenticated and its gate begins.
Connect(l) ==
  /\ conn[l] = "down"
  /\ conn' = [conn EXCEPT ![l] = "gate"]
  /\ session' = [session EXCEPT ![l] = {Snapshot(l[2])}]
  /\ UNCHANGED <<files, oplog, latest, cursor, job, leaf, seen, lapsed, drops,
                 skips>>

\* A leaf this session still has to act on.  A leaf with the local hash is
\* pruned and a leaf with a covered vector is ignored: neither does anything,
\* then or later, because a row's vector only grows.
Pending(n, s, p) == Decide(files[n][p], s.rows[p].vv) # "Ignore"

\* The timer fires.  A session that finds nothing pending changes nothing.
PeriodicReconcile(l) ==
  /\ Timer
  /\ conn[l] = "live"
  /\ session[l] = {}
  /\ \E p \in Path : Pending(l[1], Snapshot(l[2]), p)
  /\ session' = [session EXCEPT ![l] = {Snapshot(l[2])}]
  /\ UNCHANGED <<files, oplog, latest, cursor, conn, job, leaf, seen, lapsed,
                 drops, skips>>

\* handle_leaf: fetch a dominating leaf; derive a plan for a concurrent one.
HandleLeaf(l, p) ==
  \E s \in session[l] :
    LET n == l[1]
        d == Decide(files[n][p], s.rows[p].vv)
        k == Contend(p, s.rows[p], s.seen[p])
    IN  /\ leaf[l] = {}
        /\ session' = [session EXCEPT ![l] =
             {[s EXCEPT !.rows[p] = NoRow]}]
        /\ UNCHANGED <<files, oplog, latest, cursor, conn, job, seen, drops,
                       skips>>
        /\ \/ /\ d = "Apply"
              /\ leaf' = [leaf EXCEPT ![l] = {[st |-> "fetch", contest |-> k]}]
              /\ UNCHANGED lapsed
           \/ /\ d = "Concurrent"
              /\ \E plan \in Derivable(n, k) :
                   leaf' = [leaf EXCEPT ![l] =
                     {[st |-> "resolve", contest |-> Restage(k, plan)]}]
              /\ UNCHANGED lapsed
           \/ /\ d = "Concurrent"
              /\ Derivable(n, k) = {}
              /\ UNCHANGED leaf
              /\ Lapse(n, {p}, s.rows[p].vv)

\* Mutant: reconcile_upsert trusts the decision taken before the fetch.
BugUpsert(l) ==
  \E k \in leaf[l] :
    LET n == l[1]
        c == k.contest
    IN  /\ k.st = "fetch"
        /\ files' = [files EXCEPT ![n][c.at] = Adopt(@, c.remote)]
        /\ seen' = [seen EXCEPT ![n][c.at] = @ \cup c.past]
        /\ leaf' = [leaf EXCEPT ![l] = {}]
        /\ UNCHANGED <<oplog, latest, cursor, conn, job, session, lapsed,
                       drops, skips>>

\* apply_remote_leaf: reconcile_upsert decides again under its transaction; a
\* downgrade to Concurrent is resolved.
Upsert(l) ==
  \E k \in leaf[l] :
    LET n == l[1]
        c == k.contest
        d == Decide(files[n][c.at], c.remote.vv)
    IN  /\ k.st = "fetch"
        /\ files' = [files EXCEPT ![n][c.at] =
             IF d = "Apply" THEN Adopt(@, c.remote) ELSE @]
        /\ seen' = [seen EXCEPT ![n][c.at] =
             IF d = "Apply" THEN @ \cup c.past ELSE @]
        /\ leaf' = [leaf EXCEPT ![l] =
             IF d = "Concurrent" THEN {[k EXCEPT !.st = "resolve"]} ELSE {}]
        /\ UNCHANGED <<oplog, latest, cursor, conn, job, session, lapsed,
                       drops, skips>>

ResolveLeaf(l) ==
  \E k \in leaf[l] :
    /\ k.st = "resolve"
    /\ \/ /\ Commit(l[1], k.contest)
          /\ leaf' = [leaf EXCEPT ![l] = {}]
          /\ UNCHANGED lapsed
       \/ \E plan \in Derivable(l[1], k.contest) :
            /\ Stale(l[1], k.contest, plan)
            /\ leaf' = [leaf EXCEPT ![l] =
                 {[k EXCEPT !.contest = Restage(@, plan)]}]
            /\ UNCHANGED <<files, seen, lapsed>>
       \/ /\ GiveUp(l[1], k.contest)
          /\ leaf' = [leaf EXCEPT ![l] = {}]
          /\ UNCHANGED <<files, seen>>
          /\ Forgo(l[1], k.contest)
    /\ UNCHANGED <<oplog, latest, cursor, conn, job, session, drops, skips>>

\* A leaf that can never be materialized is skipped, the session goes on.
SkipLeaf(l) ==
  \E k \in leaf[l] :
    /\ k.st = "fetch" \/ k.contest.plan # {}
    /\ PermanentFailure
    /\ leaf' = [leaf EXCEPT ![l] = {}]
    /\ UNCHANGED <<files, oplog, latest, cursor, conn, job, session, seen,
                   drops>>
    /\ Lapse(l[1], {k.contest.at}, k.contest.remote.vv)

\* Mutant: the frontier is read when the session ends, not with the rows.
BugSessionDone(l) ==
  \E s \in session[l] :
    /\ leaf[l] = {}
    /\ \A p \in Path : ~ Pending(l[1], s, p)
    /\ session' = [session EXCEPT ![l] = {}]
    /\ conn' = [conn EXCEPT ![l] = "live"]
    /\ cursor' = [cursor EXCEPT ![l[1]][l[2]] =
         IF conn[l] = "gate" THEN Larger(@, latest[l[2]]) ELSE @]
    /\ UNCHANGED <<files, oplog, latest, job, leaf, seen, lapsed, drops,
                   skips>>

\* The session is done.  A gate moves the cursor to the snapshot's frontier,
\* never back, and subscribes to the live stream from there.
SessionDone(l) ==
  \E s \in session[l] :
    /\ leaf[l] = {}
    /\ \A p \in Path : ~ Pending(l[1], s, p)
    /\ session' = [session EXCEPT ![l] = {}]
    /\ conn' = [conn EXCEPT ![l] = "live"]
    /\ cursor' = [cursor EXCEPT ![l[1]][l[2]] =
         IF conn[l] = "gate" THEN Larger(@, s.frontier) ELSE @]
    /\ UNCHANGED <<files, oplog, latest, job, leaf, seen, lapsed, drops,
                   skips>>

-----------------------------------------------------------------------------
(* Failures *)

\* The recorded ops of L's jobs whose effect at n's path p is still due.
Unfinished(L, n, p) ==
  {k.op.vv : k \in
     {k \in UNION {job[l] : l \in {l \in L : l[1] = n}} :
        /\ k.st \in {"late", "source", "settle"}
        /\ Affects(k.op, p)
        /\ ~ Leq(k.op.vv, files[n][p].vv)}}

\* Mutant: the periodic session outlives its subscription.
BugCut(L) ==
  /\ drops < MaxDrops
  /\ drops' = drops + 1
  /\ conn' = [l \in Link |-> IF l \in L THEN "down" ELSE conn[l]]
  /\ job' = [l \in Link |-> IF l \in L THEN {} ELSE job[l]]
  /\ lapsed' = [n \in Node |-> [p \in Path |->
                  lapsed[n][p] \cup Unfinished(L, n, p)]]
  /\ UNCHANGED <<files, oplog, latest, cursor, session, leaf, seen, skips>>

\* Every subscription of L ends; what it had in flight is gone.
Cut(L) ==
  /\ drops < MaxDrops
  /\ drops' = drops + 1
  /\ conn' = [l \in Link |-> IF l \in L THEN "down" ELSE conn[l]]
  /\ job' = [l \in Link |-> IF l \in L THEN {} ELSE job[l]]
  /\ session' = [l \in Link |-> IF l \in L THEN {} ELSE session[l]]
  /\ leaf' = [l \in Link |-> IF l \in L THEN {} ELSE leaf[l]]
  /\ lapsed' = [n \in Node |-> [p \in Path |->
                  lapsed[n][p] \cup Unfinished(L, n, p)]]
  /\ UNCHANGED <<files, oplog, latest, cursor, seen, skips>>

\* A connection is lost, or a transient failure ends the subscription.
Disconnect(l) == conn[l] # "down" /\ Cut({l})

\* A node is killed and restarted: its store is durable, its tasks are not.
Crash(n) == Cut({l \in Link : n \in {l[1], l[2]}})

\* A transient failure ends a periodic session; the subscription lives on.
AbortSession(l) ==
  /\ conn[l] = "live"
  /\ session[l] # {}
  /\ drops < MaxDrops
  /\ drops' = drops + 1
  /\ session' = [session EXCEPT ![l] = {}]
  /\ leaf' = [leaf EXCEPT ![l] = {}]
  /\ UNCHANGED <<files, oplog, latest, cursor, conn, job, seen, lapsed, skips>>

-----------------------------------------------------------------------------
(* The specification *)

OpStep(l) ==
  \/ Receive(l)
  \/ Fetched(l)
  \/ Record(l)
  \/ ResolveOp(l)
  \/ CheckSource(l)

SyncStep(l) ==
  \/ Connect(l)
  \/ PeriodicReconcile(l)
  \/ \E p \in Path : HandleLeaf(l, p)
  \/ Upsert(l)
  \/ ResolveLeaf(l)
  \/ SessionDone(l)

Failure(l) ==
  \/ Quarantine(l)
  \/ AbandonOp(l)
  \/ SkipLeaf(l)
  \/ Disconnect(l)
  \/ AbortSession(l)

Local(n) ==
  \/ \E p \in UserPath, v \in Value \cup {Tombstone} : AppendLocal(n, p, v)
  \/ \E p, q \in UserPath : AppendLocalRename(n, p, q)

Next ==
  \/ \E n \in Node : Local(n) \/ Crash(n)
  \/ \E l \in Link : OpStep(l) \/ SyncStep(l) \/ Failure(l)

Spec == Init /\ [][Next]_vars

\* While some task can run, the tokio runtime runs one: the dial loop retries
\* for ever and the push loop wakes for every new op.  Nothing more is assumed:
\* no fairness between tasks or links, and none for users and failures.
Progress == \E l \in Link : OpStep(l) \/ SyncStep(l)

Fairness == WF_vars(Progress)

FairSpec == Spec /\ Fairness

-----------------------------------------------------------------------------
(* Properties *)

\* The state of every node has its type (the schema of state.rs and the task
\* state of net.rs and merkle.rs); nothing of a subscription outlives it, and
\* no op is handled before the gate is passed (subscription_io).
TypeOK ==
  /\ files \in [Node -> [Path -> Version]]
  /\ oplog \in [Node -> SUBSET Op]
  /\ latest \in [Node -> Nat]
  /\ \A n \in Node : latest[n] <= MaxOps[n]
  /\ cursor \in [Node -> [Node -> Nat]]
  /\ conn \in [Link -> {"down", "gate", "live"}]
  /\ job \in [Link -> SUBSET Job]
  /\ session \in [Link -> SUBSET Session]
  /\ leaf \in [Link -> SUBSET Leaf]
  /\ seen \in [Node -> [Path -> SUBSET OpId]]
  /\ lapsed \in [Node -> [Path -> SUBSET VV]]
  /\ drops \in 0 .. MaxDrops
  /\ skips \in 0 .. MaxSkips
  /\ \A l \in Link :
       /\ conn[l] # "live" => job[l] = {}
       /\ conn[l] = "down" => session[l] = {}
       /\ session[l] = {} => leaf[l] = {}

Originated(m) == {o \in oplog[m] : o.origin = m}

AllOps == UNION {Originated(m) : m \in Node}

\* A row's vector never claims history that nobody wrote: a component is at
\* most the number of ops its node originated, and a copy's synthetic
\* component at most one (append_local, copy_vv and the merges in between).
ComponentsBacked ==
  \A n \in Node, p \in Path :
    /\ \A m \in Node : files[n][p].vv[m] <= latest[m]
    /\ \A q \in Path : files[n][p].vv[q] <= 1

\* A row changes only to a strictly later vector: no commit of a stale Apply,
\* leaf or conflict plan takes a row back, or changes what is in it while its
\* vector stays the same (the re-checks of apply_remote, reconcile_upsert and
\* resolve_rows).
RowsAdvance ==
  \A n \in Node, p \in Path :
    files'[n][p] # files[n][p] => Less(files[n][p].vv, files'[n][p].vv)

RowsNeverRegress == [][RowsAdvance]_vars

\* Two rows of a path with one vector have one content.  Otherwise decide
\* ignores each in favour of the other and no reconcile can ever heal the
\* path (the equal-vector deadlock that conflict.rs rules out).
EqualVVSameRow ==
  \A n, m \in Node, p \in Path :
    files[n][p].vv = files[m][p].vv => files[n][p].val = files[m][p].val

\* Vectors and causality agree: a row's vector covers an op's exactly when the
\* row embodies that op, so Apply never discards a version that its author
\* had not seen (append_local, apply_remote, resolve_rows).
VVTracksCausality ==
  \A n \in Node, p \in Path, o \in AllOps :
    Affects(o, p) =>
      (Leq(o.vv, files[n][p].vv) <=> OpIdOf(o) \in seen[n][p])

\* Someone who had seen o has replaced it.
Superseded(o) ==
  \E r \in AllOps : Affects(r, o.path) /\ OpIdOf(o) \in r.past

\* Where the copies of a loser go: its copy name, or up to two links further
\* when other files hold these names.
CopyChain(p, v) ==
  LET first == CopyPathFor(p, v)
      second == CopyPathFor(first, v)
  IN  {first, second, CopyPathFor(second, v)}

\* m still has o's content, in the row or as a conflict copy (or that of a
\* version with the same copy name); or a user has taken the copy over.
Preserved(m, o) ==
  \/ files[m][o.path].val = o.val
  \/ \E cp \in CopyChain(o.path, o.val) :
       \/ /\ files[m][cp].val # Tombstone
          /\ CopyPathFor(o.path, files[m][cp].val)
               = CopyPathFor(o.path, o.val)
       \/ \E r \in AllOps : Affects(r, cp) /\ Leq(CopyVV(cp), r.vv)

\* No silent data loss: what a user wrote and nobody has knowingly replaced is
\* still somewhere, as a file or as a conflict copy (FR-303, resolve_rows).
NoSilentLoss ==
  \A o \in AllOps :
    \/ o.val = Tombstone
    \/ Superseded(o)
    \/ \E m \in Node : Preserved(m, o)

\* n's row at p covers vv, or n has gone on without it.
Accounted(n, p, vv) ==
  \/ Leq(vv, files[n][p].vv)
  \/ \E u \in lapsed[n][p] : Leq(vv, u)

InHand(n, o) == \E l \in Link : l[1] = n /\ \E k \in job[l] : k.op = o

\* Nothing at or below the cursor is ever needed again: at every path it
\* affects, the row covers it, from the stream or through the gate, or it is
\* being worked on, or the node has knowingly gone on without it (the join
\* handoff of subscription_io and the atomicity of snapshot_for_join).
CursorCovered ==
  \A l \in Link : \A o \in Originated(l[2]) : \A p \in Path :
    (o.seq <= cursor[l[1]][l[2]] /\ Affects(o, p))
      => Accounted(l[1], p, o.vv) \/ InHand(l[1], o)

\* A recorded op is embodied by every row it affects, or is still being worked
\* on, or the node has knowingly gone on without it: the record never outruns
\* the effect unnoticed, on a stale Apply that was downgraded or at the source
\* of a rename (process_remote_op after apply_remote).
RecordedIsAbsorbed ==
  \A n \in Node : \A o \in oplog[n] : \A p \in Path :
    Affects(o, p) => Accounted(n, p, o.vv) \/ InHand(n, o)

\* A peer's op is recorded only behind the cursor, so the stream, which
\* resumes past the cursor, never delivers it a second time (apply_remote
\* moves both in one transaction).
RecordedOnce ==
  /\ \A n \in Node : \A o \in oplog[n] :
       o.origin # n => o.seq <= cursor[n][o.origin]
  /\ \A l \in Link : \A k \in job[l] :
       k.st \in {"fetch", "resolve", "record", "quarantine"} =>
         k.op \notin oplog[l[1]]

\* A quarantined op is recorded without touching the file index (decide.rs).
QuarantineSpares ==
  \A l \in Link : \A k \in job[l] :
    (k.st = "quarantine" /\ k.op \in oplog'[l[1]])
      => files'[l[1]] = files[l[1]]

QuarantineLeavesIndex == [][QuarantineSpares]_vars

\* All nodes have the same row for every path in P.
Agreement(P) ==
  \A n, m \in Node, p \in P : files[n][p] = files[m][p]

\* Once the users and the failures pause, all nodes come to hold the same row
\* for every path, conflict copies included, and keep it: the gates and the
\* periodic sessions carry whatever the stream lost or skipped, copy rows too
\* (handle_leaf and stage_planned_row; dial_loop never gives up).
Converges == <>[]Agreement(Path)

\* The stream alone brings all nodes to the same row for every path that users
\* write (conflict.rs: the derivation from the op set is confluent; the push
\* loop never gives up).  Copy rows are not sent as ops: the copy of a conflict
\* that another node never met stays where it was made until a session runs.
StreamConverges == <>[]Agreement(UserPath)

=============================================================================
