----------------------------- MODULE ShareProofs -----------------------------
(***************************************************************************)
(* What holds of Share for every set of paths and values, every channel     *)
(* capacity and every number of changes, leaves and faults: the types, and  *)
(* that the chunk store backs the index.                                    *)
(***************************************************************************)
EXTENDS Share, ConflictProofs, SequenceTheorems, TLAPS

-----------------------------------------------------------------------------
(* The inductive invariant *)

Content == Value \cup {Tombstone}

OpsUpTo(B) == {o \in Op : Leq(o.vv, B)}

\* What a job's fields have to do with each other.
JobsUpTo(B) ==
  {k \in Job : /\ k.op \in OpsUpTo(B) /\ k.plan \in VersionsUpTo(B)
               /\ k.unlink => k.op.old # None
               /\ k.st = "unlink" => k.unlink
               /\ k.st = "source" => k.op.old # None
               /\ k.st = "record" => ~ k.recorded
               /\ k.st \in {"fetch", "chunks", "meta"} => k.op.val # Tombstone}

Observation == [path : Path, val : Content]

Pass == [seen : SUBSET Path, todo : SUBSET (Path \cup {None})]

Watched ==
  queue \in Seq(Event) /\ Len(queue) <= QueueCap /\ pending \subseteq Path

Files ==
  /\ disk \in [Path -> Content \cup {Dir}]
  /\ sup \in [Path -> SUBSET (Hash \cup {0})]
  /\ Watched

Store ==
  manifests \subseteq Hash /\ cas \in [Hash -> Chunks] /\ strays \subseteq Hash

\* The vectors of rows, ops and jobs stay below B: a resolution merges all the
\* vectors it knows of, and only a bounded set of them has a least upper bound.
Index(B) ==
  /\ row \in [Path -> VersionsUpTo(B)] /\ peer \in [Path -> VersionsUpTo(B)]
  /\ oplog \in [Path -> SUBSET VersionsUpTo(B)]

Data(B) ==
  /\ Files /\ Store /\ Index(B)
  /\ ing \subseteq Observation
  /\ scan \subseteq Pass
  /\ inbox \in Seq(OpsUpTo(B))
  /\ job \in [Task -> SUBSET JobsUpTo(B)]
  /\ own \in [Worker -> SUBSET Path]

\* An op that is not recorded yet is the one that the stream will drop when it
\* is: a session has nothing to record.
InHand ==
  /\ \A k \in job["session"] : k.recorded
  /\ \A k \in job["stream"] : k.recorded \/ (inbox # <<>> /\ k.op = Head(inbox))

\* The index may name the content of v.
Known(v) == v # Tombstone => Stored(v) \/ HashOf(v) \in strays

\* What a job has made sure of when it stands where it stands.
Prepared(k) ==
  /\ k.st = "chunks" => ManifestFor(k.op.val)
  /\ k.st = "publish" => (k.op.val # Tombstone => Stored(k.op.val))
  /\ k.st \in {"meta", "unlink", "commit"} => Known(k.op.val)
  /\ k.st = "call" => Known(k.plan.val)
  /\ k.st = "place" => (k.plan.val # Tombstone => ManifestFor(k.plan.val))

Backing ==
  /\ \A p \in Path : Known(row[p].val)
  /\ \A o \in ing : o.val # Tombstone => cas[HashOf(o.val)] # "absent"
  /\ \A j \in Task : \A k \in job[j] : Prepared(k)

IInv == (\E B \in VV : Data(B)) /\ InHand /\ Backing

-----------------------------------------------------------------------------
(* Constants, values and vectors *)

\* Both nodes have a component of their own in every vector.
LEMMA Nodes ==
  Local \in Id /\ Remote \in Id /\ Path \subseteq Id /\ Path \cap {None} = {}
BY ShareAssumption DEF ShareAssumption

\* Every content has a hash, and no hash is the key of a delete.
LEMMA Keys ==
  /\ \A v \in Value : HashOf(v) \in Hash /\ KeyOf(v) = HashOf(v)
  /\ 0 \notin Hash
  /\ \A v \in Content : KeyOf(v) \in Hash \cup {0}
  /\ KeyOf(Tombstone) = 0
  /\ Tombstone \notin Value /\ Dir \notin Content
  /\ \A v \in Content : v # Tombstone => v \in Value
<1>1. \A v \in Value : HashOf(v) \in Nat \ {0}
  BY ShareAssumption DEF ShareAssumption
<1>2. Tombstone \notin Value /\ Dir \notin Content
  BY ConflictAssumption DEF Tombstone, Value, Dir, Content, ConflictAssumption
<1>3. 0 \notin Hash /\ \A v \in Value : HashOf(v) \in Hash
  BY <1>1 DEF Hash
<1> QED
  BY <1>1, <1>2, <1>3 DEF KeyOf, Content

\* Setting attributes leaves a file with the content it had (apply_meta).
LEMMA MetaOverType ==
  ASSUME NEW v \in Value, NEW w \in Value
  PROVE  MetaOver(v, w) \in Value
<1>1. \E u \in Value : HashOf(u) = HashOf(v) /\ Xattr(u) = Xattr(v) \cup Xattr(w)
  BY ShareAssumption DEF ShareAssumption
<1> QED
  BY <1>1 DEF MetaOver

\* The empty row is below every bound.
LEMMA NoRowBounded ==
  ASSUME NEW B \in VV
  PROVE  Zero \in VV /\ NoRow \in VersionsUpTo(B)
<1>1. Zero \in VV /\ Leq(Zero, B)
  BY DEF Zero, VV, Leq
<1> QED
  BY <1>1 DEF NoRow, VersionsUpTo, Version

\* What is below a bound is below a larger one.
LEMMA BoundsGrow ==
  ASSUME NEW B \in VV, NEW C \in VV, Leq(B, C)
  PROVE  /\ VersionsUpTo(B) \subseteq VersionsUpTo(C)
         /\ OpsUpTo(B) \subseteq OpsUpTo(C)
         /\ JobsUpTo(B) \subseteq JobsUpTo(C)
<1>1. \A v \in VV : Leq(v, B) => Leq(v, C)
  BY LeqTransitive
<1>2. VersionsUpTo(B) \subseteq VersionsUpTo(C)
  BY <1>1 DEF VersionsUpTo, Version
<1>3. OpsUpTo(B) \subseteq OpsUpTo(C)
  BY <1>1 DEF OpsUpTo, Op
<1>4. JobsUpTo(B) \subseteq JobsUpTo(C)
  BY <1>2, <1>3 DEF JobsUpTo
<1> QED
  BY <1>2, <1>3, <1>4

\* So a state keeps its types under a larger bound.
LEMMA DataGrows ==
  ASSUME NEW B \in VV, NEW C \in VV, Leq(B, C), Data(B)
  PROVE  Data(C)
<1>1. Seq(OpsUpTo(B)) \subseteq Seq(OpsUpTo(C))
  BY BoundsGrow
<1>2. /\ row \in [Path -> VersionsUpTo(C)] /\ peer \in [Path -> VersionsUpTo(C)]
      /\ oplog \in [Path -> SUBSET VersionsUpTo(C)]
      /\ job \in [Task -> SUBSET JobsUpTo(C)]
  BY BoundsGrow DEF Data, Index
<1> QED
  BY <1>1, <1>2 DEF Data, Index

\* Raising one component of a vector keeps it below the bound raised alike.
LEMMA IncrementBounded ==
  ASSUME NEW B \in VV, NEW i \in Id
  PROVE  /\ Increment(B, i) \in VV /\ Leq(B, Increment(B, i))
         /\ \A v \in VV : Leq(v, B) =>
              Increment(v, i) \in VV /\ Leq(Increment(v, i), Increment(B, i))
<1>1. Increment(B, i) \in VV /\ Leq(B, Increment(B, i))
  BY IncrementAdvances DEF Less
<1>2. ASSUME NEW v \in VV, Leq(v, B)
      PROVE  Increment(v, i) \in VV /\ Leq(Increment(v, i), Increment(B, i))
  <2>1. Increment(v, i) \in VV
    BY IncrementAdvances
  <2>2. ASSUME NEW j \in Id
        PROVE  Increment(v, i)[j] <= Increment(B, i)[j]
    <3>1. v[j] \in Nat /\ B[j] \in Nat /\ v[j] <= B[j]
      BY <1>2 DEF VV, Leq
    <3>2. CASE j = i
      <4>1. Increment(v, i)[j] = v[j] + 1 /\ Increment(B, i)[j] = B[j] + 1
        BY <3>2 DEF Increment, VV
      <4> QED
        BY <3>1, <4>1
    <3>3. CASE j # i
      BY <3>1, <3>3 DEF Increment, VV
    <3> QED
      BY <3>2, <3>3
  <2> QED
    BY <2>1, <2>2 DEF Leq
<1> QED
  BY <1>1, <1>2

-----------------------------------------------------------------------------
(* Jobs *)

Stages == {"fetch", "chunks", "publish", "meta", "unlink", "commit", "record",
           "load", "restore", "call", "stage", "place", "source"}

\* Jobs wherever they may stand.
Loose(B) ==
  {k \in Job : /\ k.op \in OpsUpTo(B) /\ k.plan \in VersionsUpTo(B)
               /\ k.unlink => k.op.old # None}

\* What a job may become: it keeps its op, and what is recorded stays so.
After(B, k) == {n \in JobsUpTo(B) : n.op = k.op /\ (k.recorded => n.recorded)}

\* The types of a job's fields.
LEMMA JobFields ==
  ASSUME NEW B \in VV, NEW k \in Loose(B)
  PROVE  /\ k \in Job
         /\ k.op \in OpsUpTo(B) /\ k.op.path \in Path
         /\ k.op.old \in Path \cup {None}
         /\ k.op.val \in Content /\ k.op.vv \in VV /\ Leq(k.op.vv, B)
         /\ k.at \in Path /\ k.plan \in VersionsUpTo(B) /\ k.plan.val \in Content
         /\ k.calls \in 0 .. MaxCalls
         /\ k.st \in Stages /\ k.unlink \in BOOLEAN /\ k.recorded \in BOOLEAN
         /\ (k.unlink => k.op.old \in Path)
<1>1. k \in Job /\ k.op \in OpsUpTo(B) /\ k.plan \in VersionsUpTo(B)
      /\ (k.unlink => k.op.old # None)
  BY DEF Loose
<1>2. /\ k.at \in Path /\ k.calls \in 0 .. MaxCalls
      /\ k.st \in Stages /\ k.unlink \in BOOLEAN /\ k.recorded \in BOOLEAN
  BY <1>1 DEF Job, Stages
<1>3. /\ k.op.path \in Path /\ k.op.old \in Path \cup {None}
      /\ k.op.val \in Content /\ k.op.vv \in VV /\ Leq(k.op.vv, B)
  BY <1>1 DEF OpsUpTo, Op, Content
<1>4. k.plan.val \in Content
  BY <1>1 DEF VersionsUpTo, Version, Content
<1> QED
  BY <1>1, <1>2, <1>3, <1>4

\* A job of the state is such a job.
LEMMA JobsAreLoose ==
  ASSUME NEW B, NEW k \in JobsUpTo(B)
  PROVE  k \in Loose(B)
BY DEF JobsUpTo, Loose

\* A job with another stage: its set says which stages go with which fields.
LEMMA JobAt ==
  ASSUME NEW B \in VV, NEW k \in Loose(B), NEW st \in Stages,
         st = "unlink" => k.unlink,
         st = "source" => k.op.old # None,
         st = "record" => ~ k.recorded,
         st \in {"fetch", "chunks", "meta"} => k.op.val # Tombstone
  PROVE  At(k, st) \subseteq After(B, k)
<1> DEFINE n == [k EXCEPT !.st = st]
<1>1. k \in Job /\ k.op \in OpsUpTo(B) /\ k.plan \in VersionsUpTo(B)
      /\ (k.unlink => k.op.old # None)
  BY DEF Loose
<1>2. n \in Job
  BY <1>1 DEF Job, Stages
<1>3. /\ n.op = k.op /\ n.plan = k.plan /\ n.unlink = k.unlink /\ n.st = st
      /\ n.recorded = k.recorded
  BY <1>1 DEF Job
<1> HIDE DEF n
<1>4. n \in JobsUpTo(B)
  BY <1>1, <1>2, <1>3 DEF JobsUpTo
<1>5. n \in After(B, k)
  BY <1>3, <1>4 DEF After
<1> QED
  BY <1>5 DEF At, n

\* The fields a step may set before it moves on.
LEMMA JobExcept ==
  ASSUME NEW B \in VV, NEW k \in Loose(B)
  PROVE  /\ [k EXCEPT !.recorded = TRUE] \in Loose(B)
         /\ [k EXCEPT !.quarantined = TRUE] \in Loose(B)
         /\ [k EXCEPT !.staged = TRUE] \in Loose(B)
         /\ \A b \in BOOLEAN : [k EXCEPT !.resolve = b] \in Loose(B)
         /\ \A b \in BOOLEAN : [k EXCEPT !.failed = b] \in Loose(B)
         /\ \A w \in VersionsUpTo(B) : [k EXCEPT !.plan = w] \in Loose(B)
<1>1. k \in Job /\ k.op \in OpsUpTo(B) /\ k.plan \in VersionsUpTo(B)
      /\ (k.unlink => k.op.old # None)
  BY DEF Loose
<1>2. [k EXCEPT !.recorded = TRUE] \in Loose(B)
  BY <1>1 DEF Loose, Job
<1>3. [k EXCEPT !.quarantined = TRUE] \in Loose(B)
  BY <1>1 DEF Loose, Job
<1>4. [k EXCEPT !.staged = TRUE] \in Loose(B)
  BY <1>1 DEF Loose, Job
<1>5. ASSUME NEW b \in BOOLEAN
      PROVE  [k EXCEPT !.resolve = b] \in Loose(B)
  BY <1>1 DEF Loose, Job
<1>6. ASSUME NEW b \in BOOLEAN
      PROVE  [k EXCEPT !.failed = b] \in Loose(B)
  BY <1>1 DEF Loose, Job
<1>7. ASSUME NEW w \in VersionsUpTo(B)
      PROVE  [k EXCEPT !.plan = w] \in Loose(B)
  <2>1. w \in Version
    BY DEF VersionsUpTo
  <2> QED
    BY <1>1, <2>1 DEF Loose, Job
<1> QED
  BY <1>2, <1>3, <1>4, <1>5, <1>6, <1>7

\* The same for what the steps build of a job: k's op is kept, and the fields
\* that decide where it may stand.
LEMMA ExceptFields ==
  ASSUME NEW B \in VV, NEW k \in Loose(B)
  PROVE  /\ LET n == [k EXCEPT !.recorded = TRUE]
            IN  n.op = k.op /\ n.recorded /\ n.plan = k.plan
         /\ LET n == [k EXCEPT !.quarantined = TRUE]
            IN  n.op = k.op /\ n.recorded = k.recorded /\ n.plan = k.plan
         /\ LET n == [k EXCEPT !.staged = TRUE]
            IN  n.op = k.op /\ n.recorded = k.recorded /\ n.plan = k.plan
         /\ \A b : LET n == [k EXCEPT !.resolve = b]
                   IN  n.op = k.op /\ n.recorded = k.recorded /\ n.plan = k.plan
         /\ \A b : LET n == [k EXCEPT !.failed = b]
                   IN  n.op = k.op /\ n.recorded = k.recorded /\ n.plan = k.plan
         /\ \A w : LET n == [k EXCEPT !.plan = w]
                   IN  n.op = k.op /\ n.recorded = k.recorded /\ n.plan = w
         /\ \A st : LET n == [k EXCEPT !.st = st]
                    IN  /\ n.op = k.op /\ n.recorded = k.recorded
                        /\ n.plan = k.plan /\ n.st = st
<1>1. k \in Job
  BY DEF Loose
<1> QED
  BY <1>1 DEF Job

\* A change of stage leaves the rest of a job alone.
LEMMA AtFields ==
  ASSUME NEW B \in VV, NEW k \in Loose(B), NEW st
  PROVE  \A n \in At(k, st) : /\ n.st = st /\ n.op = k.op
                              /\ n.recorded = k.recorded /\ n.plan = k.plan
<1>1. k \in Job
  BY DEF Loose
<1> QED
  BY <1>1 DEF At, Job

\* The end of the work at a path: the op is recorded, a rename's source is
\* looked at, or the task is through.
LEMMA OnwardAfter ==
  ASSUME NEW B \in VV, NEW k \in Loose(B)
  PROVE  /\ Onward(k) \subseteq After(B, k)
         /\ \A n \in Onward(k) : n.st \in {"record", "source"}
<1>1. \/ Onward(k) = {}
      \/ Onward(k) = At(k, "record") /\ ~ k.recorded
      \/ Onward(k) = At(k, "source") /\ k.op.old # None
  BY DEF Onward
<1>2. /\ ~ k.recorded => At(k, "record") \subseteq After(B, k)
      /\ k.op.old # None => At(k, "source") \subseteq After(B, k)
  BY JobAt DEF Stages
<1>3. /\ \A n \in At(k, "record") : n.st = "record"
      /\ \A n \in At(k, "source") : n.st = "source"
  BY ExceptFields DEF At
<1> QED
  BY <1>1, <1>2, <1>3

\* Giving up on an op records it.
LEMMA UnmaterializableAfter ==
  ASSUME NEW B \in VV, NEW k \in Loose(B)
  PROVE  /\ Unmaterializable(k) \subseteq After(B, k)
         /\ \A n \in Unmaterializable(k) : n.st = "record"
<1> DEFINE q == [k EXCEPT !.quarantined = TRUE]
<1>1. q \in Loose(B) /\ q.op = k.op /\ q.recorded = k.recorded
  BY JobExcept, ExceptFields
<1> HIDE DEF q
<1>2. ~ k.recorded => At(q, "record") \subseteq After(B, q)
  BY <1>1, JobAt DEF Stages
<1>3. After(B, q) = After(B, k)
  BY <1>1 DEF After
<1>4. \A n \in At(q, "record") : n.st = "record"
  BY <1>1, AtFields
<1> QED
  BY <1>2, <1>3, <1>4 DEF Unmaterializable, q

\* Leaving the loop restores what was staged, or goes on.
LEMMA AbandonAfter ==
  ASSUME NEW B \in VV, NEW k \in Loose(B)
  PROVE  /\ Abandon(k) \subseteq After(B, k)
         /\ \A n \in Abandon(k) : n.st \in {"record", "source", "load"}
<1> DEFINE q == [k EXCEPT !.resolve = FALSE]
<1>1. q \in Loose(B) /\ q.op = k.op /\ q.recorded = k.recorded
  BY JobExcept, ExceptFields
<1> HIDE DEF q
<1>2. At(q, "load") \subseteq After(B, q)
  BY <1>1, JobAt DEF Stages
<1>3. After(B, q) = After(B, k)
  BY <1>1 DEF After
<1>4. \A n \in At(q, "load") : n.st = "load"
  BY <1>1, AtFields
<1> QED
  BY <1>2, <1>3, <1>4, OnwardAfter DEF Abandon, q

\* A task's step gives it jobs that follow from the one it had.
LEMMA JobsFollow ==
  ASSUME NEW B \in VV, Data(B), InHand, NEW j \in Task, NEW k \in job[j],
         NEW S, S \subseteq After(B, k), job' = [job EXCEPT ![j] = S],
         inbox' = inbox
  PROVE  job' \in [Task -> SUBSET JobsUpTo(B)] /\ InHand'
<1>1. job \in [Task -> SUBSET JobsUpTo(B)] /\ S \subseteq JobsUpTo(B)
  BY DEF Data, After
<1>2. job' \in [Task -> SUBSET JobsUpTo(B)]
  BY <1>1
<1>3. job'[j] = S /\ \A i \in Task : i # j => job'[i] = job[i]
  BY <1>1
<1>4. \A n \in S : n.op = k.op /\ (k.recorded => n.recorded)
  BY DEF After
<1>5. InHand'
  BY <1>3, <1>4 DEF InHand, Task, Worker
<1> QED
  BY <1>2, <1>5

\* When a job records its op the stream drops that op.
LEMMA RecordDrops ==
  ASSUME NEW B \in VV, Data(B), InHand, NEW j \in Worker, NEW k \in job[j],
         ~ k.recorded,
         NEW S, S \subseteq JobsUpTo(B), \A n \in S : n.recorded,
         job' = [job EXCEPT ![j] = S], inbox' = Tail(inbox)
  PROVE  /\ job' \in [Task -> SUBSET JobsUpTo(B)]
         /\ inbox' \in Seq(OpsUpTo(B)) /\ InHand'
<1>1. j = "stream" /\ inbox # <<>>
  BY DEF InHand, Worker
<1>2. job \in [Task -> SUBSET JobsUpTo(B)] /\ inbox \in Seq(OpsUpTo(B))
  BY DEF Data
<1>3. inbox' \in Seq(OpsUpTo(B))
  BY <1>1, <1>2
<1>4. /\ job' \in [Task -> SUBSET JobsUpTo(B)]
      /\ job'["stream"] = S /\ job'["session"] = job["session"]
  BY <1>1, <1>2 DEF Task, Worker
<1>5. InHand'
  BY <1>4 DEF InHand
<1> QED
  BY <1>3, <1>4, <1>5

-----------------------------------------------------------------------------
(* The chunk store *)

\* What is stored stays stored: a chunk that rots or is dropped was there.
Grows ==
  /\ manifests \subseteq manifests' /\ strays \subseteq strays'
  /\ \A h \in Hash : cas[h] # "absent" => cas'[h] # "absent"

\* So what the index may name it may name for good.
LEMMA KnownStays ==
  ASSUME Grows, NEW v \in Content
  PROVE  /\ Known(v) => Known(v)'
         /\ v # Tombstone /\ Stored(v) => Stored(v)'
         /\ v # Tombstone /\ cas[HashOf(v)] # "absent"
              => (cas[HashOf(v)] # "absent")'
         /\ v # Tombstone /\ ManifestFor(v) => ManifestFor(v)'
<1>1. v # Tombstone => HashOf(v) \in Hash
  BY Keys
<1> QED
  BY <1>1 DEF Grows, Known, Stored, ManifestFor

\* And what a job has made sure of holds for good.
LEMMA PreparedStays ==
  ASSUME Grows, NEW B \in VV, NEW n \in JobsUpTo(B), Prepared(n)
  PROVE  Prepared(n)'
<1>1. n.op.val \in Content /\ n.plan.val \in Content
  BY JobsAreLoose, JobFields
<1>2. n.st = "chunks" => n.op.val # Tombstone
  BY DEF JobsUpTo
<1>3. /\ n.op.val # Tombstone => HashOf(n.op.val) \in Hash
      /\ n.plan.val # Tombstone => HashOf(n.plan.val) \in Hash
  BY <1>1, Keys
<1> QED
  BY <1>2, <1>3 DEF Grows, Known, Stored, ManifestFor, Prepared

\* A task's step keeps the backing if it prepares the jobs it goes to, stores
\* before it commits and takes nothing out of the store.
LEMMA BackingFollows ==
  ASSUME NEW B \in VV, Data(B), Backing, Grows, NEW j \in Task, ing' = ing,
         NEW S, job' = [job EXCEPT ![j] = S],
         \A n \in S : Prepared(n)',
         \A p \in Path : row'[p] = row[p] \/ Known(row[p].val)'
  PROVE  Backing'
<1>1. /\ job \in [Task -> SUBSET JobsUpTo(B)] /\ ing \subseteq Observation
      /\ row \in [Path -> VersionsUpTo(B)]
  BY DEF Data, Index
<1>2. ASSUME NEW p \in Path
      PROVE  Known(row[p].val)'
  <2>1. row[p].val \in Content /\ Known(row[p].val)
    BY <1>1 DEF VersionsUpTo, Version, Content, Backing
  <2>2. ASSUME row'[p] = row[p]
        PROVE  Known(row[p].val)'
    <3>1. row[p].val # Tombstone => HashOf(row[p].val) \in Hash
      BY <2>1, Keys
    <3> QED
      BY <2>1, <2>2, <3>1 DEF Grows, Known, Stored, ManifestFor
  <2> QED
    BY <2>2
<1>3. ASSUME NEW o \in ing, o.val # Tombstone
      PROVE  (cas[HashOf(o.val)])' # "absent"
  <2>1. o.val \in Content /\ cas[HashOf(o.val)] # "absent"
    BY <1>1, <1>3 DEF Observation, Backing
  <2> QED
    BY <1>3, <2>1, Keys DEF Grows
<1>4. ASSUME NEW i \in Task, NEW n \in job[i]
      PROVE  Prepared(n)'
  BY <1>1, <1>4, PreparedStays DEF Backing
<1>5. \A i \in Task : \A n \in job'[i] : Prepared(n)'
  BY <1>1, <1>4
<1> QED
  BY <1>2, <1>3, <1>5 DEF Backing

-----------------------------------------------------------------------------
(* The disk and what is seen of it *)

\* An event goes into the channel only while there is room.
LEMMA SentTypes ==
  ASSUME Watched, NEW p \in Path,
         NEW e, e = Gone(p) \/ \E q \in Path : e = Moved(p, q),
         Sent(e) \/ UNCHANGED queue
  PROVE  queue' \in Seq(Event) /\ Len(queue') <= QueueCap
<1>1. e \in Event
  BY DEF Gone, Moved, Event
<1>2. queue \in Seq(Event) /\ Len(queue) \in Nat /\ QueueCap \in Nat
      /\ Len(queue) <= QueueCap
  BY ShareAssumption DEF Watched, ShareAssumption
<1>3. CASE Sent(e)
  <2>1. Len(queue) < QueueCap /\ queue' = Append(queue, e)
    BY <1>3 DEF Sent
  <2>2. queue' \in Seq(Event) /\ Len(queue') = Len(queue) + 1
    BY <1>1, <1>2, <2>1, AppendProperties
  <2> QED
    BY <1>2, <2>1, <2>2
<1>4. CASE UNCHANGED queue
  BY <1>2, <1>4
<1> QED
  BY <1>3, <1>4

\* Whatever the watcher makes of a change, channel and pending keep their types.
LEMMA SeeTypes ==
  ASSUME Watched, NEW p \in Path, NEW q \in Path,
         SeeWrite(p) \/ SeeDelete(p) \/ SeeRename(p, q)
           \/ UNCHANGED <<queue, pending>>
  PROVE  Watched'
<1>1. pending' \subseteq Path
  BY DEF Watched, SeeWrite, SeeDelete, SeeRename
<1>2. \/ UNCHANGED queue
      \/ Sent(Gone(p)) \/ Sent(Moved(p, q))
  BY DEF SeeWrite, SeeDelete, SeeRename
<1>3. queue' \in Seq(Event) /\ Len(queue') <= QueueCap
  BY <1>2, SentTypes DEF Watched
<1> QED
  BY <1>1, <1>3 DEF Watched

\* Publishing, and leaving the disk alone.
LEMMA PutTypes ==
  ASSUME Files, NEW p \in Path, NEW v \in Content, Put(p, v) \/ KeepDisk
  PROVE  Files'
<1>1. Watched'
  BY SeeTypes DEF Files, Put, KeepDisk
<1>2. disk' \in [Path -> Content \cup {Dir}] /\ sup' = sup
  BY DEF Files, Put, KeepDisk
<1> QED
  BY <1>1, <1>2 DEF Files

\* own keeps its type, whoever touches what.
LEMMA OwnTypes ==
  ASSUME own \in [Worker -> SUBSET Path], NEW P, NEW N \in SUBSET Path, NEW j,
         Touched(P) \/ TouchedBy(j, P, N) \/ Disowns(j, P)
  PROVE  own' \in [Worker -> SUBSET Path]
BY DEF Touched, TouchedBy, Disowns

\* The store's steps: a manifest is added, chunks are put or dropped.
LEMMA StoreSteps ==
  ASSUME Store, NEW v \in Content
  PROVE  /\ PutManifest(v) =>
              /\ manifests' \subseteq Hash /\ manifests \subseteq manifests'
              /\ v # Tombstone => ManifestFor(v)'
         /\ v # Tombstone /\ PutVerified(HashOf(v)) =>
              /\ cas' \in [Hash -> Chunks] /\ cas'[HashOf(v)] # "absent"
              /\ \A h \in Hash : cas[h] # "absent" => cas'[h] # "absent"
         /\ Drop(v) =>
              /\ cas' \in [Hash -> Chunks]
              /\ \A h \in Hash : cas[h] # "absent" => cas'[h] # "absent"
<1>1. v # Tombstone => /\ KeyOf(v) = HashOf(v) /\ HashOf(v) \in Hash
                       /\ HashOf(v) # 0
  BY Keys
<1>2. v = Tombstone => KeyOf(v) = 0
  BY Keys
<1>3. ASSUME PutManifest(v)
      PROVE  /\ manifests' \subseteq Hash /\ manifests \subseteq manifests'
             /\ v # Tombstone => ManifestFor(v)'
  BY <1>1, <1>2, <1>3 DEF PutManifest, Store, ManifestFor
<1>4. ASSUME v # Tombstone, PutVerified(HashOf(v))
      PROVE  /\ cas' \in [Hash -> Chunks] /\ cas'[HashOf(v)] # "absent"
             /\ \A h \in Hash : cas[h] # "absent" => cas'[h] # "absent"
  BY <1>1, <1>4 DEF PutVerified, Store, Has, Chunks
<1>5. ASSUME Drop(v)
      PROVE  /\ cas' \in [Hash -> Chunks]
             /\ \A h \in Hash : cas[h] # "absent" => cas'[h] # "absent"
  BY <1>1, <1>5 DEF Drop, Store, Chunks
<1> QED
  BY <1>3, <1>4, <1>5

-----------------------------------------------------------------------------
(* Users, ingest and the scanner *)

Safe(B) == Data(B) /\ InHand /\ Backing

\* Steps that leave index, store and tasks alone.
LEMMA Quiet ==
  ASSUME InHand, Backing, UNCHANGED <<row, manifests, cas, strays, inbox, job>>,
         \A o \in ing' : o \in ing \/ o.val = Tombstone
  PROVE  InHand' /\ Backing'
<1>1. InHand'
  BY DEF InHand
<1>2. /\ \A p \in Path : Known(row[p].val)'
      /\ \A o \in ing' : o.val # Tombstone => cas'[HashOf(o.val)] # "absent"
      /\ \A j \in Task : \A k \in job'[j] : Prepared(k)'
  BY DEF Backing, Known, Prepared, Stored, ManifestFor
<1> QED
  BY <1>1, <1>2 DEF Backing

\* A user's change reaches the index only through what the watcher saw of it.
LEMMA UserChangeKeeps ==
  ASSUME NEW B \in VV, Safe(B), NEW d \in [Path -> Content \cup {Dir}],
         NEW P, UserChange(d, P), Watched'
  PROVE  Safe(B)'
<1>1. own' \in [Worker -> SUBSET Path]
  BY OwnTypes DEF UserChange, Safe, Data
<1>2. Files' /\ Store' /\ Index(B)'
  BY DEF UserChange, Safe, Data, Files, Store, Index, content
<1>3. Data(B)'
  BY <1>1, <1>2 DEF UserChange, Safe, Data
<1>4. InHand' /\ Backing'
  BY Quiet DEF UserChange, Safe, content
<1> QED
  BY <1>3, <1>4 DEF Safe

\* Users' changes touch the disk and what is seen of it.
LEMMA UserStepKeeps ==
  ASSUME NEW B \in VV, Safe(B), UserStep
  PROVE  Safe(B)'
<1>1. /\ disk \in [Path -> Content \cup {Dir}] /\ Watched
      /\ UserVal \subseteq Content /\ Tombstone \in Content /\ Value \subseteq Content
  BY ShareAssumption DEF Safe, Data, Files, ShareAssumption, Content
<1>2. ASSUME NEW p \in Path, NEW v \in UserVal, UserWrite(p, v)
      PROVE  Safe(B)'
  <2>1. Watched'
    BY <1>1, <1>2, SeeTypes DEF UserWrite
  <2>2. [disk EXCEPT ![p] = v] \in [Path -> Content \cup {Dir}]
    BY <1>1
  <2> QED
    BY <1>2, <2>1, <2>2, UserChangeKeeps DEF UserWrite
<1>3. ASSUME NEW p \in Path, UserDelete(p)
      PROVE  Safe(B)'
  <2>1. Watched'
    BY <1>1, <1>3, SeeTypes DEF UserDelete
  <2>2. [disk EXCEPT ![p] = Tombstone] \in [Path -> Content \cup {Dir}]
    BY <1>1
  <2> QED
    BY <1>3, <2>1, <2>2, UserChangeKeeps DEF UserDelete
<1>4. ASSUME NEW p \in Path, NEW q \in Path, UserRename(p, q)
      PROVE  Safe(B)'
  <2>1. Watched'
    BY <1>1, <1>4, SeeTypes DEF UserRename
  <2>2. [disk EXCEPT ![p] = Tombstone, ![q] = disk[p]]
          \in [Path -> Content \cup {Dir}]
    BY <1>1
  <2> QED
    BY <1>4, <2>1, <2>2, UserChangeKeeps DEF UserRename
<1>5. ASSUME NEW p \in Path, UserMkdir(p)
      PROVE  Safe(B)'
  <2>1. Watched'
    BY <1>1, <1>5, SeeTypes DEF UserMkdir
  <2>2. [disk EXCEPT ![p] = Dir] \in [Path -> Content \cup {Dir}]
    BY <1>1
  <2> QED
    BY <1>5, <2>1, <2>2, UserChangeKeeps DEF UserMkdir
<1> QED
  BY <1>2, <1>3, <1>4, <1>5 DEF UserStep

\* The head of the channel is an event, and the rest of it stays within bounds.
LEMMA TakeTypes ==
  ASSUME Watched, queue # <<>>, queue' = Tail(queue), pending' \subseteq pending
  PROVE  Watched' /\ Head(queue).path \in Path
         /\ (Head(queue).to # None => Head(queue).to \in Path)
<1>1. queue \in Seq(Event) /\ Len(queue) <= QueueCap /\ Len(queue) \in Nat
      /\ QueueCap \in Nat
  BY ShareAssumption DEF Watched, ShareAssumption
<1>2. Head(queue) \in Event /\ queue' \in Seq(Event) /\ Len(queue') = Len(queue) - 1
  BY <1>1, HeadTailProperties
<1> QED
  BY <1>1, <1>2 DEF Watched, Event

\* handle_delete only takes note of what it saw.
LEMMA TakeDeleteKeeps ==
  ASSUME NEW B \in VV, Safe(B), TakeDelete
  PROVE  Safe(B)'
<1> DEFINE p == Head(queue).path
<1>1. Watched' /\ p \in Path
  BY TakeTypes DEF TakeDelete, Safe, Data, Files
<1>2. ing' \subseteq {[path |-> p, val |-> Tombstone]}
  BY DEF TakeDelete
<1>3. ing' \subseteq Observation /\ \A o \in ing' : o.val = Tombstone
  BY <1>1, <1>2 DEF Observation, Content
<1>4. Files' /\ Store' /\ Index(B)'
  BY <1>1 DEF TakeDelete, Safe, Data, Files, Store, Index, content
<1>5. Data(B)'
  BY <1>3, <1>4 DEF TakeDelete, Safe, Data
<1>6. InHand' /\ Backing'
  BY <1>3, Quiet DEF TakeDelete, Safe, content
<1> QED
  BY <1>5, <1>6 DEF Safe

\* Expiring a suppression entry touches nothing else.
LEMMA SweepKeeps ==
  ASSUME NEW B \in VV, Safe(B), NEW p \in Path, Sweep(p)
  PROVE  Safe(B)'
<1>1. Files' /\ Store' /\ Index(B)'
  BY DEF Sweep, Consume, Safe, Data, Files, Watched, Store, Index, content
<1>2. Data(B)'
  BY <1>1 DEF Sweep, Safe, Data
<1>3. InHand' /\ Backing'
  BY Quiet DEF Sweep, Safe, content
<1> QED
  BY <1>2, <1>3 DEF Safe

\* The scanner reads the index and feeds the queue.
LEMMA ScanPassKeeps ==
  ASSUME NEW B \in VV, Safe(B), ScanPass
  PROVE  Safe(B)'
<1>1. Watched /\ scan \subseteq Pass
  BY DEF Safe, Data, Files
<1>2. ASSUME NEW D \in SUBSET (Path \cup {None})
      PROVE  Deleting(D) \subseteq Pass
  BY DEF Deleting, Pass
<1>3. PICK s : ScanStep(s)
  BY Zenon DEF ScanPass, Walk, LiveFiles, SendDelete
<1>4. ASSUME Walk
      PROVE  scan' \subseteq Pass /\ Watched'
  <2>1. scan' \subseteq Pass
    BY <1>4 DEF Walk, ScanStep, Pass
  <2>2. Watched'
    BY <1>1, <1>4 DEF Walk, Watched
  <2> QED
    BY <2>1, <2>2
<1>5. ASSUME LiveFiles
      PROVE  scan' \subseteq Pass /\ Watched'
  <2>1. PICK t \in scan :
          ScanStep(Deleting({p \in Path : row[p].val # Tombstone} \ t.seen))
    BY <1>5, Zenon DEF LiveFiles
  <2>2. scan' \subseteq Pass
    BY <1>2, <2>1 DEF ScanStep
  <2>3. Watched'
    BY <1>1, <1>5 DEF LiveFiles, Watched
  <2> QED
    BY <2>2, <2>3
<1>6. ASSUME NEW p \in Path, SendDelete(p)
      PROVE  scan' \subseteq Pass /\ Watched'
  <2>1. PICK t \in scan : ScanStep(Deleting(t.todo \ {p})) /\ Sent(Gone(p))
    BY <1>6, Zenon DEF SendDelete
  <2>2. scan' \subseteq Pass
    BY <1>1, <1>2, <2>1 DEF ScanStep, Pass
  <2>3. Watched'
    BY <1>1, <1>6, <2>1, SentTypes DEF SendDelete, Watched
  <2> QED
    BY <2>2, <2>3
<1>7. scan' \subseteq Pass /\ Watched'
  BY <1>4, <1>5, <1>6 DEF ScanPass
<1>8. Files' /\ Store' /\ Index(B)'
  BY <1>3, <1>7 DEF ScanStep, Safe, Data, Files, Store, Index, content
<1>9. Data(B)'
  BY <1>3, <1>7, <1>8 DEF ScanStep, Safe, Data
<1>10. InHand' /\ Backing'
  BY <1>3, Quiet DEF ScanStep, Safe, content
<1> QED
  BY <1>9, <1>10 DEF Safe

\* flush_ripe stores the chunks of what it hands to the append.
LEMMA FlushRipeKeeps ==
  ASSUME NEW B \in VV, Safe(B), NEW p \in Path, FlushRipe(p)
  PROVE  Safe(B)'
<1>1. Store /\ job \in [Task -> SUBSET JobsUpTo(B)]
  BY DEF Safe, Data
<1>2. /\ cas' \in [Hash -> Chunks]
      /\ \A h \in Hash : cas[h] # "absent" => cas'[h] # "absent"
      /\ ing' \subseteq Observation
      /\ \A o \in ing' : o.val # Tombstone /\ cas'[HashOf(o.val)] # "absent"
  <2>1. CASE disk[p] \in Value
    <3>1. disk[p] \in Content /\ disk[p] # Tombstone
      BY <2>1, Keys DEF Content
    <3>2. /\ ing' = {[path |-> p, val |-> disk[p]]}
          /\ PutVerified(HashOf(disk[p]))
      BY <2>1 DEF FlushRipe, ChunkFileIntoCas
    <3>3. /\ cas' \in [Hash -> Chunks] /\ cas'[HashOf(disk[p])] # "absent"
          /\ \A h \in Hash : cas[h] # "absent" => cas'[h] # "absent"
      BY <1>1, <3>1, <3>2, StoreSteps
    <3> QED
      BY <3>1, <3>2, <3>3 DEF Observation
  <2>2. CASE disk[p] \notin Value
    <3>1. ing' = {} /\ cas' = cas
      BY <2>2 DEF FlushRipe
    <3> QED
      BY <1>1, <3>1 DEF Store
  <2> QED
    BY <2>1, <2>2
<1>3. Files' /\ Store' /\ Index(B)'
  BY <1>1, <1>2 DEF FlushRipe, Safe, Data, Files, Watched, Store, Index
<1>4. Data(B)'
  BY <1>2, <1>3 DEF FlushRipe, Safe, Data
<1>5. InHand'
  BY DEF FlushRipe, Safe, InHand
<1>6. Grows
  BY <1>2 DEF Grows, FlushRipe
<1>7. Backing'
  <2>1. ASSUME NEW q \in Path
        PROVE  Known(row[q].val)'
    <3>1. row[q].val \in Content /\ Known(row[q].val) /\ row'[q] = row[q]
      BY DEF Safe, Data, Index, VersionsUpTo, Version, Content, Backing, FlushRipe
    <3>2. row[q].val # Tombstone => HashOf(row[q].val) \in Hash
      BY <3>1, Keys
    <3> QED
      BY <1>6, <3>1, <3>2 DEF Grows, Known, Stored, ManifestFor
  <2>2. ASSUME NEW j \in Task, NEW k \in job[j]
        PROVE  Prepared(k)'
    BY <1>1, <1>6, <2>2, PreparedStays DEF Safe, Backing
  <2> QED
    BY <1>2, <2>1, <2>2 DEF Backing, FlushRipe
<1> QED
  BY <1>4, <1>5, <1>7 DEF Safe

\* append_local and append_local_rename raise the node's own component.
LEMMA IngestKeeps ==
  ASSUME NEW B \in VV, Safe(B), Ingest
  PROVE  Safe(Increment(B, Local))'
<1> DEFINE C == Increment(B, Local)
<1>1. C \in VV /\ Leq(B, C) /\ Data(C)
  BY IncrementBounded, DataGrows, Nodes DEF Safe
<1>2. PICK o \in ing :
        /\ ing' = {}
        /\ pending' = IF o.val = Tombstone THEN pending \ {o.path} ELSE pending
        /\ IF Suppressed(o.path, o.val)
           THEN Consume(o.path) /\ UNCHANGED <<row, oplog, manifests, own>>
           ELSE AppendLocal(o.path, o.val) /\ UNCHANGED sup
        /\ UNCHANGED <<disk, cas, strays, queue, scan, peer, inbox, job, armed, count>>
  BY Zenon DEF Ingest
<1>3. /\ o.path \in Path /\ o.val \in Content
      /\ o.val # Tombstone => cas[HashOf(o.val)] # "absent"
  BY DEF Safe, Data, Observation, Backing
<1> DEFINE new == [val |-> o.val, vv |-> Increment(row[o.path].vv, Local)]
<1>4. new \in VersionsUpTo(C)
  <2>1. row[o.path].vv \in VV /\ Leq(row[o.path].vv, B)
    BY <1>3 DEF Safe, Data, Index, VersionsUpTo, Version
  <2>2. /\ Increment(row[o.path].vv, Local) \in VV
        /\ Leq(Increment(row[o.path].vv, Local), C)
    BY <2>1, IncrementBounded, Nodes
  <2> QED
    BY <1>3, <2>2 DEF VersionsUpTo, Version, Content
<1>5. \/ UNCHANGED <<row, oplog, manifests, own>>
      \/ /\ row' = [row EXCEPT ![o.path] = new]
         /\ oplog' = [oplog EXCEPT ![o.path] = @ \cup {new}]
         /\ PutManifest(o.val)
         /\ Touched({o.path})
  BY <1>2, Zenon DEF AppendLocal
<1> HIDE DEF C
<1>6. row' \in [Path -> VersionsUpTo(C)] /\ oplog' \in [Path -> SUBSET VersionsUpTo(C)]
  <2> HIDE DEF new
  <2> QED
    BY <1>1, <1>3, <1>4, <1>5 DEF Data, Index
<1>7. Store' /\ manifests \subseteq manifests'
  BY <1>2, <1>3, <1>5, StoreSteps DEF Safe, Data, Store
<1>8. own' \in [Worker -> SUBSET Path]
  BY <1>5, OwnTypes DEF Safe, Data
<1>9. Files'
  <2>1. sup' \in [Path -> SUBSET (Hash \cup {0})]
    BY <1>2 DEF Safe, Data, Files, Consume
  <2> QED
    BY <1>2, <2>1 DEF Safe, Data, Files, Watched
<1>10. Data(C)'
  BY <1>1, <1>2, <1>6, <1>7, <1>8, <1>9 DEF Data, Index
<1>11. InHand'
  BY <1>2 DEF Safe, InHand
<1>12. Grows
  BY <1>2, <1>7 DEF Grows
<1>13. Backing'
  <2>1. ASSUME NEW q \in Path
        PROVE  Known(row[q].val)'
    <3>1. row[q].val \in Content /\ Known(row[q].val)
      BY DEF Safe, Data, Index, VersionsUpTo, Version, Content, Backing
    <3>2. CASE row'[q] = row[q]
      <4>1. row[q].val # Tombstone => HashOf(row[q].val) \in Hash
        BY <3>1, Keys
      <4> QED
        BY <1>12, <3>1, <3>2, <4>1 DEF Grows, Known, Stored, ManifestFor
    <3>3. CASE row'[q] # row[q]
      <4>1. row'[q].val = o.val /\ PutManifest(o.val)
        BY <1>3, <1>5, <3>3 DEF Safe, Data, Index
      <4>2. o.val # Tombstone => ManifestFor(o.val)'
        BY <1>3, <4>1, StoreSteps DEF Safe, Data
      <4> QED
        BY <1>2, <1>3, <4>1, <4>2 DEF Known, Stored, ManifestFor
    <3> QED
      BY <3>2, <3>3
  <2>2. ASSUME NEW j \in Task, NEW k \in job[j]
        PROVE  Prepared(k)'
    BY <1>12, <2>2, PreparedStays DEF Safe, Data, Backing
  <2> QED
    BY <1>2, <2>1, <2>2 DEF Backing
<1> QED
  BY <1>10, <1>11, <1>13 DEF Safe, C

\* append_local_rename moves a backed row and raises one vector.
LEMMA TakeRenameKeeps ==
  ASSUME NEW B \in VV, Safe(B), TakeRename
  PROVE  Safe(Increment(B, Local))'
<1> DEFINE C == Increment(B, Local)
           p == Head(queue).path
           q == Head(queue).to
           vv == Increment(Merge(row[p].vv, row[q].vv), Local)
           gone == [val |-> Tombstone, vv |-> vv]
           here == [val |-> row[p].val, vv |-> vv]
<1>1. C \in VV /\ Leq(B, C) /\ Data(C)
  BY IncrementBounded, DataGrows, Nodes DEF Safe
<1>2. Watched' /\ p \in Path /\ q \in Path
  BY TakeTypes DEF TakeRename, Safe, Data, Files
<1>3. /\ row[p].vv \in VV /\ Leq(row[p].vv, B) /\ row[p].val \in Content
      /\ row[q].vv \in VV /\ Leq(row[q].vv, B) /\ Known(row[p].val)
  BY <1>2 DEF Safe, Data, Index, VersionsUpTo, Version, Content, Backing
<1>4. vv \in VV /\ Leq(vv, C)
  <2>1. Merge(row[p].vv, row[q].vv) \in VV /\ Leq(Merge(row[p].vv, row[q].vv), B)
    BY <1>3, MergeIsLub
  <2> QED
    BY <2>1, IncrementBounded, Nodes
<1>5. \/ UNCHANGED <<row, oplog, own>>
      \/ /\ row' = [row EXCEPT ![p] = gone, ![q] = here]
         /\ oplog' = [oplog EXCEPT ![p] = @ \cup {gone}, ![q] = @ \cup {here}]
         /\ Touched({p, q})
  BY Zenon DEF TakeRename, AppendLocalRename
<1>6. UNCHANGED <<disk, manifests, cas, strays, ing, scan, peer, inbox, job>>
  BY DEF TakeRename, content
<1>7. Files'
  <2>1. sup' \in [Path -> SUBSET (Hash \cup {0})]
    BY <1>2 DEF TakeRename, Consume, Safe, Data, Files
  <2> QED
    BY <1>2, <1>6, <2>1 DEF Safe, Data, Files
<1> HIDE DEF C, p, q, vv
<1>8. gone \in VersionsUpTo(C) /\ here \in VersionsUpTo(C)
  BY <1>3, <1>4 DEF VersionsUpTo, Version, Content
<1>9. row' \in [Path -> VersionsUpTo(C)] /\ oplog' \in [Path -> SUBSET VersionsUpTo(C)]
  <2>1. row \in [Path -> VersionsUpTo(C)] /\ oplog \in [Path -> SUBSET VersionsUpTo(C)]
    BY <1>1 DEF Data, Index
  <2> HIDE DEF gone, here
  <2> QED
    BY <1>2, <1>5, <1>8, <2>1
<1>10. own' \in [Worker -> SUBSET Path]
  BY <1>5, OwnTypes DEF Safe, Data
<1>11. Data(C)'
  BY <1>1, <1>6, <1>7, <1>9, <1>10 DEF Data, Index, Store
<1>12. InHand'
  BY <1>6 DEF Safe, InHand
<1>13. Backing'
  <2>1. row \in [Path -> VersionsUpTo(B)]
    BY DEF Safe, Data, Index
  <2>2. ASSUME NEW r \in Path
        PROVE  Known(row'[r].val)
    BY <1>2, <1>3, <1>5, <2>1 DEF Safe, Backing, Known
  <2>3. /\ \A r \in Path : Known(row[r].val)'
        /\ \A j \in Task : \A k \in job'[j] : Prepared(k)'
    BY <1>6, <2>2 DEF Known, Stored, ManifestFor, Prepared, Safe, Backing
  <2> QED
    BY <1>6, <2>3 DEF Safe, Backing
<1> QED
  BY <1>11, <1>12, <1>13 DEF Safe, C

-----------------------------------------------------------------------------
(* The peer *)

\* A new op goes behind the one that is being handled.
LEMMA PeerChangeKeeps ==
  ASSUME NEW B \in VV, Safe(B), NEW C \in VV, Leq(B, C),
         NEW o \in OpsUpTo(C), NEW rows \in [Path -> VersionsUpTo(C)],
         PeerChange(o, rows)
  PROVE  Safe(C)'
<1>1. Data(C)
  BY DataGrows DEF Safe
<1>2. inbox \in Seq(OpsUpTo(C)) /\ inbox' = Append(inbox, o)
  BY <1>1 DEF Data, PeerChange
<1>3. inbox' \in Seq(OpsUpTo(C))
  BY <1>2, AppendProperties
<1>4. inbox # <<>> => inbox' # <<>> /\ Head(inbox') = Head(inbox)
  BY <1>2
<1>5. Files' /\ Store' /\ Index(C)'
  BY <1>1 DEF PeerChange, content, Data, Files, Watched, Store, Index
<1>6. Data(C)'
  BY <1>1, <1>3, <1>5 DEF PeerChange, content, Data
<1>7. InHand'
  BY <1>4 DEF PeerChange, Safe, InHand
<1>8. Backing'
  <2>1. UNCHANGED <<row, ing, manifests, cas, strays, job>>
    BY DEF PeerChange, content
  <2>2. /\ \A p \in Path : Known(row[p].val)'
        /\ \A j \in Task : \A k \in job'[j] : Prepared(k)'
    BY <2>1 DEF Known, Stored, ManifestFor, Prepared, Safe, Backing
  <2> QED
    BY <2>1, <2>2 DEF Safe, Backing
<1> QED
  BY <1>6, <1>7, <1>8 DEF Safe

\* The peer writes on top of rows it has.
LEMMA BasesBounded ==
  ASSUME NEW B \in VV, Data(B), NEW p \in Path, NEW r \in Bases(p)
  PROVE  r \in VersionsUpTo(B) /\ r.vv \in VV /\ Leq(r.vv, B) /\ r.val \in Content
<1>1. r \in VersionsUpTo(B)
  BY DEF Bases, Data, Index
<1> QED
  BY <1>1 DEF VersionsUpTo, Version, Content

\* The peer writes its own rows and its op into the stream.
LEMMA PeerStepKeeps ==
  ASSUME NEW B \in VV, Safe(B), PeerStep
  PROVE  Safe(Increment(B, Remote))'
<1> DEFINE C == Increment(B, Remote)
<1>1. C \in VV /\ Leq(B, C) /\ Data(C) /\ Data(B)
  BY IncrementBounded, DataGrows, Nodes DEF Safe
<1>2. peer \in [Path -> VersionsUpTo(C)]
  BY <1>1 DEF Data, Index
<1>3. \A v \in VV : Leq(v, B) => Increment(v, Remote) \in VV
                                 /\ Leq(Increment(v, Remote), C)
  BY IncrementBounded, Nodes
<1> HIDE DEF C
<1>4. ASSUME NEW p \in Path, NEW v \in PeerVal \cup {Tombstone}, PeerWrite(p, v)
      PROVE  Safe(C)'
  <2>1. v \in Content
    BY ShareAssumption DEF ShareAssumption, Content
  <2>2. PICK r \in Bases(p) :
          LET vv == Increment(r.vv, Remote)
          IN  PeerChange([path |-> p, old |-> None, val |-> v, vv |-> vv],
                         [peer EXCEPT ![p] = [val |-> v, vv |-> vv]])
    BY <1>4, Zenon DEF PeerWrite
  <2> DEFINE vv == Increment(r.vv, Remote)
  <2>3. vv \in VV /\ Leq(vv, C)
    BY <1>1, <1>3, BasesBounded
  <2>4. PeerChange([path |-> p, old |-> None, val |-> v, vv |-> vv],
                   [peer EXCEPT ![p] = [val |-> v, vv |-> vv]])
    BY <2>2
  <2> HIDE DEF vv
  <2>5. [path |-> p, old |-> None, val |-> v, vv |-> vv] \in OpsUpTo(C)
    BY <2>1, <2>3 DEF OpsUpTo, Op, Content
  <2>6. [val |-> v, vv |-> vv] \in VersionsUpTo(C)
    BY <2>1, <2>3 DEF VersionsUpTo, Version, Content
  <2>7. [peer EXCEPT ![p] = [val |-> v, vv |-> vv]] \in [Path -> VersionsUpTo(C)]
    BY <1>2, <2>6
  <2> QED
    BY <1>1, <2>4, <2>5, <2>7, PeerChangeKeeps
<1>5. ASSUME NEW p \in Path, NEW q \in Path, PeerRename(p, q)
      PROVE  Safe(C)'
  <2>1. PICK r \in Bases(p), s \in Bases(q) :
          LET vv == Increment(Merge(r.vv, s.vv), Remote)
          IN  PeerChange([path |-> q, old |-> p, val |-> r.val, vv |-> vv],
                         [peer EXCEPT ![p] = [val |-> Tombstone, vv |-> vv],
                                      ![q] = [val |-> r.val, vv |-> vv]])
    BY <1>5, Zenon DEF PeerRename
  <2> DEFINE vv == Increment(Merge(r.vv, s.vv), Remote)
             gone == [val |-> Tombstone, vv |-> vv]
             here == [val |-> r.val, vv |-> vv]
  <2>2. PeerChange([path |-> q, old |-> p, val |-> r.val, vv |-> vv],
                   [peer EXCEPT ![p] = gone, ![q] = here])
    BY <2>1
  <2>3. vv \in VV /\ Leq(vv, C) /\ r.val \in Content
    <3>1. /\ r.vv \in VV /\ Leq(r.vv, B) /\ s.vv \in VV /\ Leq(s.vv, B)
          /\ r.val \in Content
      BY <1>1, BasesBounded
    <3>2. Merge(r.vv, s.vv) \in VV /\ Leq(Merge(r.vv, s.vv), B)
      BY <3>1, MergeIsLub
    <3> QED
      BY <1>3, <3>1, <3>2
  <2> HIDE DEF vv
  <2>4. [path |-> q, old |-> p, val |-> r.val, vv |-> vv] \in OpsUpTo(C)
    BY <2>3 DEF OpsUpTo, Op, Content
  <2>5. gone \in VersionsUpTo(C) /\ here \in VersionsUpTo(C)
    BY <2>3 DEF VersionsUpTo, Version, Content
  <2> HIDE DEF gone, here
  <2>6. [peer EXCEPT ![p] = gone, ![q] = here] \in [Path -> VersionsUpTo(C)]
    BY <1>2, <2>5
  <2> QED
    BY <1>1, <2>2, <2>4, <2>6, PeerChangeKeeps
<1> QED
  BY <1>4, <1>5 DEF PeerStep, C

-----------------------------------------------------------------------------
(* A task starts *)

\* A task goes to the jobs it is given; an orphan is through.
LEMMA GoJobs ==
  ASSUME NEW j, NEW S, Go(j, S)
  PROVE  /\ \E T : /\ T \subseteq S /\ job' = [job EXCEPT ![j] = T]
                   /\ j \in Worker => T = S
         /\ UNCHANGED <<ing, scan, peer>>
<1> DEFINE T == IF j = "orphan" THEN {} ELSE S
<1>1. T \subseteq S /\ (j \in Worker => T = S)
  BY DEF Worker
<1>2. job' = [job EXCEPT ![j] = T] /\ UNCHANGED <<ing, scan, peer>>
  BY DEF Go
<1>3. \E U : U \subseteq S /\ job' = [job EXCEPT ![j] = U] /\ (j \in Worker => U = S)
  <2> HIDE DEF T
  <2> WITNESS T
  <2> QED
    BY <1>1, <1>2
<1> QED
  BY <1>2, <1>3

\* Only an idle task starts.
LEMMA StartKeeps ==
  ASSUME NEW B \in VV, Safe(B), NEW j \in Worker, NEW S,
         S \subseteq JobsUpTo(B), Go(j, S),
         \A n \in S : n.recorded \/ (j = "stream" /\ inbox # <<>> /\ n.op = Head(inbox)),
         \A n \in S : Prepared(n),
         UNCHANGED <<disk, row, oplog, content, sup, queue, pending, inbox, own>>
  PROVE  Safe(B)'
<1>1. job \in [Task -> SUBSET JobsUpTo(B)] /\ j \in Task
  BY DEF Safe, Data, Task
<1>2. job' = [job EXCEPT ![j] = S] /\ UNCHANGED <<ing, scan, peer>>
      /\ UNCHANGED <<manifests, cas, strays>>
  BY GoJobs DEF content
<1>3. job' \in [Task -> SUBSET JobsUpTo(B)]
      /\ job'[j] = S /\ \A i \in Task : i # j => job'[i] = job[i]
  BY <1>1, <1>2
<1>4. Files' /\ Store' /\ Index(B)'
  BY <1>2 DEF Safe, Data, Files, Watched, Store, Index
<1>5. Data(B)'
  BY <1>2, <1>3, <1>4 DEF Safe, Data
<1>6. InHand'
  BY <1>3 DEF Safe, InHand, Task, Worker
<1>7. Grows
  BY <1>2 DEF Grows
<1>8. \A n \in S : Prepared(n)'
  BY <1>2 DEF Prepared, Known, Stored, ManifestFor
<1>9. Backing'
  BY <1>1, <1>2, <1>7, <1>8, BackingFollows DEF Safe
<1> QED
  BY <1>5, <1>6, <1>9 DEF Safe

\* Deciding on an op starts its job; nothing durable changes yet.
LEMMA ReceiveKeeps ==
  ASSUME NEW B \in VV, Safe(B), Receive
  PROVE  Safe(B)'
<1> DEFINE o == Head(inbox)
           d == Decide(row[o.path], o.vv)
           have == SameContent(o.val, row[o.path].val)
           st == CASE d = "Ignore"     -> "record"
                   [] d = "Concurrent" -> "call"
                   [] d = "Apply" /\ o.val = Tombstone -> "publish"
                   [] d = "Apply" /\ o.val # Tombstone /\ ~ have -> "fetch"
                   [] d = "Apply" /\ have /\ o.old = None -> "meta"
                   [] d = "Apply" /\ have /\ o.old # None ->
                        IF Dominated(o.old, o.vv) THEN "unlink" ELSE "commit"
<1>1. inbox \in Seq(OpsUpTo(B)) /\ inbox # <<>> /\ o \in OpsUpTo(B)
  BY DEF Receive, Safe, Data
<1>2. Go("stream", Start(o, st, FALSE))
      /\ UNCHANGED <<disk, row, oplog, content, sup, queue, pending, inbox, own>>
  BY DEF Receive
<1>3. d \in {"Apply", "Ignore", "Concurrent"}
  BY DecideCases
<1>4. have => /\ o.val \in Value /\ o.val # Tombstone
              /\ HashOf(o.val) = HashOf(row[o.path].val)
              /\ row[o.path].val # Tombstone
  BY Keys DEF SameContent
<1> HIDE DEF o, d, have
<1>5. /\ st \in {"record", "call", "publish", "fetch", "meta", "unlink", "commit"}
      /\ st = "unlink" => o.old # None /\ Dominated(o.old, o.vv)
      /\ st = "fetch" => o.val # Tombstone
      /\ st = "publish" => o.val = Tombstone
      /\ st \in {"meta", "unlink", "commit"} => have
  <2>1. CASE d = "Ignore"
    BY <2>1
  <2>2. CASE d = "Concurrent"
    BY <2>2
  <2>3. CASE d = "Apply" /\ o.val = Tombstone
    BY <1>4, <2>3
  <2>4. CASE d = "Apply" /\ o.val # Tombstone /\ ~ have
    BY <2>4
  <2>5. CASE d = "Apply" /\ have /\ o.old = None
    BY <1>4, <2>5
  <2>6. CASE d = "Apply" /\ have /\ o.old # None
    BY <1>4, <2>6
  <2> QED
    BY <1>3, <2>1, <2>2, <2>3, <2>4, <2>5, <2>6
<1> HIDE DEF st
<1>6. /\ Start(o, st, FALSE) \subseteq JobsUpTo(B)
      /\ \A n \in Start(o, st, FALSE) : n.op = o /\ n.st = st /\ n.plan = NoRow
  <2> DEFINE u == o.old # None /\ Dominated(o.old, o.vv)
             m == [st |-> st, op |-> o, at |-> o.path, plan |-> NoRow,
                   calls |-> 0, staged |-> FALSE, unlink |-> u,
                   resolve |-> FALSE, recorded |-> FALSE, quarantined |-> FALSE,
                   failed |-> FALSE]
  <2>1. Start(o, st, FALSE) = {m}
    BY DEF Start
  <2>2. o \in Op /\ o.path \in Path /\ NoRow \in VersionsUpTo(B)
        /\ NoRow \in Version /\ 0 \in 0 .. MaxCalls
    BY <1>1, NoRowBounded, ShareAssumption
       DEF OpsUpTo, Op, VersionsUpTo, ShareAssumption
  <2>3. u \in BOOLEAN /\ (st = "unlink" => u) /\ (u => o.old # None)
    BY <1>5, Zenon
  <2> HIDE DEF u
  <2>4. m \in Job
    BY <1>5, <2>2, <2>3 DEF Job
  <2>5. m \in JobsUpTo(B)
    BY <1>1, <1>4, <1>5, <2>2, <2>3, <2>4 DEF JobsUpTo
  <2>6. m.op = o /\ m.st = st /\ m.plan = NoRow
    OBVIOUS
  <2> HIDE DEF m
  <2> QED
    BY <2>1, <2>5, <2>6
<1>7. have => Known(o.val)
  <2>1. SUFFICES ASSUME have PROVE Known(o.val)
    OBVIOUS
  <2>2. o.path \in Path
    BY <1>1 DEF OpsUpTo, Op
  <2>3. Known(row[o.path].val)
    BY <2>2 DEF Safe, Backing
  <2> QED
    BY <1>4, <2>1, <2>3 DEF Known, Stored, ManifestFor
<1>8. ASSUME NEW n \in Start(o, st, FALSE)
      PROVE  Prepared(n)
  <2>1. Known(NoRow.val)
    BY DEF Known, NoRow
  <2>2. n.op = o /\ n.st = st /\ n.plan = NoRow
    BY <1>6
  <2> QED
    BY <1>5, <1>7, <2>1, <2>2 DEF Prepared
<1> QED
  BY <1>1, <1>2, <1>6, <1>8, StartKeeps DEF Worker, o

\* So does deciding on a leaf of the peer's tree.
LEMMA ReadLeafKeeps ==
  ASSUME NEW B \in VV, Safe(B), NEW p \in Path, ReadLeaf(p)
  PROVE  Safe(B)'
<1> DEFINE o == [path |-> p, old |-> None, val |-> peer[p].val, vv |-> peer[p].vv]
           d == Decide(row[p], o.vv)
           st == IF d = "Concurrent" THEN "call"
                 ELSE IF o.val = Tombstone THEN "publish"
                 ELSE "fetch"
<1>1. peer[p] \in VersionsUpTo(B)
  BY DEF Safe, Data, Index
<1>2. o \in OpsUpTo(B)
  BY <1>1 DEF OpsUpTo, Op, VersionsUpTo, Version
<1>3. Go("session", Start(o, st, TRUE))
      /\ UNCHANGED <<disk, row, oplog, content, sup, queue, pending, inbox, own>>
  BY DEF ReadLeaf
<1> HIDE DEF o, d
<1>4. st \in {"call", "publish", "fetch"}
      /\ (st = "fetch" => o.val # Tombstone) /\ (st = "publish" => o.val = Tombstone)
  OBVIOUS
<1> HIDE DEF st
<1>5. /\ Start(o, st, TRUE) \subseteq JobsUpTo(B)
      /\ \A n \in Start(o, st, TRUE) : /\ n.op = o /\ n.st = st
                                       /\ n.recorded
                                       /\ n.plan = NoRow
  <2> DEFINE u == o.old # None /\ Dominated(o.old, o.vv)
             m == [st |-> st, op |-> o, at |-> o.path, plan |-> NoRow, calls |-> 0,
                   staged |-> FALSE, unlink |-> u, resolve |-> FALSE,
                   recorded |-> TRUE, quarantined |-> FALSE, failed |-> FALSE]
  <2>1. Start(o, st, TRUE) = {m}
    BY DEF Start
  <2>2. o \in Op /\ o.path \in Path /\ NoRow \in VersionsUpTo(B) /\ NoRow \in Version
        /\ 0 \in 0 .. MaxCalls
    BY <1>2, NoRowBounded, ShareAssumption DEF OpsUpTo, Op, VersionsUpTo, ShareAssumption
  <2>3. /\ u \in BOOLEAN /\ (u => o.old # None)
    OBVIOUS
  <2> HIDE DEF u
  <2>4. m \in Job
    BY <1>4, <2>2, <2>3 DEF Job, Stages
  <2>5. m \in JobsUpTo(B)
    BY <1>2, <1>4, <2>2, <2>3, <2>4 DEF JobsUpTo
  <2>6. m.op = o /\ m.st = st /\ m.plan = NoRow /\ m.recorded
    OBVIOUS
  <2> HIDE DEF m
  <2> QED
    BY <2>1, <2>5, <2>6
<1>6. ASSUME NEW n \in Start(o, st, TRUE)
      PROVE  Prepared(n)
  <2>1. Known(NoRow.val)
    BY DEF Known, NoRow
  <2>2. n.op = o /\ n.st = st /\ n.plan = NoRow
    BY <1>5
  <2> QED
    BY <1>4, <2>1, <2>2 DEF Prepared
<1> QED
  BY <1>3, <1>5, <1>6, StartKeeps DEF Worker

-----------------------------------------------------------------------------
(* A task works *)

\* What a step of a task has to show when it drops no op.
LEMMA TaskKeeps ==
  ASSUME NEW B \in VV, Safe(B), NEW j \in Task, NEW k \in job[j],
         NEW S, S \subseteq After(B, k), Go(j, S), inbox' = inbox,
         Files', Store', Grows, Index(B)', own' \in [Worker -> SUBSET Path],
         \A n \in S : Prepared(n)',
         \A p \in Path : row'[p] = row[p] \/ Known(row[p].val)'
  PROVE  Safe(B)'
<1>1. PICK T : T \subseteq S /\ job' = [job EXCEPT ![j] = T]
  BY GoJobs
<1>2. UNCHANGED <<ing, scan, peer>> /\ \A n \in T : Prepared(n)'
  BY <1>1, GoJobs
<1>3. job' \in [Task -> SUBSET JobsUpTo(B)] /\ InHand'
  BY <1>1, JobsFollow DEF Safe
<1>4. Data(B)'
  BY <1>2, <1>3 DEF Safe, Data
<1>5. Backing'
  BY <1>1, <1>2, BackingFollows DEF Safe
<1> QED
  BY <1>3, <1>4, <1>5 DEF Safe

\* The facts about a task's job that every step starts from.
LEMMA TaskFacts ==
  ASSUME NEW B \in VV, Safe(B), NEW j \in Task, NEW k \in job[j]
  PROVE  /\ k \in JobsUpTo(B) /\ k \in Loose(B) /\ Prepared(k)
         /\ k.op.path \in Path /\ k.op.old \in Path \cup {None}
         /\ k.op.val \in Content /\ k.plan.val \in Content /\ k.at \in Path
         /\ (k.unlink => k.op.old \in Path)
         /\ (k.st = "unlink" => k.unlink)
         /\ (k.st \in {"fetch", "chunks", "meta"} => k.op.val # Tombstone)
         /\ k.op.vv \in VV /\ Leq(k.op.vv, B)
         /\ Files /\ Store /\ Index(B) /\ own \in [Worker -> SUBSET Path]
<1>1. k \in JobsUpTo(B) /\ Prepared(k)
  BY DEF Safe, Data, Backing
<1>2. k \in Loose(B)
  BY <1>1, JobsAreLoose
<1>3. /\ k.st = "unlink" => k.unlink
      /\ k.st \in {"fetch", "chunks", "meta"} => k.op.val # Tombstone
  BY <1>1 DEF JobsUpTo
<1> QED
  BY <1>1, <1>2, <1>3, JobFields DEF Safe, Data

\* What a call registers are keys of contents and deletes.
LEMMA ArmKeeps ==
  ASSUME NEW B \in VV, Safe(B), NEW j \in Task, Arm(j)
  PROVE  Safe(B)'
<1> DEFINE keys(k, p) == {KeyOf(x[2]) : x \in {x \in Expected(k) : x[1] = p}}
<1>1. PICK k \in job[j] :
        /\ Calls(k)
        /\ sup' = [p \in Path |-> IF keys(k, p) = {} THEN sup[p] ELSE keys(k, p)]
  BY Zenon DEF Arm
<1>2. UNCHANGED <<disk, row, oplog, content, queue, pending, ing, scan, peer, inbox,
                  job, own>>
  BY DEF Arm
<1>3. k.op.val \in Content /\ k.plan.val \in Content /\ Tombstone \in Content /\ Files
  BY TaskFacts DEF Content
<1>4. k.st \in {"publish", "meta", "unlink", "place", "restore", "fetch"}
  BY <1>1 DEF Calls
<1>5. \A x \in Expected(k) : x[2] \in Content
  <2>1. CASE k.st \in {"publish", "meta"}
    BY <1>3, <2>1 DEF Expected
  <2>2. CASE k.st = "unlink"
    BY <1>3, <2>2 DEF Expected
  <2>3. CASE k.st \in {"place", "restore"}
    BY <1>3, <2>3 DEF Expected
  <2>4. CASE k.st = "fetch"
    BY <1>3, <2>4 DEF Expected
  <2> QED
    BY <1>4, <2>1, <2>2, <2>3, <2>4
<1>6. \A p \in Path : keys(k, p) \subseteq Hash \cup {0}
  BY <1>5, Keys
<1>7. sup' \in [Path -> SUBSET (Hash \cup {0})]
  <2> HIDE DEF keys
  <2> QED
    BY <1>1, <1>3, <1>6 DEF Files
<1>8. Files' /\ Store' /\ Index(B)'
  BY <1>2, <1>7 DEF Safe, Data, Files, Watched, Store, Index, content
<1>9. Data(B)'
  BY <1>2, <1>8 DEF Safe, Data
<1>10. InHand' /\ Backing'
  BY <1>2, Quiet DEF Safe, content
<1> QED
  BY <1>9, <1>10 DEF Safe

\* apply_rename moves a file: its content is in the store, or a stray from now on.
LEMMA MoveKeeps ==
  ASSUME NEW B \in VV, Safe(B), NEW j \in Task, Move(j)
  PROVE  Safe(B)'
<1>1. PICK k \in job[j] :
        LET src == disk[k.op.old]
        IN  /\ k.st = "fetch" /\ k.unlink
            /\ src # Tombstone
            /\ disk' = [disk EXCEPT ![k.op.old] = Tombstone,
                                    ![k.op.path] = IF src = Dir THEN Dir
                                                   ELSE MetaOver(src, k.op.val)]
            /\ IF src = Dir THEN UNCHANGED <<queue, pending>>
               ELSE SeeRename(k.op.old, k.op.path)
            /\ Go(j, At(k, "unlink"))
            /\ TouchedBy(j, {k.op.old, k.op.path},
                         IF src = row[k.op.old].val /\ SameContent(src, k.op.val)
                         THEN {k.op.old, k.op.path} ELSE {})
            /\ strays' = strays \cup {h \in {HashOf(k.op.val)} : ~ Stored(k.op.val)}
            /\ UNCHANGED <<row, oplog, manifests, cas, sup, inbox, count>>
  BY Zenon DEF Move
<1>2. /\ k \in Loose(B) /\ k.op.path \in Path /\ k.op.old \in Path
      /\ k.op.val \in Content /\ k.op.val # Tombstone
      /\ Files /\ Store /\ Index(B) /\ own \in [Worker -> SUBSET Path]
  BY <1>1, TaskFacts
<1>3. At(k, "unlink") \subseteq After(B, k)
  BY <1>1, <1>2, JobAt DEF Stages
<1>4. Files'
  <2> DEFINE new == IF disk[k.op.old] = Dir THEN Dir
                    ELSE MetaOver(disk[k.op.old], k.op.val)
  <2>1. Watched'
    BY <1>1, <1>2, SeeTypes DEF Files
  <2>2. k.op.val \in Value /\ (disk[k.op.old] # Dir => disk[k.op.old] \in Value)
    BY <1>1, <1>2, Keys DEF Files
  <2>3. new \in Content \cup {Dir}
    BY <2>2, MetaOverType DEF Content
  <2>4. disk' = [disk EXCEPT ![k.op.old] = Tombstone, ![k.op.path] = new]
        /\ Tombstone \in Content /\ sup' = sup
    BY <1>1 DEF Content
  <2> HIDE DEF new
  <2>5. disk' \in [Path -> Content \cup {Dir}]
    BY <1>2, <2>3, <2>4 DEF Files
  <2> QED
    BY <1>2, <2>1, <2>4, <2>5 DEF Files
<1>5. HashOf(k.op.val) \in Hash
  BY <1>2, Keys
<1>6. Store' /\ Grows /\ Index(B)'
  BY <1>1, <1>2, <1>5 DEF Store, Grows, Index, Go
<1>7. own' \in [Worker -> SUBSET Path]
  BY <1>1, <1>2, OwnTypes
<1>8. ASSUME NEW n \in At(k, "unlink")
      PROVE  Prepared(n)'
  <2>1. n.st = "unlink" /\ n.op = k.op
    BY <1>2, AtFields
  <2>2. Known(k.op.val)'
    BY <1>1 DEF Known, Stored, ManifestFor
  <2> QED
    BY <2>1, <2>2 DEF Prepared
<1> QED
  BY <1>1, <1>3, <1>4, <1>6, <1>7, <1>8, TaskKeeps

\* obtain_manifest: the manifest is in the database before the chunks are wanted.
LEMMA ObtainManifestKeeps ==
  ASSUME NEW B \in VV, Safe(B), NEW j \in Task, ObtainManifest(j)
  PROVE  Safe(B)'
<1>1. PICK k \in job[j] :
        /\ Transfers(k)
        /\ PutManifest(k.op.val)
        /\ Go(j, At(k, "chunks"))
        /\ UNCHANGED <<disk, row, oplog, cas, strays, sup, queue, pending, inbox,
                       own, count>>
  BY Zenon DEF ObtainManifest
<1>2. /\ k \in Loose(B) /\ k.op.val \in Content /\ k.op.val # Tombstone
      /\ Files /\ Store /\ Index(B) /\ own \in [Worker -> SUBSET Path]
  BY <1>1, TaskFacts DEF Transfers
<1>3. At(k, "chunks") \subseteq After(B, k)
  BY <1>2, JobAt DEF Stages
<1>4. manifests' \subseteq Hash /\ manifests \subseteq manifests' /\ ManifestFor(k.op.val)'
  BY <1>1, <1>2, StoreSteps
<1>5. Files' /\ Store' /\ Grows /\ Index(B)' /\ own' \in [Worker -> SUBSET Path]
  BY <1>1, <1>2, <1>4 DEF Files, Watched, Store, Grows, Index, Go
<1>6. ASSUME NEW n \in At(k, "chunks")
      PROVE  Prepared(n)'
  BY <1>2, <1>4, AtFields DEF Prepared
<1> QED
  BY <1>1, <1>3, <1>5, <1>6, TaskKeeps

\* fetch_missing_chunks: the chunks are in the store before the file is published.
LEMMA FetchChunksKeeps ==
  ASSUME NEW B \in VV, Safe(B), NEW j \in Task, FetchChunks(j)
  PROVE  Safe(B)'
<1>1. PICK k \in job[j] :
        /\ k.st = "chunks"
        /\ PutVerified(HashOf(k.op.val))
        /\ Go(j, At(k, "publish"))
        /\ UNCHANGED <<disk, row, oplog, manifests, strays, sup, queue, pending,
                       inbox, own, count>>
  BY Zenon DEF FetchChunks
<1>2. /\ k \in Loose(B) /\ k.op.val \in Content /\ k.op.val # Tombstone
      /\ Prepared(k)
      /\ Files /\ Store /\ Index(B) /\ own \in [Worker -> SUBSET Path]
  BY <1>1, TaskFacts
<1>3. At(k, "publish") \subseteq After(B, k)
  BY <1>2, JobAt DEF Stages
<1>4. /\ cas' \in [Hash -> Chunks] /\ cas'[HashOf(k.op.val)] # "absent"
      /\ \A h \in Hash : cas[h] # "absent" => cas'[h] # "absent"
  BY <1>1, <1>2, StoreSteps
<1>5. Files' /\ Store' /\ Grows /\ Index(B)' /\ own' \in [Worker -> SUBSET Path]
  BY <1>1, <1>2, <1>4 DEF Files, Watched, Store, Grows, Index, Go
<1>6. ASSUME NEW n \in At(k, "publish")
      PROVE  Prepared(n)'
  <2>1. n.st = "publish" /\ n.op = k.op
    BY <1>2, AtFields
  <2>2. Stored(k.op.val)'
    BY <1>1, <1>2, <1>4 DEF Stored, ManifestFor, Prepared
  <2> QED
    BY <2>1, <2>2 DEF Prepared
<1> QED
  BY <1>1, <1>3, <1>5, <1>6, TaskKeeps

\* Steps that give up on an op change no more than suppression entries.
LEMMA FetchFailsKeeps ==
  ASSUME NEW B \in VV, Safe(B), NEW j \in Task, FetchFails(j)
  PROVE  Safe(B)'
<1>1. PICK k \in job[j] :
        /\ Go(j, Unmaterializable(k)) \/ Go(j, {})
        /\ UNCHANGED <<disk, row, oplog, content, sup, queue, pending, inbox, own>>
  BY Zenon DEF FetchFails
<1>2. PICK S : Go(j, S) /\ S \in {Unmaterializable(k), {}}
  BY <1>1
<1>3. /\ k \in Loose(B) /\ Files /\ Store /\ Index(B)
      /\ own \in [Worker -> SUBSET Path]
  BY TaskFacts
<1>4. S \subseteq After(B, k) /\ \A n \in S : n.st = "record"
  BY <1>2, <1>3, UnmaterializableAfter
<1>5. Files' /\ Store' /\ Grows /\ Index(B)' /\ own' \in [Worker -> SUBSET Path]
  BY <1>1, <1>2, <1>3 DEF Files, Watched, Store, Grows, Index, Go, content
<1>6. \A n \in S : Prepared(n)'
  BY <1>4 DEF Prepared
<1> QED
  BY <1>1, <1>2, <1>4, <1>5, <1>6, TaskKeeps

\* A squatted path ends the effect, and never commits a row.
LEMMA BlockedKeeps ==
  ASSUME NEW B \in VV, Safe(B), NEW j \in Task, Blocked(j)
  PROVE  Safe(B)'
<1>1. PICK k \in job[j] :
        /\ Go(j, Unmaterializable(k)) /\ KeepDisk
        /\ \E P : Disowns(j, P)
        /\ UNCHANGED <<row, oplog, content, inbox, count>>
  BY Zenon DEF Blocked
<1>2. /\ k \in Loose(B) /\ Files /\ Store /\ Index(B)
      /\ own \in [Worker -> SUBSET Path]
  BY TaskFacts
<1>3. /\ Unmaterializable(k) \subseteq After(B, k)
      /\ \A n \in Unmaterializable(k) : n.st = "record"
  BY <1>2, UnmaterializableAfter
<1>4. own' \in [Worker -> SUBSET Path]
  BY <1>1, <1>2, OwnTypes
<1>5. Files' /\ Store' /\ Grows /\ Index(B)'
  BY <1>1, <1>2 DEF KeepDisk, Files, Watched, Store, Grows, Index, Go, content
<1>6. \A n \in Unmaterializable(k) : Prepared(n)'
  BY <1>3 DEF Prepared
<1> QED
  BY <1>1, <1>3, <1>4, <1>5, <1>6, TaskKeeps

\* What is published from the store may be committed.
LEMMA PublishKeeps ==
  ASSUME NEW B \in VV, Safe(B), NEW j \in Task, Publish(j)
  PROVE  Safe(B)'
<1>1. PICK k \in job[j] :
        /\ k.st = "publish"
        /\ Put(k.op.path, k.op.val)
        /\ Go(j, At(k, IF k.unlink THEN "unlink" ELSE "commit"))
        /\ TouchedBy(j, {k.op.path}, {k.op.path})
        /\ UNCHANGED <<row, oplog, content, inbox, count>>
  BY Zenon DEF Publish
<1>2. /\ k \in Loose(B) /\ k.op.path \in Path /\ k.op.val \in Content
      /\ Prepared(k)
      /\ Files /\ Store /\ Index(B) /\ own \in [Worker -> SUBSET Path]
  BY <1>1, TaskFacts
<1> DEFINE st == IF k.unlink THEN "unlink" ELSE "commit"
<1>3. st \in {"unlink", "commit"} /\ (st = "unlink" => k.unlink)
  OBVIOUS
<1>4. Go(j, At(k, st))
  BY <1>1
<1> HIDE DEF st
<1>5. At(k, st) \subseteq After(B, k)
  BY <1>2, <1>3, JobAt DEF Stages
<1>6. Files'
  BY <1>1, <1>2, PutTypes
<1>7. Store' /\ Grows /\ Index(B)'
  BY <1>1, <1>2 DEF Store, Grows, Index, Go, content
<1>8. own' \in [Worker -> SUBSET Path]
  BY <1>1, <1>2, OwnTypes
<1>9. ASSUME NEW n \in At(k, st)
      PROVE  Prepared(n)'
  <2>1. n.st = st /\ n.op = k.op
    BY <1>2, AtFields
  <2>2. Known(k.op.val)'
    BY <1>1, <1>2 DEF Known, Stored, ManifestFor, Prepared, content
  <2> QED
    BY <1>3, <2>1, <2>2 DEF Prepared
<1> QED
  BY <1>1, <1>4, <1>5, <1>6, <1>7, <1>8, <1>9, TaskKeeps

\* A call that fails for now ends the task.  A rotten chunk is dropped: gone, but
\* not for want of having been stored.
LEMMA SpoiltKeeps ==
  ASSUME NEW B \in VV, Safe(B), NEW j \in Task, Spoilt(j)
  PROVE  Safe(B)'
<1>1. PICK k \in job[j] :
        /\ Drop(k.op.val) \/ UNCHANGED cas
        /\ Go(j, {})
        /\ KeepDisk
        /\ UNCHANGED <<row, oplog, manifests, strays, inbox, own, count>>
  BY Zenon DEF Spoilt
<1>2. /\ k \in Loose(B) /\ k.op.path \in Path /\ k.op.val \in Content
      /\ Files /\ Store /\ Index(B) /\ own \in [Worker -> SUBSET Path]
  BY TaskFacts
<1>3. Files'
  BY <1>1, <1>2, PutTypes
<1>4. /\ cas' \in [Hash -> Chunks]
      /\ \A h \in Hash : cas[h] # "absent" => cas'[h] # "absent"
  <2>1. CASE Drop(k.op.val)
    BY <1>2, <2>1, StoreSteps
  <2>2. CASE UNCHANGED cas
    BY <1>2, <2>2 DEF Store
  <2> QED
    BY <1>1, <2>1, <2>2
<1>5. Store' /\ Grows /\ Index(B)'
  BY <1>1, <1>2, <1>4 DEF Store, Grows, Index, Go
<1> QED
  BY <1>1, <1>2, <1>3, <1>5, TaskKeeps

\* Metadata goes over a file whose content a row names already.
LEMMA MetaKeeps ==
  ASSUME NEW B \in VV, Safe(B), NEW j \in Task, Meta(j)
  PROVE  Safe(B)'
<1>1. PICK k \in job[j] :
        LET p == k.op.path
        IN  /\ k.st = "meta"
            /\ IF disk[p] \in Value
               THEN /\ disk' = [disk EXCEPT ![p] = MetaOver(disk[p], k.op.val)]
                    /\ SeeWrite(p)
                    /\ TouchedBy(j, {p}, {q \in {p} : disk[q] = row[q].val})
               ELSE UNCHANGED <<disk, queue, pending, own>>
            /\ Go(j, IF disk[p] = Tombstone THEN {} ELSE At(k, "commit"))
            /\ UNCHANGED <<row, oplog, content, sup, inbox, count>>
  BY Zenon DEF Meta
<1> DEFINE p == k.op.path
           S == IF disk[p] = Tombstone THEN {} ELSE At(k, "commit")
<1>2. /\ k \in Loose(B) /\ p \in Path /\ k.op.val \in Content /\ Prepared(k)
      /\ Files /\ Store /\ Index(B) /\ own \in [Worker -> SUBSET Path]
  BY <1>1, TaskFacts
<1>3. Go(j, S)
  BY <1>1
<1>4. S \subseteq At(k, "commit")
  OBVIOUS
<1>5. At(k, "commit") \subseteq After(B, k)
  BY <1>2, JobAt DEF Stages
<1>6. Watched'
  BY <1>1, <1>2, SeeTypes DEF Files
<1>7. sup' = sup
  BY <1>1
<1>8. disk' \in [Path -> Content \cup {Dir}]
  <2>1. k.op.val \in Value
    BY <1>1, <1>2, TaskFacts, Keys
  <2>2. disk[p] \in Value => MetaOver(disk[p], k.op.val) \in Content
    BY <2>1, MetaOverType DEF Content
  <2> QED
    BY <1>1, <1>2, <2>2 DEF Files
<1>9. own' \in [Worker -> SUBSET Path]
  BY <1>1, <1>2, OwnTypes
<1>10. Files' /\ Store' /\ Grows /\ Index(B)'
  BY <1>1, <1>2, <1>6, <1>7, <1>8 DEF Files, Store, Grows, Index, Go, content
<1>11. ASSUME NEW n \in At(k, "commit")
       PROVE  Prepared(n)'
  <2>1. n.st = "commit" /\ n.op = k.op
    BY <1>2, AtFields
  <2>2. Known(k.op.val)'
    BY <1>1, <1>2 DEF Known, Stored, ManifestFor, Prepared, content
  <2> QED
    BY <2>1, <2>2 DEF Prepared
<1> QED
  BY <1>1, <1>3, <1>4, <1>5, <1>9, <1>10, <1>11, TaskKeeps

\* Unlinking a rename's source leaves index and store alone.
LEMMA UnlinkKeeps ==
  ASSUME NEW B \in VV, Safe(B), NEW j \in Task, Unlink(j)
  PROVE  Safe(B)'
<1>1. PICK k \in job[j] :
        /\ k.st = "unlink"
        /\ Put(k.op.old, Tombstone)
        /\ Go(j, At(k, "commit"))
        /\ TouchedBy(j, {k.op.old}, {k.op.old})
        /\ UNCHANGED <<row, oplog, content, inbox, count>>
  BY Zenon DEF Unlink
<1>2. /\ k \in Loose(B) /\ k.op.old \in Path /\ Prepared(k)
      /\ Files /\ Store /\ Index(B) /\ own \in [Worker -> SUBSET Path]
  BY <1>1, TaskFacts
<1>3. At(k, "commit") \subseteq After(B, k)
  BY <1>2, JobAt DEF Stages
<1>4. Files'
  BY <1>1, <1>2, PutTypes DEF Content
<1>5. Store' /\ Grows /\ Index(B)'
  BY <1>1, <1>2 DEF Store, Grows, Index, Go, content
<1>6. own' \in [Worker -> SUBSET Path]
  BY <1>1, <1>2, OwnTypes
<1>7. ASSUME NEW n \in At(k, "commit")
      PROVE  Prepared(n)'
  <2>1. n.st = "commit" /\ n.op = k.op
    BY <1>2, AtFields
  <2>2. Known(k.op.val)'
    BY <1>1, <1>2 DEF Known, Stored, ManifestFor, Prepared, content
  <2> QED
    BY <2>1, <2>2 DEF Prepared
<1> QED
  BY <1>1, <1>3, <1>4, <1>5, <1>6, <1>7, TaskKeeps

\* A rename's second effect starts from the committed row.
LEMMA SourceKeeps ==
  ASSUME NEW B \in VV, Safe(B), NEW j \in Task, Source(j)
  PROVE  Safe(B)'
<1>1. PICK k \in job[j] :
        /\ k.st = "source"
        /\ Go(j, At([k EXCEPT !.at = k.op.old, !.calls = 0, !.staged = FALSE,
                       !.plan = NoRow, !.resolve =
                         (Decide(row[k.op.old], k.op.vv) = "Concurrent")], "load"))
        /\ UNCHANGED <<disk, row, oplog, content, sup, queue, pending, inbox, own,
                       count>>
  BY Zenon DEF Source
<1> DEFINE b == Decide(row[k.op.old], k.op.vv) = "Concurrent"
           q == [k EXCEPT !.at = k.op.old, !.calls = 0, !.staged = FALSE,
                          !.plan = NoRow, !.resolve = b]
<1>2. /\ k \in JobsUpTo(B) /\ k \in Loose(B) /\ k.op.old \in Path \cup {None}
      /\ Files /\ Store /\ Index(B) /\ own \in [Worker -> SUBSET Path]
  BY <1>1, TaskFacts
<1>3. k.op.old \in Path
  BY <1>1, <1>2 DEF JobsUpTo
<1>4. Go(j, At(q, "load"))
  BY <1>1
<1>5. b \in BOOLEAN /\ NoRow \in VersionsUpTo(B) /\ NoRow \in Version
      /\ 0 \in 0 .. MaxCalls
  BY NoRowBounded, ShareAssumption DEF VersionsUpTo, ShareAssumption
<1> HIDE DEF b
<1>6. q \in Loose(B) /\ q.op = k.op /\ q.recorded = k.recorded
  <2>1. k \in Job /\ k.op \in OpsUpTo(B) /\ (k.unlink => k.op.old # None)
    BY <1>2 DEF Loose
  <2>2. q \in Job
    BY <1>3, <1>5, <2>1 DEF Job
  <2>3. /\ q.op = k.op /\ q.recorded = k.recorded /\ q.plan = NoRow
        /\ q.unlink = k.unlink
    BY <2>1 DEF Job
  <2> HIDE DEF q
  <2> QED
    BY <1>5, <2>1, <2>2, <2>3 DEF Loose
<1> HIDE DEF q
<1>7. At(q, "load") \subseteq After(B, k)
  <2>1. At(q, "load") \subseteq After(B, q)
    BY <1>6, JobAt DEF Stages
  <2> QED
    BY <1>6, <2>1 DEF After
<1>8. \A n \in At(q, "load") : n.st = "load"
  BY <1>6, AtFields
<1>9. Files' /\ Store' /\ Grows /\ Index(B)' /\ own' \in [Worker -> SUBSET Path]
  BY <1>1, <1>2, <1>4 DEF Files, Watched, Store, Grows, Index, Go, content
<1>10. \A n \in At(q, "load") : Prepared(n)'
  BY <1>8 DEF Prepared
<1> QED
  BY <1>1, <1>4, <1>7, <1>9, <1>10, TaskKeeps

\* restore_local_content reads a backed row.
LEMMA LoadKeeps ==
  ASSUME NEW B \in VV, Safe(B), NEW j \in Task, Load(j)
  PROVE  Safe(B)'
<1>1. PICK k \in job[j] :
        /\ Go(j, At([k EXCEPT !.plan = row[k.at]], "restore"))
        /\ TouchedBy(j, {}, {k.at})
        /\ UNCHANGED <<disk, row, oplog, content, sup, queue, pending, inbox, count>>
  BY Zenon DEF Load
<1> DEFINE q == [k EXCEPT !.plan = row[k.at]]
<1>2. /\ k \in Loose(B) /\ k.at \in Path
      /\ Files /\ Store /\ Index(B) /\ own \in [Worker -> SUBSET Path]
  BY <1>1, TaskFacts
<1>3. row[k.at] \in VersionsUpTo(B)
  BY <1>2 DEF Index
<1>4. q \in Loose(B) /\ q.op = k.op /\ q.recorded = k.recorded
  <2>1. q \in Loose(B)
    BY <1>2, <1>3, JobExcept
  <2>2. q.op = k.op /\ q.recorded = k.recorded
    BY <1>2 DEF Loose, Job
  <2> QED
    BY <2>1, <2>2
<1>5. Go(j, At(q, "restore"))
  BY <1>1
<1> HIDE DEF q
<1>6. At(q, "restore") \subseteq After(B, k)
  <2>1. At(q, "restore") \subseteq After(B, q)
    BY <1>4, JobAt DEF Stages
  <2> QED
    BY <1>4, <2>1 DEF After
<1>7. \A n \in At(q, "restore") : n.st = "restore"
  BY <1>4, AtFields
<1>8. Files' /\ Store' /\ Grows /\ Index(B)'
  BY <1>1, <1>2, <1>5 DEF Files, Watched, Store, Grows, Index, Go, content
<1>9. own' \in [Worker -> SUBSET Path]
  BY <1>1, <1>2, OwnTypes
<1>10. \A n \in At(q, "restore") : Prepared(n)'
  BY <1>7 DEF Prepared
<1> QED
  BY <1>1, <1>5, <1>6, <1>8, <1>9, <1>10, TaskKeeps

\* It puts that row on disk, or drops a chunk that rotted.
LEMMA RestoreKeeps ==
  ASSUME NEW B \in VV, Safe(B), NEW j \in Task, Restore(j)
  PROVE  Safe(B)'
<1>1. PICK k \in job[j] :
        LET v == k.plan.val
        IN  /\ \/ KeepDisk /\ UNCHANGED <<own, cas>>
               \/ /\ Drop(v) /\ KeepDisk
                  /\ Disowns(j, {p \in {k.at} : ~ Intact(v)})
               \/ Put(k.at, v) /\ TouchedBy(j, {k.at}, {}) /\ UNCHANGED cas
            /\ Go(j, IF k.resolve
                     THEN At([k EXCEPT !.resolve = FALSE, !.plan = NoRow], "call")
                     ELSE Onward(k))
            /\ UNCHANGED <<row, oplog, manifests, strays, inbox, count>>
  BY Zenon DEF Restore
<1> DEFINE v == k.plan.val
           q == [k EXCEPT !.resolve = FALSE, !.plan = NoRow]
           S == IF k.resolve THEN At(q, "call") ELSE Onward(k)
<1>2. /\ k \in Loose(B) /\ k.at \in Path /\ v \in Content
      /\ Files /\ Store /\ Index(B) /\ own \in [Worker -> SUBSET Path]
  BY TaskFacts
<1>3. Go(j, S)
  BY <1>1
<1>4. Files'
  BY <1>1, <1>2, PutTypes
<1>5. UNCHANGED cas \/ Drop(v)
  BY <1>1
<1>6. own' \in [Worker -> SUBSET Path]
  <2>1. CASE UNCHANGED own
    BY <1>2, <2>1
  <2>2. CASE Disowns(j, {p \in {k.at} : ~ Intact(v)})
    BY <1>2, <2>2, OwnTypes
  <2>3. CASE TouchedBy(j, {k.at}, {})
    BY <1>2, <2>3, OwnTypes
  <2> QED
    BY <1>1, <2>1, <2>2, <2>3
<1>7. /\ cas' \in [Hash -> Chunks]
      /\ \A h \in Hash : cas[h] # "absent" => cas'[h] # "absent"
  BY <1>2, <1>5, StoreSteps DEF Store
<1>8. Store' /\ Grows /\ Index(B)'
  BY <1>1, <1>2, <1>3, <1>7 DEF Store, Grows, Index, Go
<1>9. /\ q \in Loose(B) /\ q.op = k.op /\ q.recorded = k.recorded
      /\ q.plan = NoRow
  <2>1. k \in Job /\ k.op \in OpsUpTo(B) /\ (k.unlink => k.op.old # None)
    BY <1>2 DEF Loose
  <2>2. NoRow \in Version /\ NoRow \in VersionsUpTo(B)
    BY NoRowBounded DEF VersionsUpTo
  <2>3. q \in Job
    BY <2>1, <2>2 DEF Job
  <2>4. /\ q.op = k.op /\ q.recorded = k.recorded /\ q.plan = NoRow
        /\ q.unlink = k.unlink
    BY <2>1 DEF Job
  <2> HIDE DEF q
  <2> QED
    BY <2>1, <2>2, <2>3, <2>4 DEF Loose
<1> HIDE DEF q
<1>10. At(q, "call") \subseteq After(B, k)
  <2>1. At(q, "call") \subseteq After(B, q)
    BY <1>9, JobAt DEF Stages
  <2> QED
    BY <1>9, <2>1 DEF After
<1>11. S \subseteq After(B, k)
  BY <1>2, <1>10, OnwardAfter
<1>12. ASSUME NEW n \in S
       PROVE  Prepared(n)'
  <2>1. CASE n \in At(q, "call")
    <3>1. n.st = "call" /\ n.plan = NoRow
      BY <1>9, <2>1, AtFields
    <3>2. Known(n.plan.val)'
      BY <3>1 DEF Known, NoRow
    <3> QED
      BY <3>1, <3>2 DEF Prepared
  <2>2. CASE n \in Onward(k)
    <3>1. n.st \in {"record", "source"}
      BY <1>2, <2>2, OnwardAfter
    <3> QED
      BY <3>1 DEF Prepared
  <2> QED
    BY <2>1, <2>2
<1> HIDE DEF S
<1> QED
  BY <1>1, <1>3, <1>4, <1>6, <1>8, <1>11, <1>12, TaskKeeps

-----------------------------------------------------------------------------
(* A task commits *)

\* The same as TaskKeeps for a step that records the op of its job.
LEMMA RecordingKeeps ==
  ASSUME NEW B \in VV, Safe(B), NEW j \in Worker, NEW k \in job[j], ~ k.recorded,
         NEW S, S \subseteq JobsUpTo(B), \A n \in S : n.recorded, Go(j, S),
         inbox' = Tail(inbox),
         Files', Store', Grows, Index(B)', own' \in [Worker -> SUBSET Path],
         \A n \in S : Prepared(n)',
         \A p \in Path : row'[p] = row[p] \/ Known(row[p].val)'
  PROVE  Safe(B)'
<1>1. job' = [job EXCEPT ![j] = S] /\ UNCHANGED <<ing, scan, peer>> /\ j \in Task
  BY GoJobs DEF Task
<1>2. /\ job' \in [Task -> SUBSET JobsUpTo(B)] /\ InHand'
      /\ inbox' \in Seq(OpsUpTo(B))
  BY <1>1, RecordDrops DEF Safe
<1>3. Data(B)'
  BY <1>1, <1>2 DEF Safe, Data
<1>4. Backing'
  BY <1>1, BackingFollows DEF Safe
<1> QED
  BY <1>2, <1>3, <1>4 DEF Safe

\* A committed row merges two vectors below the bound.
LEMMA JoinedBounded ==
  ASSUME NEW B \in VV, Index(B), NEW p \in Path, NEW v \in Content,
         NEW vv \in VV, Leq(vv, B)
  PROVE  Joined(p, v, vv) \in VersionsUpTo(B) /\ Joined(p, v, vv).val = v
<1>1. row[p].vv \in VV /\ Leq(row[p].vv, B)
  BY DEF Index, VersionsUpTo, Version
<1>2. Merge(row[p].vv, vv) \in VV /\ Leq(Merge(row[p].vv, vv), B)
  BY <1>1, MergeIsLub
<1> QED
  BY <1>2 DEF Joined, VersionsUpTo, Version, Content

\* Rows that stay, or become a version of the op, and a log that gains one.
LEMMA RemoteTypes ==
  ASSUME NEW B \in VV, Index(B), NEW o \in OpsUpTo(B), peer' = peer,
         row' = [p \in Path |-> row'[p]], oplog' = [p \in Path |-> oplog'[p]],
         \A p \in Path : row'[p] \in {row[p], Joined(p, o.val, o.vv),
                                      Joined(p, Tombstone, o.vv)},
         \A p \in Path : oplog'[p] \subseteq
           oplog[p] \cup {[val |-> o.val, vv |-> o.vv],
                          [val |-> Tombstone, vv |-> o.vv]}
  PROVE  Index(B)'
<1>1. o.val \in Content /\ Tombstone \in Content /\ o.vv \in VV /\ Leq(o.vv, B)
  BY DEF OpsUpTo, Op, Content
<1>2. ASSUME NEW p \in Path
      PROVE  row'[p] \in VersionsUpTo(B)
  <2>1. /\ row[p] \in VersionsUpTo(B) /\ Joined(p, o.val, o.vv) \in VersionsUpTo(B)
        /\ Joined(p, Tombstone, o.vv) \in VersionsUpTo(B)
    BY <1>1, JoinedBounded DEF Index
  <2> QED
    BY <2>1
<1>3. /\ [val |-> o.val, vv |-> o.vv] \in VersionsUpTo(B)
      /\ [val |-> Tombstone, vv |-> o.vv] \in VersionsUpTo(B)
  BY <1>1 DEF VersionsUpTo, Version, Content
<1>4. ASSUME NEW p \in Path
      PROVE  oplog'[p] \subseteq VersionsUpTo(B)
  <2>1. oplog[p] \subseteq VersionsUpTo(B)
    BY DEF Index
  <2> QED
    BY <1>3, <2>1
<1>5. row' \in [Path -> VersionsUpTo(B)]
  BY <1>2
<1>6. oplog' \in [Path -> SUBSET VersionsUpTo(B)]
  BY <1>4
<1> QED
  BY <1>5, <1>6 DEF Index

\* A commit writes the row of a version the task has prepared.
LEMMA CommitKeeps ==
  ASSUME NEW B \in VV, Safe(B), NEW j \in Worker, Commit(j)
  PROVE  Safe(B)'
<1>1. PICK k \in job[j] :
        LET d == Decide(row[k.op.path], k.op.vv)
            done == [k EXCEPT !.recorded = TRUE]
        IN  /\ k.st = "commit"
            /\ IF k.recorded
               THEN /\ row' = IF d = "Apply"
                              THEN [row EXCEPT ![k.op.path] =
                                      Joined(k.op.path, k.op.val, k.op.vv)]
                              ELSE row
                    /\ UNCHANGED <<oplog, inbox>>
               ELSE ApplyRemote(k.op, d = "Apply")
            /\ Go(j, IF d = "Apply" THEN Onward(done)
                     ELSE At([done EXCEPT !.resolve = (d = "Concurrent")], "load"))
            /\ TouchedBy(j, {p \in Path : row'[p] # row[p]}, {})
            /\ KeepDisk
            /\ UNCHANGED <<content, count>>
  BY Zenon DEF Commit
<1> DEFINE o == k.op
           d == Decide(row[o.path], o.vv)
           done == [k EXCEPT !.recorded = TRUE]
           b == d = "Concurrent"
           q == [done EXCEPT !.resolve = b]
           S == IF d = "Apply" THEN Onward(done) ELSE At(q, "load")
<1>2. /\ k \in Loose(B) /\ k.op.path \in Path /\ k.op.val \in Content
      /\ o \in OpsUpTo(B) /\ Prepared(k)
      /\ Files /\ Store /\ Index(B) /\ own \in [Worker -> SUBSET Path]
  BY TaskFacts, JobFields DEF Task
<1>3. Go(j, S)
  BY <1>1
<1>4. done \in Loose(B) /\ done.op = k.op /\ done.recorded
  BY <1>2, JobExcept, ExceptFields
<1> HIDE DEF done
<1>5. q \in Loose(B) /\ q.op = k.op /\ q.recorded
  <2>1. b \in BOOLEAN
    OBVIOUS
  <2> HIDE DEF b
  <2>2. /\ done \in Job /\ done.op \in OpsUpTo(B) /\ done.plan \in VersionsUpTo(B)
        /\ (done.unlink => done.op.old # None)
    BY <1>4 DEF Loose
  <2>3. q \in Job
    BY <2>1, <2>2 DEF Job
  <2>4. /\ q.op = done.op /\ q.recorded = done.recorded /\ q.plan = done.plan
        /\ q.unlink = done.unlink
    BY <2>2 DEF Job
  <2> HIDE DEF q
  <2> QED
    BY <1>4, <2>2, <2>3, <2>4 DEF Loose
<1> HIDE DEF q
<1>6. S \subseteq After(B, done) /\ \A n \in S : n.st \in {"record", "source", "load"}
  <2>1. At(q, "load") \subseteq After(B, q) /\ \A n \in At(q, "load") : n.st = "load"
    BY <1>5, JobAt, AtFields DEF Stages
  <2>2. After(B, q) = After(B, done)
    BY <1>4, <1>5 DEF After
  <2> QED
    BY <1>4, <2>1, <2>2, OnwardAfter
<1> HIDE DEF S
<1>7. S \subseteq JobsUpTo(B) /\ S \subseteq After(B, k) /\ \A n \in S : n.recorded
  BY <1>4, <1>6 DEF After
<1>8. Files' /\ Store' /\ Grows
  BY <1>1, <1>2, PutTypes DEF Store, Grows, content
<1>9. own' \in [Worker -> SUBSET Path]
  BY <1>1, <1>2, OwnTypes
<1>10. peer' = peer
  BY <1>3 DEF Go
<1>11. row \in [Path -> VersionsUpTo(B)] /\ oplog \in [Path -> SUBSET VersionsUpTo(B)]
  BY <1>2 DEF Index
<1>12. \A p \in Path : row'[p] \in {row[p], Joined(p, o.val, o.vv),
                                    Joined(p, Tombstone, o.vv)}
  BY <1>1, <1>11 DEF ApplyRemote
<1>13. \A p \in Path : oplog'[p] \subseteq
         oplog[p] \cup {[val |-> o.val, vv |-> o.vv],
                        [val |-> Tombstone, vv |-> o.vv]}
  BY <1>1, <1>11 DEF ApplyRemote
<1>14. row' = [p \in Path |-> row'[p]] /\ oplog' = [p \in Path |-> oplog'[p]]
  BY <1>1, <1>11 DEF ApplyRemote
<1>15. Index(B)'
  BY <1>2, <1>10, <1>12, <1>13, <1>14, RemoteTypes
<1>16. \A n \in S : Prepared(n)'
  BY <1>6 DEF Prepared
<1>17. ASSUME NEW p \in Path
       PROVE  row'[p] = row[p] \/ Known(row[p].val)'
  <2>1. Known(o.val)'
    BY <1>1, <1>2 DEF Prepared, Known, Stored, ManifestFor, content
  <2>2. /\ Joined(p, o.val, o.vv).val = o.val
        /\ Joined(p, Tombstone, o.vv).val = Tombstone
    BY DEF Joined
  <2>3. row'[p] = row[p] \/ row'[p].val = o.val \/ row'[p].val = Tombstone
    BY <1>12, <2>2
  <2> QED
    BY <2>1, <2>3 DEF Known
<1>18. CASE k.recorded
  <2>1. inbox' = inbox
    BY <1>1, <1>18
  <2> QED
    BY <1>3, <1>7, <1>8, <1>9, <1>15, <1>16, <1>17, <2>1, TaskKeeps
       DEF Task
<1>19. CASE ~ k.recorded
  <2>1. inbox' = Tail(inbox)
    BY <1>1, <1>19 DEF ApplyRemote
  <2> QED
    BY <1>3, <1>7, <1>8, <1>9, <1>15, <1>16, <1>17, <1>19, <2>1, RecordingKeeps
<1> QED
  BY <1>18, <1>19

\* Recording an op whose target is not applied only writes tombstones.
LEMMA RecordKeeps ==
  ASSUME NEW B \in VV, Safe(B), NEW j \in Worker, Record(j)
  PROVE  Safe(B)'
<1>1. PICK k \in job[j] :
        /\ k.st = "record"
        /\ ApplyRemote(k.op, FALSE)
        /\ Go(j, Onward([k EXCEPT !.recorded = TRUE]))
        /\ TouchedBy(j, {p \in Path : row'[p] # row[p]}, {})
        /\ KeepDisk
        /\ UNCHANGED <<content, count>>
  BY Zenon DEF Record
<1> DEFINE o == k.op
           done == [k EXCEPT !.recorded = TRUE]
           S == Onward(done)
<1>2. /\ k \in JobsUpTo(B) /\ k \in Loose(B) /\ k.op.path \in Path
      /\ k.op.val \in Content /\ o \in OpsUpTo(B)
      /\ Files /\ Store /\ Index(B) /\ own \in [Worker -> SUBSET Path]
  BY TaskFacts, JobFields DEF Task
<1>3. Go(j, S)
  BY <1>1
<1>4. done \in Loose(B) /\ done.op = k.op /\ done.recorded
  BY <1>2, JobExcept, ExceptFields
<1> HIDE DEF done
<1>5. S \subseteq After(B, done) /\ \A n \in S : n.st \in {"record", "source"}
  BY <1>4, OnwardAfter
<1> HIDE DEF S
<1>6. S \subseteq JobsUpTo(B) /\ \A n \in S : n.recorded
  BY <1>4, <1>5 DEF After
<1>7. Files' /\ Store' /\ Grows
  BY <1>1, <1>2, PutTypes DEF Store, Grows, content
<1>8. own' \in [Worker -> SUBSET Path]
  BY <1>1, <1>2, OwnTypes
<1>9. peer' = peer
  BY <1>3 DEF Go
<1>10. row \in [Path -> VersionsUpTo(B)] /\ oplog \in [Path -> SUBSET VersionsUpTo(B)]
  BY <1>2 DEF Index
<1>11. \A p \in Path : row'[p] \in {row[p], Joined(p, Tombstone, o.vv)}
  BY <1>1, <1>10 DEF ApplyRemote
<1>12. \A p \in Path : oplog'[p] \subseteq
         oplog[p] \cup {[val |-> o.val, vv |-> o.vv],
                        [val |-> Tombstone, vv |-> o.vv]}
  BY <1>1, <1>10 DEF ApplyRemote
<1>13. row' = [p \in Path |-> row'[p]] /\ oplog' = [p \in Path |-> oplog'[p]]
  BY <1>1, <1>10 DEF ApplyRemote
<1>14. Index(B)'
  BY <1>2, <1>9, <1>11, <1>12, <1>13, RemoteTypes
<1>15. \A n \in S : Prepared(n)'
  BY <1>5 DEF Prepared
<1>16. ASSUME NEW p \in Path
       PROVE  row'[p] = row[p] \/ Known(row[p].val)'
  <2>1. Joined(p, Tombstone, o.vv).val = Tombstone
    BY DEF Joined
  <2> QED
    BY <1>11, <2>1 DEF Known
<1>17. ~ k.recorded /\ inbox' = Tail(inbox)
  BY <1>1, <1>2 DEF ApplyRemote, JobsUpTo
<1> QED
  BY <1>3, <1>6, <1>7, <1>8, <1>14, <1>15, <1>16, <1>17, RecordingKeeps

-----------------------------------------------------------------------------
(* A task resolves a conflict *)

\* What a resolution may choose from is below the bound, and so is its plan.
LEMMA WinnerBounded ==
  ASSUME NEW B \in VV, Index(B), NEW k \in Loose(B),
         NEW A \in Antichains(Candidates(k)), A # {}
  PROVE  [val |-> Winner(A), vv |-> MergeAll({c.vv : c \in Candidates(k)})]
           \in VersionsUpTo(B)
<1> DEFINE C == Candidates(k)
           V == {c.vv : c \in C}
<1>1. /\ k.at \in Path /\ k.op.val \in Content /\ k.op.vv \in VV /\ Leq(k.op.vv, B)
  BY JobFields
<1>2. RemoteAt(k) \in VersionsUpTo(B)
  BY <1>1 DEF RemoteAt, VersionsUpTo, Version, Content
<1>3. C \subseteq VersionsUpTo(B) /\ C # {}
  BY <1>1, <1>2 DEF Candidates, Index
<1>4. A \subseteq Version
  BY <1>3 DEF Antichains, Maximal, VersionsUpTo
<1> HIDE DEF C
<1>5. V \subseteq VV /\ V # {} /\ \A v \in V : Leq(v, B)
  BY <1>3 DEF VersionsUpTo, Version
<1>6. MergeAll(V) \in VV /\ Leq(MergeAll(V), B)
  <2> HIDE DEF V
  <2> QED
    BY <1>5, MergeAllBounds
<1>7. Winner(A) \in Content
  BY <1>4, WinnerExists DEF Content
<1>8. [val |-> Winner(A), vv |-> MergeAll(V)] \in VersionsUpTo(B)
  <2> HIDE DEF V
  <2> QED
    BY <1>6, <1>7 DEF VersionsUpTo, Version, Content
<1> QED
  BY <1>8 DEF C

\* resolve_rows commits the plan that was staged, so a prepared one.
LEMMA CallKeeps ==
  ASSUME NEW B \in VV, Safe(B), NEW j \in Task, Call(j)
  PROVE  Safe(B)'
<1>1. PICK k \in job[j] :
        /\ k.st = "call"
        /\ IF k.calls = MaxCalls \/ Decide(row[k.at], k.op.vv) # "Concurrent"
           THEN Go(j, Abandon(k)) /\ UNCHANGED <<row, own>>
           ELSE \E A \in Antichains(Candidates(k)) \ {{}} :
                  LET w == [val |-> Winner(A),
                            vv  |-> MergeAll({c.vv : c \in Candidates(k)})]
                  IN  IF w = k.plan
                      THEN /\ row' = [row EXCEPT ![k.at] = w]
                           /\ Go(j, Onward(k))
                           /\ TouchedBy(j, {k.at}, {})
                      ELSE /\ Go(j, At([k EXCEPT !.plan = w, !.calls = @ + 1],
                                       "stage"))
                           /\ UNCHANGED <<row, own>>
        /\ UNCHANGED <<disk, oplog, content, sup, queue, pending, inbox, count>>
  BY Zenon DEF Call
<1>2. /\ k \in Loose(B) /\ k.at \in Path /\ Prepared(k)
      /\ Files /\ Store /\ Index(B) /\ own \in [Worker -> SUBSET Path]
  BY TaskFacts
<1>3. Files' /\ Store' /\ Grows
  BY <1>1, <1>2 DEF Files, Watched, Store, Grows, content
<1>4. CASE k.calls = MaxCalls \/ Decide(row[k.at], k.op.vv) # "Concurrent"
  <2>1. Go(j, Abandon(k)) /\ UNCHANGED <<row, own>>
    BY <1>1, <1>4
  <2>2. /\ Abandon(k) \subseteq After(B, k)
        /\ \A n \in Abandon(k) : n.st \in {"record", "source", "load"}
    BY <1>2, AbandonAfter
  <2>3. Index(B)' /\ own' \in [Worker -> SUBSET Path]
    BY <1>1, <1>2, <2>1 DEF Index, Go
  <2>4. \A n \in Abandon(k) : Prepared(n)'
    BY <2>2 DEF Prepared
  <2> QED
    BY <1>1, <1>3, <2>1, <2>2, <2>3, <2>4, TaskKeeps
<1>5. CASE ~ (k.calls = MaxCalls \/ Decide(row[k.at], k.op.vv) # "Concurrent")
  <2>1. PICK A \in Antichains(Candidates(k)) \ {{}} :
          LET w == [val |-> Winner(A),
                    vv  |-> MergeAll({c.vv : c \in Candidates(k)})]
          IN  IF w = k.plan
              THEN /\ row' = [row EXCEPT ![k.at] = w]
                   /\ Go(j, Onward(k))
                   /\ TouchedBy(j, {k.at}, {})
              ELSE /\ Go(j, At([k EXCEPT !.plan = w, !.calls = @ + 1], "stage"))
                   /\ UNCHANGED <<row, own>>
    BY <1>1, <1>5, Zenon
  <2> DEFINE w == [val |-> Winner(A),
                   vv  |-> MergeAll({c.vv : c \in Candidates(k)})]
  <2>2. w \in VersionsUpTo(B)
    BY <1>2, <2>1, WinnerBounded
  <2>3. \/ /\ w = k.plan /\ row' = [row EXCEPT ![k.at] = w]
           /\ Go(j, Onward(k)) /\ TouchedBy(j, {k.at}, {})
        \/ /\ Go(j, At([k EXCEPT !.plan = w, !.calls = @ + 1], "stage"))
           /\ UNCHANGED <<row, own>>
    BY <2>1, Zenon
  <2> HIDE DEF w
  <2>4. CASE /\ w = k.plan /\ row' = [row EXCEPT ![k.at] = w]
             /\ Go(j, Onward(k)) /\ TouchedBy(j, {k.at}, {})
    <3>1. /\ Onward(k) \subseteq After(B, k)
          /\ \A n \in Onward(k) : n.st \in {"record", "source"}
      BY <1>2, OnwardAfter
    <3>2. Index(B)'
      BY <1>1, <1>2, <2>2, <2>4 DEF Index, Go
    <3>3. own' \in [Worker -> SUBSET Path]
      BY <1>2, <2>4, OwnTypes
    <3>4. \A n \in Onward(k) : Prepared(n)'
      BY <3>1 DEF Prepared
    <3>5. ASSUME NEW p \in Path
          PROVE  row'[p] = row[p] \/ Known(row[p].val)'
      <4>1. Known(k.plan.val)'
        BY <1>1, <1>2 DEF Prepared, Known, Stored, ManifestFor, content
      <4>2. row'[p] = row[p] \/ row'[p] = k.plan
        BY <1>2, <2>4 DEF Index
      <4> QED
        BY <4>1, <4>2 DEF Known
    <3> QED
      BY <1>1, <1>3, <2>4, <3>1, <3>2, <3>3, <3>4, <3>5, TaskKeeps
  <2>5. CASE /\ Go(j, At([k EXCEPT !.plan = w, !.calls = @ + 1], "stage"))
             /\ UNCHANGED <<row, own>>
    <3> DEFINE q == [k EXCEPT !.plan = w, !.calls = @ + 1]
    <3>1. k \in Job /\ k.op \in OpsUpTo(B) /\ (k.unlink => k.op.old # None)
      BY <1>2 DEF Loose
    <3>2. k.calls \in 0 .. MaxCalls /\ k.calls # MaxCalls /\ MaxCalls \in Nat
      BY <1>2, <1>5, JobFields, ShareAssumption DEF ShareAssumption
    <3>3. k.calls + 1 \in 0 .. MaxCalls
      BY <3>2
    <3>4. w \in Version
      BY <2>2 DEF VersionsUpTo
    <3>5. q = [k EXCEPT !.plan = w, !.calls = k.calls + 1]
      BY <3>1 DEF Job
    <3>6. q \in Job
      BY <3>1, <3>3, <3>4, <3>5 DEF Job
    <3>7. /\ q.op = k.op /\ q.recorded = k.recorded /\ q.plan = w
          /\ q.unlink = k.unlink
      BY <3>1 DEF Job
    <3>8. Go(j, At(q, "stage"))
      BY <2>5
    <3> HIDE DEF q
    <3>9. q \in Loose(B)
      BY <2>2, <3>1, <3>6, <3>7 DEF Loose
    <3>10. At(q, "stage") \subseteq After(B, k)
      <4>1. At(q, "stage") \subseteq After(B, q)
        BY <3>9, JobAt DEF Stages
      <4> QED
        BY <3>7, <4>1 DEF After
    <3>11. \A n \in At(q, "stage") : n.st = "stage"
      BY <3>9, AtFields
    <3>12. \A n \in At(q, "stage") : Prepared(n)'
      BY <3>11 DEF Prepared
    <3>13. Index(B)' /\ own' \in [Worker -> SUBSET Path]
      BY <1>1, <1>2, <2>5 DEF Index, Go
    <3> QED
      BY <1>1, <1>3, <2>5, <3>8, <3>10, <3>12, <3>13, TaskKeeps
  <2> QED
    BY <2>3, <2>4, <2>5
<1> QED
  BY <1>4, <1>5

\* stage_planned_row stores the winner's manifest before it publishes.
LEMMA StageKeeps ==
  ASSUME NEW B \in VV, Safe(B), NEW j \in Task, Stage(j)
  PROVE  Safe(B)'
<1>1. PICK k \in job[j] :
        LET v == k.plan.val
        IN  /\ \/ /\ row[k.at].val = v
                  /\ Go(j, At(k, "call"))
                  /\ UNCHANGED content
               \/ /\ Go(j, At(k, "place"))
                  /\ PutManifest(v)
                  /\ (v # Tombstone /\ PutVerified(HashOf(v))) \/ UNCHANGED cas
                  /\ UNCHANGED strays
            /\ KeepDisk
            /\ UNCHANGED <<row, oplog, inbox, own, count>>
  BY Zenon DEF Stage
<1> DEFINE v == k.plan.val
<1>2. /\ k \in Loose(B) /\ k.at \in Path /\ v \in Content
      /\ Files /\ Store /\ Index(B) /\ own \in [Worker -> SUBSET Path]
  BY TaskFacts
<1>3. Files' /\ Index(B)' /\ own' \in [Worker -> SUBSET Path]
  BY <1>1, <1>2 DEF KeepDisk, Files, Watched, Index, Go
<1>4. CASE row[k.at].val = v /\ Go(j, At(k, "call")) /\ UNCHANGED content
  <2>1. Store' /\ Grows
    BY <1>2, <1>4 DEF Store, Grows, content
  <2>2. At(k, "call") \subseteq After(B, k)
        /\ \A n \in At(k, "call") : n.st = "call" /\ n.plan = k.plan
    BY <1>2, JobAt, AtFields DEF Stages
  <2>3. Known(v)
    BY <1>2, <1>4 DEF Safe, Backing
  <2>4. Known(v)'
    BY <1>4, <2>3 DEF Known, Stored, ManifestFor, content
  <2>5. \A n \in At(k, "call") : Prepared(n)'
    BY <2>2, <2>4 DEF Prepared
  <2> QED
    BY <1>1, <1>3, <1>4, <2>1, <2>2, <2>5, TaskKeeps
<1>5. CASE /\ Go(j, At(k, "place"))
           /\ PutManifest(v)
           /\ (v # Tombstone /\ PutVerified(HashOf(v))) \/ UNCHANGED cas
           /\ UNCHANGED strays
  <2>1. /\ manifests' \subseteq Hash /\ manifests \subseteq manifests'
        /\ v # Tombstone => ManifestFor(v)'
    BY <1>2, <1>5, StoreSteps
  <2>2. /\ cas' \in [Hash -> Chunks]
        /\ \A h \in Hash : cas[h] # "absent" => cas'[h] # "absent"
    BY <1>2, <1>5, StoreSteps DEF Store
  <2>3. Store' /\ Grows
    BY <1>2, <1>5, <2>1, <2>2 DEF Store, Grows
  <2>4. At(k, "place") \subseteq After(B, k)
        /\ \A n \in At(k, "place") : n.st = "place" /\ n.plan = k.plan
    BY <1>2, JobAt, AtFields DEF Stages
  <2>5. \A n \in At(k, "place") : Prepared(n)'
    BY <2>1, <2>4 DEF Prepared
  <2> QED
    BY <1>1, <1>3, <1>5, <2>3, <2>4, <2>5, TaskKeeps
<1> QED
  BY <1>1, <1>4, <1>5

\* ... and publishes nothing but what the chunk store gives back whole.
LEMMA PlaceKeeps ==
  ASSUME NEW B \in VV, Safe(B), NEW j \in Task, Place(j)
  PROVE  Safe(B)'
<1>1. PICK k \in job[j] :
        LET v == k.plan.val
        IN  /\ k.st = "place"
            /\ \/ /\ Intact(v)
                  /\ Put(k.at, v)
                  /\ Go(j, At([k EXCEPT !.staged = TRUE], "call"))
                  /\ TouchedBy(j, {k.at}, {k.at})
                  /\ UNCHANGED cas
               \/ /\ Drop(v)
                  /\ Go(j, Abandon([k EXCEPT !.failed = ~ Intact(v)]))
                  /\ KeepDisk /\ UNCHANGED own
            /\ UNCHANGED <<row, oplog, manifests, strays, inbox, count>>
  BY Zenon DEF Place
<1> DEFINE v == k.plan.val
           b == ~ Intact(v)
           f == [k EXCEPT !.failed = b]
           g == [k EXCEPT !.staged = TRUE]
<1>2. /\ k \in Loose(B) /\ k.at \in Path /\ v \in Content /\ Prepared(k)
      /\ Files /\ Store /\ Index(B) /\ own \in [Worker -> SUBSET Path]
  BY TaskFacts
<1>3. Files' /\ Index(B)'
  <2>1. Files'
    BY <1>1, <1>2, PutTypes
  <2> QED
    BY <1>1, <1>2, <2>1 DEF Index, Go
<1>4. CASE /\ Intact(v) /\ Go(j, At(g, "call"))
           /\ TouchedBy(j, {k.at}, {k.at}) /\ UNCHANGED cas
  <2>1. Store' /\ Grows
    BY <1>1, <1>2, <1>4 DEF Store, Grows
  <2>2. own' \in [Worker -> SUBSET Path]
    BY <1>2, <1>4, OwnTypes
  <2>3. g \in Loose(B) /\ g.op = k.op /\ g.recorded = k.recorded /\ g.plan = k.plan
    BY <1>2, JobExcept, ExceptFields
  <2> HIDE DEF g
  <2>4. At(g, "call") \subseteq After(B, g) /\ After(B, g) = After(B, k)
        /\ \A n \in At(g, "call") : n.st = "call" /\ n.plan = k.plan
    BY <2>3, JobAt, AtFields DEF Stages, After
  <2>5. Known(v)'
    BY <1>1, <1>2, <1>4 DEF Prepared, Intact, Known, Stored, ManifestFor
  <2>6. \A n \in At(g, "call") : Prepared(n)'
    BY <2>4, <2>5 DEF Prepared
  <2> QED
    BY <1>1, <1>3, <1>4, <2>1, <2>2, <2>4, <2>6, TaskKeeps
<1>5. CASE Drop(v) /\ Go(j, Abandon(f)) /\ UNCHANGED own
  <2>1. /\ cas' \in [Hash -> Chunks]
        /\ \A h \in Hash : cas[h] # "absent" => cas'[h] # "absent"
    BY <1>2, <1>5, StoreSteps
  <2>2. Store' /\ Grows /\ own' \in [Worker -> SUBSET Path]
    BY <1>1, <1>2, <1>5, <2>1 DEF Store, Grows
  <2>3. b \in BOOLEAN
    OBVIOUS
  <2> HIDE DEF b
  <2>4. f \in Loose(B) /\ f.op = k.op /\ f.recorded = k.recorded
    BY <1>2, <2>3, JobExcept, ExceptFields
  <2> HIDE DEF f
  <2>5. /\ Abandon(f) \subseteq After(B, f) /\ After(B, f) = After(B, k)
        /\ \A n \in Abandon(f) : n.st \in {"record", "source", "load"}
    BY <2>4, AbandonAfter DEF After
  <2>6. \A n \in Abandon(f) : Prepared(n)'
    BY <2>5 DEF Prepared
  <2> QED
    BY <1>1, <1>3, <1>5, <2>2, <2>5, <2>6, TaskKeeps
<1> QED
  BY <1>1, <1>4, <1>5

\* A winner that cannot be fetched is abandoned.
LEMMA StageFailsKeeps ==
  ASSUME NEW B \in VV, Safe(B), NEW j \in Task, StageFails(j)
  PROVE  Safe(B)'
<1>1. PICK k \in job[j], f \in BOOLEAN :
        /\ Go(j, Abandon([k EXCEPT !.failed = f]))
        /\ UNCHANGED <<disk, row, oplog, content, sup, queue, pending, inbox, own>>
  BY Zenon DEF StageFails
<1> DEFINE q == [k EXCEPT !.failed = f]
<1>2. /\ k \in Loose(B) /\ Files /\ Store /\ Index(B)
      /\ own \in [Worker -> SUBSET Path]
  BY TaskFacts
<1>3. q \in Loose(B) /\ q.op = k.op /\ q.recorded = k.recorded
  <2>1. /\ k \in Job /\ k.op \in OpsUpTo(B) /\ k.plan \in VersionsUpTo(B)
        /\ (k.unlink => k.op.old # None)
    BY <1>2 DEF Loose
  <2>2. q \in Job
    BY <2>1 DEF Job
  <2>3. /\ q.op = k.op /\ q.recorded = k.recorded /\ q.plan = k.plan
        /\ q.unlink = k.unlink
    BY <2>1 DEF Job
  <2> HIDE DEF q
  <2> QED
    BY <2>1, <2>2, <2>3 DEF Loose
<1>4. Go(j, Abandon(q))
  BY <1>1
<1> HIDE DEF q
<1>5. /\ Abandon(q) \subseteq After(B, k)
      /\ \A n \in Abandon(q) : n.st \in {"record", "source", "load"}
  BY <1>3, AbandonAfter DEF After
<1>6. Files' /\ Store' /\ Grows /\ Index(B)' /\ own' \in [Worker -> SUBSET Path]
  BY <1>1, <1>2, <1>4 DEF Files, Watched, Store, Grows, Index, Go, content
<1>7. \A n \in Abandon(q) : Prepared(n)'
  BY <1>5 DEF Prepared
<1> QED
  BY <1>1, <1>4, <1>5, <1>6, <1>7, TaskKeeps

-----------------------------------------------------------------------------
(* Faults *)

\* An aborted task leaves what was durable, and a call that stands where it stood.
LEMMA AbortKeeps ==
  ASSUME NEW B \in VV, Safe(B), NEW j \in Worker, Abort(j)
  PROVE  Safe(B)'
<1>1. PICK k \in job[j] :
        \/ job' = [job EXCEPT ![j] = {}]
        \/ job' = [job EXCEPT ![j] = {}, !["orphan"] = {k}]
  BY Zenon DEF Abort
<1>2. UNCHANGED <<disk, row, oplog, manifests, cas, strays, sup, queue, pending, ing,
                  scan, peer, inbox>>
      /\ own' = [own EXCEPT ![j] = {}]
  BY DEF Abort, content
<1>3. job \in [Task -> SUBSET JobsUpTo(B)] /\ j \in Task /\ j # "orphan"
  BY DEF Safe, Data, Task, Worker
<1>4. /\ job' \in [Task -> SUBSET JobsUpTo(B)]
      /\ \A i \in Worker : job'[i] \subseteq job[i]
      /\ \A i \in Task : \A n \in job'[i] : \E l \in Task : n \in job[l]
  BY <1>1, <1>3 DEF Task, Worker
<1>5. Files' /\ Store' /\ Index(B)' /\ own' \in [Worker -> SUBSET Path]
  BY <1>2 DEF Safe, Data, Files, Watched, Store, Index
<1>6. Data(B)'
  BY <1>2, <1>4, <1>5 DEF Safe, Data
<1>7. InHand'
  BY <1>2, <1>4 DEF Safe, InHand, Worker
<1>8. \A i \in Task : \A n \in job'[i] : Prepared(n)
  BY <1>4 DEF Safe, Backing
<1>9. \A i \in Task : \A n \in job'[i] : Prepared(n)'
  BY <1>2, <1>8 DEF Prepared, Known, Stored, ManifestFor
<1>10. Backing'
  BY <1>2, <1>9 DEF Safe, Backing, Known, Stored, ManifestFor
<1> QED
  BY <1>6, <1>7, <1>10 DEF Safe

\* Rotten chunks were there.
LEMMA RotKeeps ==
  ASSUME NEW B \in VV, Safe(B), NEW h \in Hash, Rot(h)
  PROVE  Safe(B)'
<1>1. Store /\ job \in [Task -> SUBSET JobsUpTo(B)]
  BY DEF Safe, Data
<1>2. Grows /\ Store'
  BY <1>1 DEF Rot, Grows, Store, Chunks
<1>3. Data(B)'
  BY <1>2 DEF Rot, Safe, Data, Files, Watched, Index
<1>4. InHand'
  BY DEF Rot, Safe, InHand
<1>5. job' = [job EXCEPT !["stream"] = job["stream"]]
  BY <1>1 DEF Rot, Task, Worker
<1>6. \A n \in job["stream"] : Prepared(n)'
  BY <1>1, <1>2, PreparedStays DEF Safe, Backing, Task, Worker
<1>7. row' = row /\ ing' = ing
  BY DEF Rot
<1>8. Backing'
  BY <1>2, <1>5, <1>6, <1>7, BackingFollows DEF Safe, Task, Worker
<1> QED
  BY <1>3, <1>4, <1>8 DEF Safe

\* What memory held was no support of the index.
LEMMA CrashKeeps ==
  ASSUME NEW B \in VV, Safe(B), Crash
  PROVE  Safe(B)'
<1>1. /\ queue' \in Seq(Event) /\ Len(queue') <= QueueCap
  <2>1. queue' = <<>> /\ QueueCap \in Nat /\ Len(<<>>) = 0
    BY ShareAssumption, EmptySeq DEF Crash, ShareAssumption
  <2> QED
    BY <2>1
<1>2. Files' /\ Store' /\ Index(B)'
  BY <1>1 DEF Crash, Safe, Data, Files, Watched, Store, Index, content
<1>3. Data(B)'
  BY <1>2 DEF Crash, Safe, Data
<1>4. InHand'
  BY DEF Crash, InHand, Task, Worker
<1>5. Backing'
  BY DEF Crash, Safe, Backing, Known, Stored, ManifestFor, content
<1> QED
  BY <1>3, <1>4, <1>5 DEF Safe

-----------------------------------------------------------------------------
(* The theorems *)

\* The share starts in step with the peer, with every file in the store.
LEMMA InitKeeps ==
  ASSUME Init
  PROVE  \E B \in VV : Safe(B)
<1> DEFINE B == Increment(Zero, Remote)
<1>1. Zero \in VV
  BY DEF Zero, VV
<1>2. B \in VV /\ Leq(B, B)
  BY <1>1, IncrementBounded, Nodes, LeqReflexive
<1>3. Base \in [Path -> Content]
  BY ShareAssumption DEF ShareAssumption, Content
<1> HIDE DEF B
<1>4. ASSUME NEW p \in Path
      PROVE  /\ BaseRow(p) \in VersionsUpTo(B)
             /\ BaseRow(p).val # Tombstone =>
                  Base[p] # Tombstone /\ BaseRow(p).val = Base[p]
  <2>1. CASE Base[p] = Tombstone
    BY <2>1, <1>2, NoRowBounded DEF BaseRow, NoRow
  <2>2. CASE Base[p] # Tombstone
    <3>1. BaseRow(p) = [val |-> Base[p], vv |-> B]
      BY <2>2 DEF BaseRow, B
    <3> QED
      BY <2>2, <3>1, <1>2, <1>3 DEF VersionsUpTo, Version, Content
  <2> QED
    BY <2>1, <2>2
<1>5. Index(B)
  <2>1. row \in [Path -> VersionsUpTo(B)]
    BY <1>4 DEF Init
  <2>2. oplog \in [Path -> SUBSET VersionsUpTo(B)]
    BY <1>4 DEF Init
  <2> QED
    BY <2>1, <2>2 DEF Index, Init
<1>6. Store
  <2>1. manifests \subseteq Hash
    BY <1>3, Keys DEF Init, Content
  <2>2. cas \in [Hash -> Chunks]
    BY DEF Init, Chunks
  <2> QED
    BY <2>1, <2>2 DEF Store, Init
<1>7. Files
  <2>1. queue \in Seq(Event) /\ Len(queue) <= QueueCap
    <3>1. queue = <<>> /\ QueueCap \in Nat /\ Len(<<>>) = 0
      BY ShareAssumption, EmptySeq DEF Init, ShareAssumption
    <3> QED
      BY <3>1
  <2>2. /\ disk \in [Path -> Content \cup {Dir}]
        /\ sup \in [Path -> SUBSET (Hash \cup {0})] /\ pending = {}
    BY <1>3 DEF Init
  <2> QED
    BY <2>1, <2>2 DEF Files, Watched
<1>8. /\ inbox \in Seq(OpsUpTo(B)) /\ ing = {} /\ scan = {}
      /\ job = [j \in Task |-> {}] /\ own = [j \in Worker |-> {}]
  BY DEF Init
<1>9. Data(B)
  BY <1>5, <1>6, <1>7, <1>8 DEF Data
<1>10. InHand
  BY <1>8 DEF InHand, Task, Worker
<1>11. ASSUME NEW p \in Path
       PROVE  Known(row[p].val)
  <2>1. row[p] = BaseRow(p)
    BY DEF Init
  <2>2. CASE row[p].val # Tombstone
    <3>1. Base[p] # Tombstone /\ row[p].val = Base[p]
      BY <2>1, <2>2, <1>4
    <3>2. Base[p] \in Value
      BY <3>1, <1>3, Keys
    <3>3. HashOf(Base[p]) \in manifests
      BY <3>1 DEF Init
    <3>4. cas[HashOf(Base[p])] = "good"
      BY <3>2, <3>3, Keys DEF Init
    <3> QED
      BY <3>1, <3>3, <3>4 DEF Known, Stored, ManifestFor
  <2> QED
    BY <2>2 DEF Known
<1>12. Backing
  BY <1>8, <1>11 DEF Backing
<1> QED
  BY <1>2, <1>9, <1>10, <1>12 DEF Safe

\* A step of the tasks that apply remote versions.
LEMMA TaskStepKeeps ==
  ASSUME NEW B \in VV, Safe(B), NEW j \in Task, TaskStep(j)
  PROVE  Safe(B)'
<1>1. CASE Move(j)
  BY <1>1, MoveKeeps
<1>2. CASE ObtainManifest(j)
  BY <1>2, ObtainManifestKeeps
<1>3. CASE FetchChunks(j)
  BY <1>3, FetchChunksKeeps
<1>4. CASE Blocked(j)
  BY <1>4, BlockedKeeps
<1>5. CASE Publish(j)
  BY <1>5, PublishKeeps
<1>6. CASE Spoilt(j)
  BY <1>6, SpoiltKeeps
<1>7. CASE Meta(j)
  BY <1>7, MetaKeeps
<1>8. CASE Unlink(j)
  BY <1>8, UnlinkKeeps
<1>9. CASE j \in Worker /\ Commit(j)
  BY <1>9, CommitKeeps
<1>10. CASE j \in Worker /\ Record(j)
  BY <1>10, RecordKeeps
<1>11. CASE Source(j)
  BY <1>11, SourceKeeps
<1>12. CASE Load(j)
  BY <1>12, LoadKeeps
<1>13. CASE Restore(j)
  BY <1>13, RestoreKeeps
<1>14. CASE Call(j)
  BY <1>14, CallKeeps
<1>15. CASE Stage(j)
  BY <1>15, StageKeeps
<1>16. CASE Arm(j)
  BY <1>16, ArmKeeps
<1>17. CASE Place(j)
  BY <1>17, PlaceKeeps
<1>18. CASE CallStep(j)
  BY <1>1, <1>4, <1>5, <1>6, <1>7, <1>8, <1>13, <1>16, <1>17, <1>18, Zenon
     DEF CallStep
<1>19. CASE j \in Worker /\ WorkStep(j)
  BY <1>2, <1>3, <1>9, <1>10, <1>11, <1>12, <1>14, <1>15, <1>19, Zenon DEF WorkStep
<1> QED
  BY <1>18, <1>19 DEF TaskStep

\* A crash, a rotten chunk, a failed fetch or a lost connection.
LEMMA FaultKeeps ==
  ASSUME NEW B \in VV, Safe(B), Fault
  PROVE  Safe(B)'
<1>1. CASE Crash
  BY <1>1, CrashKeeps
<1>2. ASSUME NEW h \in Hash, Rot(h)
      PROVE  Safe(B)'
  BY <1>2, RotKeeps
<1>3. ASSUME NEW j \in Worker, FetchFails(j) \/ StageFails(j) \/ Abort(j)
      PROVE  Safe(B)'
  <2>1. j \in Task
    BY DEF Task
  <2> QED
    BY <1>3, <2>1, FetchFailsKeeps, StageFailsKeeps, AbortKeeps
<1> QED
  BY <1>1, <1>2, <1>3, Zenon DEF Fault

\* Every step keeps the invariant under the bound or under one raised by it.
LEMMA NextKeeps ==
  ASSUME NEW B \in VV, Safe(B), [Next]_vars
  PROVE  \E C \in VV : Safe(C)'
<1>1. Increment(B, Local) \in VV /\ Increment(B, Remote) \in VV
  BY IncrementBounded, Nodes
<1>2. CASE UserStep
  BY <1>2, UserStepKeeps
<1>3. CASE PeerStep
  BY <1>1, <1>3, PeerStepKeeps
<1>4. CASE Fault
  BY <1>4, FaultKeeps
<1>5. CASE TakeDelete
  BY <1>5, TakeDeleteKeeps
<1>6. CASE TakeRename
  BY <1>1, <1>6, TakeRenameKeeps
<1>7. CASE Ingest
  BY <1>1, <1>7, IngestKeeps
<1>8. CASE ScanPass
  BY <1>8, ScanPassKeeps
<1>9. ASSUME NEW p \in Path, FlushRipe(p) \/ Sweep(p) \/ ReadLeaf(p)
      PROVE  Safe(B)'
  BY <1>9, FlushRipeKeeps, SweepKeeps, ReadLeafKeeps
<1>10. CASE Receive
  BY <1>10, ReceiveKeeps
<1>11. ASSUME NEW j \in Task, TaskStep(j)
       PROVE  Safe(B)'
  BY <1>11, TaskStepKeeps
<1>12. CASE UNCHANGED vars
  <2>1. Data(B)'
    BY <1>12 DEF vars, Safe, Data, Files, Watched, Store, Index
  <2>2. InHand' /\ Backing'
    BY <1>12, Quiet DEF vars, Safe
  <2> QED
    BY <2>1, <2>2 DEF Safe
<1> QED
  BY <1>2, <1>3, <1>4, <1>5, <1>6, <1>7, <1>8, <1>9, <1>10, <1>11, <1>12, Zenon
     DEF Next, Take

\* The inductive invariant holds in every reachable state, whatever users,
\* peers, watcher, scanner, tasks and faults do in whatever order.
THEOREM Invariance == Spec => []IInv
<1>1. Init => IInv
  BY InitKeeps DEF IInv, Safe
<1>2. IInv /\ [Next]_vars => IInv'
  <2> SUFFICES ASSUME IInv, [Next]_vars PROVE IInv'
    OBVIOUS
  <2>1. PICK B \in VV : Safe(B)
    BY DEF IInv, Safe
  <2>2. PICK C \in VV : Safe(C)'
    BY <2>1, NextKeeps
  <2> QED
    BY <2>2 DEF IInv, Safe
<1> QED
  BY <1>1, <1>2, PTL DEF Spec

\* Only tasks register: a step of a task leaves it unarmed or arms it, and what an
\* aborted task had registered is its orphan's.
LEMMA ArmedAreTasks == Spec => [](armed \subseteq Task)
<1>1. Init => armed \subseteq Task
  BY DEF Init
<1>2. armed \subseteq Task /\ [Next]_vars => (armed \subseteq Task)'
  <2> SUFFICES ASSUME armed \subseteq Task, [Next]_vars PROVE (armed \subseteq Task)'
    OBVIOUS
  <2>1. ASSUME NEW j, NEW S, Go(j, S)
        PROVE  armed' \subseteq Task
    BY <2>1 DEF Go
  <2>2. CASE UserStep
    BY <2>2 DEF UserStep, UserWrite, UserDelete, UserRename, UserMkdir, UserChange
  <2>3. CASE PeerStep
    BY <2>3 DEF PeerStep, PeerWrite, PeerRename, PeerChange
  <2>4. ASSUME NEW j \in Worker, FetchFails(j) \/ StageFails(j)
        PROVE  armed' \subseteq Task
    <3>1. CASE FetchFails(j)
      BY <2>1, <3>1, Zenon DEF FetchFails
    <3>2. CASE StageFails(j)
      <4>1. PICK k \in job[j], f \in BOOLEAN : Go(j, Abandon([k EXCEPT !.failed = f]))
        BY <3>2 DEF StageFails
      <4> QED
        BY <2>1, <4>1
    <3> QED
      BY <2>4, <3>1, <3>2
  <2>5. ASSUME NEW j \in Worker, Abort(j)
        PROVE  armed' \subseteq Task
    <3>1. \/ UNCHANGED armed
          \/ armed' = {IF i = j THEN "orphan" ELSE i : i \in armed}
      BY <2>5, Zenon DEF Abort
    <3> QED
      BY <3>1 DEF Task
  <2>6. CASE Fault
    BY <2>4, <2>5, <2>6 DEF Fault, Crash, Rot
  <2>7. CASE Take \/ Ingest
    BY <2>7 DEF Take, TakeDelete, TakeRename, Ingest
  <2>8. CASE ScanPass
    BY <2>8 DEF ScanPass, Walk, LiveFiles, SendDelete, ScanStep
  <2>9. ASSUME NEW p \in Path, FlushRipe(p) \/ Sweep(p) \/ ReadLeaf(p)
        PROVE  armed' \subseteq Task
    BY <2>1, <2>9 DEF FlushRipe, Sweep, ReadLeaf
  <2>10. CASE Receive
    BY <2>1, <2>10, Zenon DEF Receive
  <2>11. ASSUME NEW j \in Task, CallStep(j)
         PROVE  armed' \subseteq Task
    <3>1. CASE Arm(j)
      BY <3>1 DEF Arm
    <3>2. CASE ~ Arm(j)
      BY <2>1, <2>11, <3>2, Zenon DEF CallStep, Move, Blocked, Publish, Spoilt,
         Meta, Unlink, Restore, Place
    <3> QED
      BY <3>1, <3>2
  <2>12. ASSUME NEW j \in Worker, WorkStep(j)
         PROVE  armed' \subseteq Task
    <3>1. CASE Call(j)
      BY <2>1, <3>1, Zenon DEF Call
    <3>2. CASE Stage(j)
      BY <2>1, <3>2, Zenon DEF Stage
    <3>3. CASE ~ Call(j) /\ ~ Stage(j)
      BY <2>1, <2>12, <3>3, Zenon DEF WorkStep, ObtainManifest, FetchChunks, Commit,
         Record, Source, Load
    <3> QED
      BY <3>1, <3>2, <3>3
  <2>13. CASE UNCHANGED vars
    BY <2>13 DEF vars
  <2> QED
    BY <2>2, <2>3, <2>6, <2>7, <2>8, <2>9, <2>10, <2>11, <2>12, <2>13, Zenon
       DEF Next, TaskStep
<1> QED
  BY <1>1, <1>2, PTL DEF Spec

\* Every variable keeps its type and the bounded event channel into ingest its
\* capacity, however many events the watcher and the scanner have to send.
THEOREM TypeCorrect == Spec => []TypeOK
<1>1. IInv /\ armed \subseteq Task => TypeOK
  <2> SUFFICES ASSUME NEW B \in VV, Data(B), armed \subseteq Task PROVE TypeOK
    BY DEF IInv
  <2>1. Seq(OpsUpTo(B)) \subseteq Seq(Op)
    BY DEF OpsUpTo
  <2>2. /\ row \in [Path -> Version] /\ peer \in [Path -> Version]
        /\ \A p \in Path : oplog[p] \subseteq Version
    BY DEF Data, Index, VersionsUpTo
  <2>3. /\ \A j \in Task : job[j] \subseteq Job
        /\ \A j \in Worker : own[j] \subseteq Path
    BY DEF Data, JobsUpTo
  <2>4. /\ \A o \in ing : o.path \in Path /\ o.val \in Value \cup {Tombstone}
        /\ \A s \in scan : s.seen \subseteq Path /\ s.todo \subseteq Path \cup {None}
    BY DEF Data, Observation, Pass, Content
  <2>5. disk \in [Path -> Value \cup {Tombstone, Dir}]
    BY DEF Data, Files, Content
  <2>6. \A p \in Path : sup[p] \in SUBSET (Hash \cup {0})
    BY DEF Data, Files
  <2>7. /\ manifests \subseteq Hash /\ cas \in [Hash -> Chunks] /\ strays \subseteq Hash
        /\ queue \in Seq(Event) /\ Len(queue) <= QueueCap /\ pending \subseteq Path
        /\ inbox \in Seq(Op)
    BY <2>1 DEF Data, Files, Watched, Store
  <2> QED
    BY <2>2, <2>3, <2>4, <2>5, <2>6, <2>7 DEF TypeOK
<1> QED
  BY <1>1, Invariance, ArmedAreTasks, PTL

\* The manifest and the chunks of a live row were stored before the row was
\* committed, across aborts, crashes, failed fetches, stale commits and
\* resolutions; only what apply_rename moved may be missing.
THEOREM RowsBacked == Spec => []StoreBacksRows
<1>1. IInv => StoreBacksRows
  BY DEF IInv, Backing, Known, StoreBacksRows
<1> QED
  BY <1>1, Invariance, PTL

=============================================================================
