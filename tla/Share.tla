-------------------------------- MODULE Share --------------------------------
(***************************************************************************)
(* The share directory of one node and the tasks that keep it and the      *)
(* index in step: the watcher and the periodic scanner observe the disk,   *)
(* ingest turns observations into local ops, the op stream and the         *)
(* reconcile session publish remote versions on disk and commit them, and  *)
(* the suppressor tells the daemon's own changes from the users'           *)
(* (src/ingest.rs, src/suppress.rs, src/scanner.rs, src/watch.rs,          *)
(* src/apply.rs, src/metadata.rs, and the disk side of src/net.rs,         *)
(* src/merkle.rs and src/oplog.rs).                                        *)
(*                                                                         *)
(* A value is a whole file: content and metadata.  HashOf is its content   *)
(* hash, Xattr its extended attributes; the other metadata is applied      *)
(* verbatim and folded into the value.  One peer stands for the mesh.      *)
(* Conflict copies live under names of their own and are Replication's     *)
(* concern: a resolution here ends in the contested path's winner.         *)
(***************************************************************************)
EXTENDS Conflict, Sequences, FiniteSets

CONSTANTS Local, Remote, \* the node and the peer
          HashOf(_),     \* the content hash of a value
          Xattr(_),      \* the extended attributes of a value
          UserVal,       \* the files local users leave behind
          PeerVal,       \* the files the peer's users leave behind
          Base,          \* Base[p]: the file at p that node and peer agree on
          Strips,        \* whether the peer's users remove attributes
          None,
          QueueCap,      \* capacity of the event channel
          MaxCalls,      \* calls of resolve_rows that one resolution makes
          Budget,        \* bound: changes by users and by peers, leaves that
                         \* sessions handle, faults
          MaxTotal       \* bound: all of these together

ASSUME ShareAssumption ==
  /\ Id = {Local, Remote} \cup Path
  /\ Local # Remote /\ {Local, Remote} \cap Path = {}
  /\ UserVal \subseteq Value /\ PeerVal \subseteq Value
  /\ Base \in [Path -> Value \cup {Tombstone}]
  /\ Strips \in BOOLEAN
  /\ None \notin Path
  /\ QueueCap \in Nat \ {0} /\ MaxCalls \in Nat \ {0}
  /\ Budget \in [{"user", "peer", "leaf", "fault"} -> Nat] /\ MaxTotal \in Nat
  /\ \A v, w \in Value :
       /\ HashOf(v) \in Nat \ {0}
       /\ HashOf(v) = HashOf(w) /\ Xattr(v) = Xattr(w) => v = w
       /\ \E u \in Value : /\ HashOf(u) = HashOf(v)
                          /\ Xattr(u) = Xattr(v) \cup Xattr(w)

VARIABLES
  disk,      \* disk[p]: the file at p, Tombstone when there is none, or Dir
  row,       \* row[p]: the row of p in the index
  oplog,     \* oplog[p]: the versions that recorded ops gave p
  manifests, \* content hashes whose manifest is in the database
  cas,       \* cas[h]: the chunks of content h in the chunk store
  sup,       \* sup[p]: the suppression entry of p
  queue,     \* the event channel into ingest
  pending,   \* paths waiting out the quiescence window
  ing,       \* the observation ingest is handling, if any
  scan,      \* the scan pass
  peer,      \* peer[p]: the peer's row of p
  inbox,     \* the peer's ops this node has not handled, in order
  job,       \* job[j]: the remote version that task j is applying, if any
  armed,     \* tasks whose call has registered what it is about to change
  own,       \* history: own[j], paths that j changed on disk and whose file and
             \* row nobody else changed since
  strays,    \* history: content hashes that a move brought under a row without
             \* the chunk store having them
  count      \* changes by users and peers, leaves, and faults so far

vars == <<disk, row, oplog, manifests, cas, sup, queue, pending, ing, scan, peer,
          inbox, job, armed, own, strays, count>>

content == <<manifests, cas, strays>>

-----------------------------------------------------------------------------
(* State *)

Worker == {"stream", "session"}

\* A call on a blocking thread outlives the task that made it.  Bound: there is
\* one such orphan at a time.
Task == Worker \cup {"orphan"}

Dir == MaxKey + 1

\* What a suppression entry holds: a content hash, or 0 for a delete.
KeyOf(v) == IF v = Tombstone THEN 0 ELSE HashOf(v)

Hash == {HashOf(v) : v \in Value}

\* Dropped chunks were found rotten and unlinked: absent, but not from the start.
Chunks == {"absent", "good", "rotten", "dropped"}

\* A Delete has to = None.  A Write event only (re)arms its path's timer in
\* pending, so it is shown as armed at once.
Event == [path : Path, to : Path \cup {None}]

\* A Write or Delete has old = None; a rename moves old to path.
Op == [path : Path, old : Path \cup {None}, val : Value \cup {Tombstone},
       vv : VV]

(***************************************************************************)
(* Where a task stands with a remote version:                              *)
(*   fetch    decided Apply, moving the file or obtaining its manifest     *)
(*   chunks   obtaining the chunks                                         *)
(*   publish  about to change the disk                                     *)
(*   meta     as publish, the content being in place already               *)
(*   unlink   about to unlink a rename's source                            *)
(*   commit   about to commit with the re-check                            *)
(*   record   about to record an op that changes no row at its target      *)
(*   load     about to read the committed row of path at, to restore it    *)
(*   restore  about to put the row that was read back on disk              *)
(*   call     about to call resolve_rows for path at                       *)
(*   stage    about to obtain the content of the plan's winner             *)
(*   place    about to publish it                                          *)
(*   source   about to look at a rename's source                           *)
(***************************************************************************)
Job == [st : {"fetch", "chunks", "publish", "meta", "unlink", "commit", "record",
              "load", "restore", "call", "stage", "place", "source"},
        op : Op, at : Path,
        plan : Version,          \* the staged plan, or the row to restore
        calls : 0 .. MaxCalls,
        staged : BOOLEAN,        \* this resolution has changed the disk
        unlink : BOOLEAN,        \* old_dominated
        resolve : BOOLEAN,       \* a resolution follows the restore
        recorded : BOOLEAN,      \* the op needs no record (any more)
        quarantined : BOOLEAN,
        failed : BOOLEAN]        \* a transient error ends the task

\* The share is in step with the peer.
BaseRow(p) == IF Base[p] = Tombstone THEN NoRow
              ELSE [val |-> Base[p], vv |-> Increment(Zero, Remote)]

Init ==
  /\ disk = Base
  /\ row = [p \in Path |-> BaseRow(p)]
  /\ peer = row
  /\ oplog = [p \in Path |-> {BaseRow(p)} \ {NoRow}]
  /\ manifests = {HashOf(Base[p]) : p \in {p \in Path : Base[p] # Tombstone}}
  /\ cas = [h \in Hash |-> IF h \in manifests THEN "good" ELSE "absent"]
  /\ sup = [p \in Path |-> {}]
  /\ queue = <<>>
  /\ pending = {}
  /\ ing = {}
  /\ scan = {}
  /\ inbox = <<>>
  /\ job = [j \in Task |-> {}]
  /\ armed = {}
  /\ own = [j \in Worker |-> {}]
  /\ strays = {}
  /\ count = [c \in {"user", "peer", "leaf", "fault"} |-> 0]

-----------------------------------------------------------------------------
(* Helpers *)

Mark(c) ==
  /\ count[c] < Budget[c]
  /\ count["user"] + count["peer"] + count["leaf"] + count["fault"] < MaxTotal
  /\ count' = [count EXCEPT ![c] = @ + 1]

\* Someone other than the tasks touches the paths P.
Touched(P) == own' = [i \in Worker |-> own[i] \ P]

\* Task j touches the paths P; it publishes the paths N.
TouchedBy(j, P, N) ==
  own' = [i \in Worker |-> IF i = j THEN own[i] \cup N ELSE own[i] \ P]

\* The paths P are not task j's work any more.
Disowns(j, P) == own' = [i \in Worker |-> IF i = j THEN own[i] \ P ELSE own[i]]

(***************************************************************************)
(* watch.rs: a change of the disk is reported in one event (FAN_RENAME),   *)
(* as a disappearance and an appearance (older kernels), or not at all     *)
(* (queue overflow, a stale handle, the legacy watch): the scanner then    *)
(* finds it.  The daemon's own renames of staging temps are reported as    *)
(* writes of their target.                                                 *)
(***************************************************************************)
Gone(p) == [path |-> p, to |-> None]

Moved(p, q) == [path |-> p, to |-> q]

\* Mutant: the channel is unbounded.
BugSent(e) == queue' = Append(queue, e)

Sent(e) == Len(queue) < QueueCap /\ queue' = Append(queue, e)

SeeWrite(p) == /\ pending' \in {pending, pending \cup {p}}
               /\ UNCHANGED queue

SeeDelete(p) == /\ Sent(Gone(p)) \/ UNCHANGED queue
                /\ UNCHANGED pending

SeeRename(p, q) == \/ Sent(Moved(p, q)) /\ UNCHANGED pending
                   \/ /\ pending' \in {pending, pending \cup {q}}
                      /\ Sent(Gone(p)) \/ UNCHANGED queue

-----------------------------------------------------------------------------
(* Chunk store *)

\* Cas::has: a file that is there is taken for the chunk it is named after.
Has(h) == cas[h] \in {"good", "rotten"}

\* put_verified: what is there already stays as it is.
PutVerified(h) == cas' = IF Has(h) THEN cas ELSE [cas EXCEPT ![h] = "good"]

\* chunk_file_into_cas.
ChunkFileIntoCas(v) == PutVerified(HashOf(v))

\* put_manifest and manifest_for.
PutManifest(v) == manifests' = manifests \cup ({KeyOf(v)} \ {0})

ManifestFor(v) == HashOf(v) \in manifests

\* What serving v to another node takes, bit rot aside: its manifest is in the
\* database and its chunks have been put into the store.
Stored(v) == ManifestFor(v) /\ cas[HashOf(v)] # "absent"

\* Assembly reads every chunk back and verifies it.
Intact(v) == v # Tombstone => cas[HashOf(v)] = "good"

\* Mutant: a rotten chunk is left where it is.
BugDrop(v) == UNCHANGED cas

\* Cas::read unlinks a chunk that does not verify.
Drop(v) == cas' = IF v # Tombstone /\ cas[HashOf(v)] = "rotten"
                  THEN [cas EXCEPT ![HashOf(v)] = "dropped"] ELSE cas

-----------------------------------------------------------------------------
(* Local users *)

UserChange(d, P) ==
  /\ Mark("user")
  /\ disk' = d
  /\ Touched(P)
  /\ UNCHANGED <<row, oplog, content, sup, ing, scan, peer, inbox, job, armed>>

UserWrite(p, v) ==
  /\ disk[p] \notin {v, Dir}
  /\ UserChange([disk EXCEPT ![p] = v], {p})
  /\ SeeWrite(p)

UserDelete(p) ==
  /\ disk[p] # Tombstone
  /\ UserChange([disk EXCEPT ![p] = Tombstone], {p})
  /\ IF disk[p] = Dir THEN UNCHANGED <<queue, pending>> ELSE SeeDelete(p)

UserRename(p, q) ==
  /\ p # q
  /\ disk[p] \in Value
  /\ disk[q] # Dir
  /\ UserChange([disk EXCEPT ![p] = Tombstone, ![q] = disk[p]], {p, q})
  /\ SeeRename(p, q)

\* A directory takes the file's place; directories are not replicated.
UserMkdir(p) ==
  /\ disk[p] \in Value
  /\ UserChange([disk EXCEPT ![p] = Dir], {p})
  /\ SeeDelete(p)

-----------------------------------------------------------------------------
(* Suppression and ingest *)

\* check_write and check_delete consume the entry they match.
Suppressed(p, v) == sup[p] = {KeyOf(v)}

\* Mutant: an entry matches again and again.
BugConsume(p) == UNCHANGED sup

Consume(p) == sup' = [sup EXCEPT ![p] = {}]

\* append_local: the op, the row and the manifest in one transaction.
AppendLocal(p, v) ==
  LET new == [val |-> v, vv |-> Increment(row[p].vv, Local)]
  IN  IF row[p].val = v THEN UNCHANGED <<row, oplog, manifests, own>>
      ELSE /\ row' = [row EXCEPT ![p] = new]
           /\ oplog' = [oplog EXCEPT ![p] = @ \cup {new}]
           /\ PutManifest(v)
           /\ Touched({p})

\* append_local_rename: the row moves, whatever the disk holds by now.
AppendLocalRename(p, q) ==
  LET vv == Increment(Merge(row[p].vv, row[q].vv), Local)
      gone == [val |-> Tombstone, vv |-> vv]
      here == [val |-> row[p].val, vv |-> vv]
  IN  IF row[p].val = Tombstone \/ p = q THEN UNCHANGED <<row, oplog, own>>
      ELSE /\ row' = [row EXCEPT ![p] = gone, ![q] = here]
           /\ oplog' = [oplog EXCEPT ![p] = @ \cup {gone}, ![q] = @ \cup {here}]
           /\ Touched({p, q})

\* handle_delete up to its last look at the path.
TakeDelete ==
  LET p == Head(queue).path
  IN  /\ ing = {}
      /\ queue # <<>> /\ Head(queue).to = None
      /\ queue' = Tail(queue)
      /\ ing' = IF disk[p] # Tombstone THEN {}
                ELSE {[path |-> p, val |-> Tombstone]}
      /\ UNCHANGED <<disk, row, oplog, content, sup, pending, scan, peer,
                     inbox, job, armed, own, count>>

\* handle_rename.
TakeRename ==
  LET e == Head(queue)
  IN  /\ ing = {}
      /\ queue # <<>> /\ e.to # None
      /\ queue' = Tail(queue)
      /\ pending' = pending \ {e.path}
      /\ IF Suppressed(e.path, Tombstone)
         THEN Consume(e.path) /\ UNCHANGED <<row, oplog, own>>
         ELSE AppendLocalRename(e.path, e.to) /\ UNCHANGED sup
      /\ UNCHANGED <<disk, content, ing, scan, peer, inbox, job, armed, count>>

\* flush_ripe: handle_write reads the file and chunks it into the store.  A
\* file that has vanished is the scanner's, a directory is not replicated.
FlushRipe(p) ==
  /\ ing = {}
  /\ p \in pending
  /\ pending' = pending \ {p}
  /\ IF disk[p] \in Value
     THEN ing' = {[path |-> p, val |-> disk[p]]} /\ ChunkFileIntoCas(disk[p])
     ELSE UNCHANGED <<ing, cas>>
  /\ UNCHANGED <<disk, row, oplog, manifests, strays, sup, queue, scan, peer,
                 inbox, job, armed, own, count>>

\* The end of handle_write and of handle_delete: suppression, then the no-op
\* filter and the append.
Ingest ==
  \E o \in ing :
    /\ ing' = {}
    /\ pending' = IF o.val = Tombstone THEN pending \ {o.path} ELSE pending
    /\ IF Suppressed(o.path, o.val)
       THEN Consume(o.path) /\ UNCHANGED <<row, oplog, manifests, own>>
       ELSE AppendLocal(o.path, o.val) /\ UNCHANGED sup
    /\ UNCHANGED <<disk, cas, strays, queue, scan, peer, inbox, job, armed, count>>

\* sweep: an entry outlives its TTL, whatever its task is doing.  Ingest's own
\* tick drops it.
Sweep(p) ==
  /\ ing = {}
  /\ sup[p] # {}
  /\ Consume(p)
  /\ UNCHANGED <<disk, row, oplog, content, queue, pending, ing, scan, peer,
                 inbox, job, armed, own, count>>

-----------------------------------------------------------------------------
(* Scanner: scan_once *)

ScanStep(s) ==
  /\ scan' = s
  /\ UNCHANGED <<disk, row, oplog, content, sup, ing, peer, inbox, job, armed,
                 own, count>>

\* walk, and the disk-to-index direction: every file goes to ingest.
Walk ==
  LET files == {p \in Path : disk[p] \in Value}
  IN  /\ scan = {}
      /\ ScanStep({[seen |-> files, todo |-> {None}]})
      /\ pending' = pending \cup files
      /\ UNCHANGED queue

Deleting(D) == IF D = {} THEN {} ELSE {[seen |-> {}, todo |-> D]}

\* Index to disk: the live rows, queried after the walk, that it did not see.
LiveFiles ==
  \E s \in scan :
    /\ s.todo = {None}
    /\ ScanStep(Deleting({p \in Path : row[p].val # Tombstone} \ s.seen))
    /\ UNCHANGED <<queue, pending>>

SendDelete(p) ==
  \E s \in scan :
    /\ p \in s.todo \cap Path
    /\ ScanStep(Deleting(s.todo \ {p}))
    /\ Sent(Gone(p))
    /\ UNCHANGED pending

-----------------------------------------------------------------------------
(* The peer *)

\* What the peer writes on top of: its own row, or ours once it has pulled it.
Bases(p) == {peer[p]} \cup {r \in {row[p]} : Leq(peer[p].vv, r.vv)}

StripsXattr(v, w) == /\ v # Tombstone /\ w # Tombstone
                     /\ HashOf(v) = HashOf(w) /\ ~ Xattr(v) \subseteq Xattr(w)

PeerChange(o, rows) ==
  /\ Mark("peer")
  /\ peer' = rows
  /\ inbox' = Append(inbox, o)
  /\ UNCHANGED <<disk, row, oplog, content, sup, queue, pending, ing, scan,
                 job, armed, own>>

PeerWrite(p, v) ==
  \E r \in Bases(p) :
    LET vv == Increment(r.vv, Remote)
    IN  /\ r.val # v
        /\ Strips \/ ~ StripsXattr(r.val, v)
        /\ PeerChange([path |-> p, old |-> None, val |-> v, vv |-> vv],
                      [peer EXCEPT ![p] = [val |-> v, vv |-> vv]])

PeerRename(p, q) ==
  \E r \in Bases(p), s \in Bases(q) :
    LET vv == Increment(Merge(r.vv, s.vv), Remote)
    IN  /\ p # q /\ r.val # Tombstone
        /\ PeerChange([path |-> q, old |-> p, val |-> r.val, vv |-> vv],
                      [peer EXCEPT ![p] = [val |-> Tombstone, vv |-> vv],
                                   ![q] = [val |-> r.val, vv |-> vv]])

-----------------------------------------------------------------------------
(* Applying a remote version *)

\* apply_meta on a file that holds v: attributes are set, none is removed.
MetaOver(v, w) == CHOOSE u \in Value : /\ HashOf(u) = HashOf(v)
                                       /\ Xattr(u) = Xattr(v) \cup Xattr(w)

\* The file is assembled from its chunks and renamed into place
\* (apply_assembled), or the path is unlinked (apply_delete).
Put(p, v) ==
  /\ disk' = [disk EXCEPT ![p] = v]
  /\ IF v # Tombstone THEN SeeWrite(p)
     ELSE IF disk[p] # Tombstone THEN SeeDelete(p)
     ELSE UNCHANGED <<queue, pending>>
  /\ UNCHANGED sup

KeepDisk == UNCHANGED <<disk, sup, queue, pending>>

Squatted(p) == disk[p] = Dir

Dominated(p, vv) == Decide(row[p], vv) = "Apply"

SameContent(v, w) == v \in Value /\ w \in Value /\ HashOf(v) = HashOf(w)

\* Task j moves on to the jobs S (none when it is finished); an orphan has
\* nobody to report to.
Go(j, S) ==
  /\ job' = [job EXCEPT ![j] = IF j = "orphan" THEN {} ELSE S]
  /\ armed' = armed \ {j}
  /\ UNCHANGED <<ing, scan, peer>>

At(k, st) == {[k EXCEPT !.st = st]}

\* Where a task goes when the work at path k.at is over.
Onward(k) ==
  IF k.failed THEN {}
  ELSE IF ~ k.recorded THEN At(k, "record")
  ELSE IF k.op.old # None /\ k.at = k.op.path /\ ~ k.quarantined
       THEN At(k, "source")
  ELSE {}

\* A permanent failure: the op plane quarantines, a session skips the leaf.
Unmaterializable(k) ==
  IF k.recorded THEN {} ELSE At([k EXCEPT !.quarantined = TRUE], "record")

Start(o, st, logged) ==
  {[st |-> st, op |-> o, at |-> o.path, plan |-> NoRow, calls |-> 0,
    staged |-> FALSE, unlink |-> o.old # None /\ Dominated(o.old, o.vv),
    resolve |-> FALSE, recorded |-> logged, quarantined |-> FALSE,
    failed |-> FALSE]}

\* process_remote_op and materialize up to the first thing they wait for.
Receive ==
  LET o == Head(inbox)
      d == Decide(row[o.path], o.vv)
      have == SameContent(o.val, row[o.path].val)
  IN  /\ job["stream"] = {} /\ inbox # <<>>
      /\ Go("stream", Start(o,
              CASE d = "Ignore"     -> "record"
                [] d = "Concurrent" -> "call"
                [] d = "Apply" /\ o.val = Tombstone -> "publish"
                [] d = "Apply" /\ o.val # Tombstone /\ ~ have -> "fetch"
                [] d = "Apply" /\ have /\ o.old = None -> "meta"
                [] d = "Apply" /\ have /\ o.old # None ->
                     IF Dominated(o.old, o.vv) THEN "unlink" ELSE "commit",
              FALSE))
      /\ UNCHANGED <<disk, row, oplog, content, sup, queue, pending, inbox, own, count>>

\* handle_leaf: the peer's row as the session reads it.
ReadLeaf(p) ==
  LET o == [path |-> p, old |-> None, val |-> peer[p].val, vv |-> peer[p].vv]
      d == Decide(row[p], o.vv)
  IN  /\ job["session"] = {} /\ d # "Ignore"
      /\ Mark("leaf")
      /\ Go("session", Start(o, IF d = "Concurrent" THEN "call"
                                ELSE IF o.val = Tombstone THEN "publish"
                                ELSE "fetch", TRUE))
      /\ UNCHANGED <<disk, row, oplog, content, sup, queue, pending, inbox, own>>

(***************************************************************************)
(* The apply discipline.  Every change of the disk is one call on a        *)
(* blocking thread, which first registers what the watcher will see.       *)
(* Until the change is made another task may register its own, ingest may  *)
(* consume the entry and the sweep may drop it.                            *)
(***************************************************************************)

\* The changes that the call of k registers.
Expected(k) ==
  CASE k.st \in {"publish", "meta"}  -> {<<k.op.path, k.op.val>>}
    [] k.st = "unlink"              -> {<<k.op.old, Tombstone>>}
    [] k.st \in {"place", "restore"} -> {<<k.at, k.plan.val>>}
    [] k.st = "fetch"               -> {<<k.op.old, Tombstone>>, <<k.op.path, k.op.val>>}

\* apply_rename registers once it has found the very bytes at the source, and
\* restore_local_content gives up without a manifest.
Calls(k) ==
  \/ k.st \in {"publish", "meta", "unlink", "place"}
  \/ k.st = "restore" /\ (k.plan.val # Tombstone => ManifestFor(k.plan.val))
  \/ k.st = "fetch" /\ k.unlink /\ SameContent(disk[k.op.old], k.op.val)

Arm(j) ==
  \E k \in job[j] :
    LET keys(p) == {KeyOf(x[2]) : x \in {x \in Expected(k) : x[1] = p}}
    IN  /\ j \notin armed /\ Calls(k)
        /\ armed' = armed \cup {j}
        /\ sup' = [p \in Path |-> IF keys(p) = {} THEN sup[p] ELSE keys(p)]
        /\ UNCHANGED <<disk, row, oplog, content, queue, pending, ing, scan, peer,
                       inbox, job, own, count>>

\* apply_rename moves whatever the source holds by now.
Move(j) ==
  \E k \in job[j] :
    LET src == disk[k.op.old]
    IN  /\ j \in armed /\ k.st = "fetch" /\ k.unlink
        /\ src # Tombstone /\ disk[k.op.path] # Dir
        /\ src = Dir => disk[k.op.path] = Tombstone
        /\ disk' = [disk EXCEPT ![k.op.old] = Tombstone,
                                ![k.op.path] = IF src = Dir THEN Dir
                                               ELSE MetaOver(src, k.op.val)]
        /\ IF src = Dir THEN UNCHANGED <<queue, pending>>
           ELSE SeeRename(k.op.old, k.op.path)
        /\ Go(j, At(k, "unlink"))
        /\ TouchedBy(j, {k.op.old, k.op.path},
                     IF src = row[k.op.old].val /\ SameContent(src, k.op.val)
                     THEN {k.op.old, k.op.path} ELSE {})
        /\ strays' = strays \cup {h \in {HashOf(k.op.val)} : ~ Stored(k.op.val)}
        /\ UNCHANGED <<row, oplog, manifests, cas, sup, inbox, count>>

\* The bytes have to come from the chunk store.
Transfers(k) ==
  /\ k.st = "fetch"
  /\ k.unlink => disk[k.op.old] # Dir /\ ~ SameContent(disk[k.op.old], k.op.val)

\* Mutant: the manifest is used and not stored.
BugObtainManifest(j) ==
  \E k \in job[j] :
    /\ j \notin armed /\ Transfers(k)
    /\ Go(j, At(k, "chunks"))
    /\ UNCHANGED <<disk, row, oplog, content, sup, queue, pending, inbox, own,
                   count>>

\* obtain_manifest: from the database, or from a peer and stored.
ObtainManifest(j) ==
  \E k \in job[j] :
    /\ j \notin armed /\ Transfers(k)
    /\ PutManifest(k.op.val)
    /\ Go(j, At(k, "chunks"))
    /\ UNCHANGED <<disk, row, oplog, cas, strays, sup, queue, pending, inbox,
                   own, count>>

\* fetch_file_chunks: what the store has, rotten or not, is not fetched.
FetchChunks(j) ==
  \E k \in job[j] :
    /\ k.st = "chunks"
    /\ PutVerified(HashOf(k.op.val))
    /\ Go(j, At(k, "publish"))
    /\ UNCHANGED <<disk, row, oplog, manifests, strays, sup, queue, pending,
                   inbox, own, count>>

\* No peer gives the manifest or the chunks, for good or for now.
FetchFails(j) ==
  \E k \in job[j] :
    /\ \/ j \notin armed /\ Transfers(k) /\ ~ ManifestFor(k.op.val)
       \/ k.st = "chunks" /\ ~ Has(HashOf(k.op.val))
    /\ Mark("fault")
    /\ Go(j, Unmaterializable(k)) \/ Go(j, {})
    /\ UNCHANGED <<disk, row, oplog, content, sup, queue, pending, inbox, own>>

\* A directory squats a path that the call has to change, or is what it was to
\* move: it fails for good.  After an unlink that fails, what was published at
\* the target stays there.
Blocked(j) ==
  \E k \in job[j] :
    LET o == k.op
        target == Squatted(o.path)
        source == Squatted(o.old)
    IN  /\ \/ j \in armed /\ k.st = "publish" /\ Intact(o.val) /\ target
           \/ j \in armed /\ k.st = "unlink" /\ source
           \/ j \in armed /\ k.st = "fetch" /\ source /\ disk[o.path] # Tombstone
           \/ j \in armed /\ k.st = "fetch" /\ disk[o.old] \in Value /\ target
           \/ j \notin armed /\ k.st = "fetch" /\ k.unlink /\ source
        /\ Go(j, Unmaterializable(k))
        /\ Disowns(j, IF k.st = "unlink" THEN {o.path} ELSE {})
        /\ KeepDisk
        /\ UNCHANGED <<row, oplog, content, inbox, count>>

\* apply_version, or apply_delete.
Publish(j) ==
  \E k \in job[j] :
    /\ j \in armed /\ k.st = "publish" /\ Intact(k.op.val) /\ ~ Squatted(k.op.path)
    /\ Put(k.op.path, k.op.val)
    /\ Go(j, At(k, IF k.unlink THEN "unlink" ELSE "commit"))
    /\ TouchedBy(j, {k.op.path}, {k.op.path})
    /\ UNCHANGED <<row, oplog, content, inbox, count>>

\* The call fails for now, and the version is delivered again: assembly meets a
\* chunk that does not verify or that another task has dropped, or the file to
\* be moved has gone since it was read.
Spoilt(j) ==
  \E k \in job[j] :
    /\ j \in armed
    /\ \/ k.st = "publish" /\ ~ Intact(k.op.val) /\ Drop(k.op.val)
       \/ k.st = "fetch" /\ disk[k.op.old] = Tombstone /\ UNCHANGED cas
    /\ Go(j, {})
    /\ KeepDisk
    /\ UNCHANGED <<row, oplog, manifests, strays, inbox, own, count>>

\* apply_meta_only: the index says the content is in place.  A file that is
\* gone is a transient error; a directory takes the metadata as well.
Meta(j) ==
  \E k \in job[j] :
    LET p == k.op.path
    IN  /\ j \in armed /\ k.st = "meta"
        /\ IF disk[p] \in Value
           THEN /\ disk' = [disk EXCEPT ![p] = MetaOver(disk[p], k.op.val)]
                /\ SeeWrite(p)
                /\ TouchedBy(j, {p}, {q \in {p} : disk[q] = row[q].val})
           ELSE UNCHANGED <<disk, queue, pending, own>>
        /\ Go(j, IF disk[p] = Tombstone THEN {} ELSE At(k, "commit"))
        /\ UNCHANGED <<row, oplog, content, sup, inbox, count>>

Unlink(j) ==
  \E k \in job[j] :
    /\ j \in armed /\ k.st = "unlink" /\ ~ Squatted(k.op.old)
    /\ Put(k.op.old, Tombstone)
    /\ Go(j, At(k, "commit"))
    /\ TouchedBy(j, {k.op.old}, {k.op.old})
    /\ UNCHANGED <<row, oplog, content, inbox, count>>

-----------------------------------------------------------------------------
(* Committing it *)

Joined(p, v, vv) == [val |-> v, vv |-> Merge(row[p].vv, vv)]

\* apply_remote: the target when ok, a rename's source whenever the op
\* dominates it, the op itself in any case.
ApplyRemote(o, ok) ==
  LET src == o.old # None /\ Dominated(o.old, o.vv)
  IN  /\ row' = [p \in Path |->
                   IF p = o.path /\ ok THEN Joined(p, o.val, o.vv)
                   ELSE IF p = o.old /\ src THEN Joined(p, Tombstone, o.vv)
                   ELSE row[p]]
      /\ oplog' = [p \in Path |->
                     IF p = o.path THEN oplog[p] \cup {[val |-> o.val, vv |-> o.vv]}
                     ELSE IF p = o.old
                          THEN oplog[p] \cup {[val |-> Tombstone, vv |-> o.vv]}
                     ELSE oplog[p]]
      /\ inbox' = Tail(inbox)

\* apply_remote and reconcile_upsert decide again; a stale Apply is undone.
Commit(j) ==
  \E k \in job[j] :
    LET d == Decide(row[k.op.path], k.op.vv)
        done == [k EXCEPT !.recorded = TRUE]
    IN  /\ k.st = "commit"
        /\ IF k.recorded
           THEN /\ row' = IF d = "Apply"
                          THEN [row EXCEPT ![k.op.path] =
                                  Joined(k.op.path, k.op.val, k.op.vv)]
                          ELSE row
                /\ UNCHANGED <<oplog, inbox>>
           ELSE ApplyRemote(k.op, d = "Apply")
        /\ Go(j, IF d = "Apply" THEN Onward(done)
                 ELSE At([done EXCEPT !.resolve = (d = "Concurrent")], "load"))
        /\ TouchedBy(j, {p \in Path : row'[p] # row[p]}, {})
        /\ KeepDisk
        /\ UNCHANGED <<content, count>>

\* apply_remote for an op whose target is not applied.
Record(j) ==
  \E k \in job[j] :
    /\ k.st = "record"
    /\ ApplyRemote(k.op, FALSE)
    /\ Go(j, Onward([k EXCEPT !.recorded = TRUE]))
    /\ TouchedBy(j, {p \in Path : row'[p] # row[p]}, {})
    /\ KeepDisk
    /\ UNCHANGED <<content, count>>

\* A rename's second effect, after the record.
Source(j) ==
  \E k \in job[j] :
    /\ k.st = "source"
    /\ Go(j, At([k EXCEPT !.at = k.op.old, !.calls = 0, !.staged = FALSE,
                   !.plan = NoRow, !.resolve =
                     (Decide(row[k.op.old], k.op.vv) = "Concurrent")], "load"))
    /\ UNCHANGED <<disk, row, oplog, content, sup, queue, pending, inbox, own, count>>

\* restore_local_content reads the committed row ...
Load(j) ==
  \E k \in job[j] :
    /\ k.st = "load"
    /\ Go(j, At([k EXCEPT !.plan = row[k.at]], "restore"))
    /\ TouchedBy(j, {}, {k.at})
    /\ UNCHANGED <<disk, row, oplog, content, sup, queue, pending, inbox, count>>

\* ... and puts it back on disk.  Failures are logged and left to the scanner.
Restore(j) ==
  \E k \in job[j] :
    LET v == k.plan.val
    IN  /\ k.st = "restore"
        /\ \/ /\ ~ Calls(k)
              /\ KeepDisk /\ UNCHANGED <<own, cas>>
           \/ /\ j \in armed /\ (Squatted(k.at) \/ ~ Intact(v))
              /\ Drop(v)
              /\ Disowns(j, {p \in {k.at} : ~ Intact(v)})
              /\ KeepDisk
           \/ /\ j \in armed /\ ~ Squatted(k.at) /\ Intact(v)
              /\ Put(k.at, v)
              /\ TouchedBy(j, {k.at}, {}) /\ UNCHANGED cas
        /\ Go(j, IF k.resolve
                 THEN At([k EXCEPT !.resolve = FALSE, !.plan = NoRow], "call")
                 ELSE Onward(k))
        /\ UNCHANGED <<row, oplog, manifests, strays, inbox, count>>

-----------------------------------------------------------------------------
(* Resolving a conflict *)

\* What the op is at the path in question.
RemoteAt(k) == [val |-> IF k.at = k.op.path THEN k.op.val ELSE Tombstone,
                vv  |-> k.op.vv]

\* resolve_rows: the history, the remote version, and the row if they do not
\* explain it.
Candidates(k) ==
  LET C == oplog[k.at] \cup {RemoteAt(k)}
  IN  IF Leq(row[k.at].vv, MergeAll({c.vv : c \in C})) THEN C
      ELSE C \cup {row[k.at]}

\* Mutant: what was staged stays on disk.
BugAbandon(k) == Onward(k)

\* The ways out of the loop that do not commit undo what was staged.
Abandon(k) == IF k.staged THEN At([k EXCEPT !.resolve = FALSE], "load")
              ELSE Onward(k)

\* One call of resolve_rows: the plan that was staged commits if it is still
\* the plan that the committed state gives.
Call(j) ==
  \E k \in job[j] :
    /\ k.st = "call"
    /\ IF k.calls = MaxCalls \/ Decide(row[k.at], k.op.vv) # "Concurrent"
       THEN Go(j, Abandon(k)) /\ UNCHANGED <<row, own>>
       ELSE \E A \in Antichains(Candidates(k)) \ {{}} :
              LET w == [val |-> Winner(A),
                        vv  |-> MergeAll({c.vv : c \in Candidates(k)})]
              IN  IF w = k.plan
                  THEN /\ row' = [row EXCEPT ![k.at] = w]
                       /\ Go(j, Onward(k))
                       /\ TouchedBy(j, {k.at}, {})
                  ELSE /\ Go(j, At([k EXCEPT !.plan = w, !.calls = @ + 1],
                                   "stage"))
                       /\ UNCHANGED <<row, own>>
    /\ UNCHANGED <<disk, oplog, content, sup, queue, pending, inbox, count>>

\* stage_planned_row for the contested path.  Whether the winner is on disk
\* already is read off the row.  A session that knows the manifest takes the
\* chunks to be there.
Stage(j) ==
  \E k \in job[j] :
    LET v == k.plan.val
        current == v # Tombstone /\ row[k.at].val = v
        fetches == v # Tombstone /\ ~ (j = "session" /\ ManifestFor(v))
    IN  /\ k.st = "stage"
        /\ IF current
           THEN /\ Go(j, At(k, "call"))
                /\ UNCHANGED content
           ELSE /\ Go(j, At(k, "place"))
                /\ PutManifest(v)
                /\ IF fetches THEN PutVerified(HashOf(v)) ELSE UNCHANGED cas
                /\ UNCHANGED strays
        /\ KeepDisk
        /\ UNCHANGED <<row, oplog, inbox, own, count>>

\* ... and puts it on disk; a directory in its place is an error for good.
Place(j) ==
  \E k \in job[j] :
    LET v == k.plan.val
    IN  /\ j \in armed /\ k.st = "place"
        /\ IF Intact(v) /\ ~ Squatted(k.at)
           THEN /\ Put(k.at, v)
                /\ Go(j, At([k EXCEPT !.staged = TRUE], "call"))
                /\ TouchedBy(j, {k.at}, {k.at})
                /\ UNCHANGED cas
           ELSE /\ Drop(v)
                /\ Go(j, Abandon([k EXCEPT !.failed = ~ Intact(v)]))
                /\ KeepDisk /\ UNCHANGED own
        /\ UNCHANGED <<row, oplog, manifests, strays, inbox, count>>

\* The winner's content has to be fetched and cannot be.
StageFails(j) ==
  \E k \in job[j] :
    LET v == k.plan.val
    IN  /\ k.st = "stage" /\ v # Tombstone /\ row[k.at].val # v
        /\ ~ ManifestFor(v) \/ (j = "stream" /\ ~ Has(HashOf(v)))
        /\ Mark("fault")
        /\ \E f \in BOOLEAN : Go(j, Abandon([k EXCEPT !.failed = f]))
        /\ UNCHANGED <<disk, row, oplog, content, sup, queue, pending, inbox, own>>

-----------------------------------------------------------------------------
(* Faults *)

\* The connection is lost and its tasks are aborted wherever they stand.  A call
\* that has been made goes on without its task.
Abort(j) ==
  \E k \in job[j] :
    /\ Mark("fault")
    /\ \/ /\ j \notin armed
          /\ job' = [job EXCEPT ![j] = {}]
          /\ UNCHANGED armed
       \/ /\ j \in armed \/ (k.st # "fetch" /\ Calls(k))
          /\ job["orphan"] = {}
          /\ job' = [job EXCEPT ![j] = {}, !["orphan"] = {k}]
          /\ armed' = {IF i = j THEN "orphan" ELSE i : i \in armed}
    /\ own' = [own EXCEPT ![j] = {}]
    /\ UNCHANGED <<disk, row, oplog, content, sup, queue, pending, ing, scan, peer,
                   inbox>>

\* Bits flip in the chunk store.
Rot(h) ==
  /\ cas[h] = "good"
  /\ Mark("fault")
  /\ cas' = [cas EXCEPT ![h] = "rotten"]
  /\ UNCHANGED <<disk, row, oplog, manifests, strays, sup, queue, pending, ing,
                 scan, peer, inbox, job, armed, own>>

\* kill -9 and restart: what is in memory is lost.
Crash ==
  /\ Mark("fault")
  /\ sup' = [p \in Path |-> {}]
  /\ queue' = <<>> /\ pending' = {} /\ ing' = {} /\ scan' = {}
  /\ job' = [j \in Task |-> {}] /\ armed' = {}
  /\ own' = [j \in Worker |-> {}]
  /\ UNCHANGED <<disk, row, oplog, content, peer, inbox>>

-----------------------------------------------------------------------------
(* Specification *)

UserStep == \E p \in Path : \/ \E v \in UserVal : UserWrite(p, v)
                            \/ UserDelete(p)
                            \/ \E q \in Path : UserRename(p, q)
                            \/ UserMkdir(p)

PeerStep == \E p \in Path : \/ \E v \in PeerVal \cup {Tombstone} : PeerWrite(p, v)
                            \/ \E q \in Path : PeerRename(p, q)

Take == TakeDelete \/ TakeRename

ScanPass == \/ Walk \/ LiveFiles
            \/ \E p \in Path : SendDelete(p)

\* What a call on a blocking thread does.
CallStep(j) ==
  \/ Arm(j) \/ Move(j) \/ Blocked(j)
  \/ Publish(j) \/ Spoilt(j) \/ Meta(j) \/ Unlink(j) \/ Restore(j) \/ Place(j)

\* What the tasks do themselves.
WorkStep(j) ==
  \/ ObtainManifest(j) \/ FetchChunks(j)
  \/ Commit(j) \/ Record(j) \/ Source(j) \/ Load(j)
  \/ Call(j) \/ Stage(j)

TaskStep(j) == CallStep(j) \/ (j \in Worker /\ WorkStep(j))

Fault == \/ Crash
         \/ \E h \in Hash : Rot(h)
         \/ \E j \in Worker : FetchFails(j) \/ StageFails(j) \/ Abort(j)

Next ==
  \/ UserStep \/ PeerStep \/ Fault
  \/ Take \/ Ingest \/ ScanPass
  \/ \E p \in Path : FlushRipe(p) \/ Sweep(p) \/ ReadLeaf(p)
  \/ Receive
  \/ \E j \in Task : TaskStep(j)

(***************************************************************************)
(* The scanner runs pass after pass; ingest is one task that finishes what *)
(* it has taken and whose tick comes round however busy the channel is;    *)
(* the stream carries every op to its end.  Nothing obliges users, peers,  *)
(* sessions or the calls of aborted tasks to act.                          *)
(***************************************************************************)
Fairness ==
  /\ WF_vars(ScanPass)
  /\ WF_vars(Take \/ Ingest) /\ \A p \in Path : SF_vars(FlushRipe(p))
  /\ WF_vars(Receive \/ TaskStep("stream"))

Spec == Init /\ [][Next]_vars /\ Fairness

-----------------------------------------------------------------------------
(* Properties *)

\* Every variable has its type, and the event channel keeps to its capacity
\* (the bounded mpsc channel that the watcher and the scanner feed).
TypeOK ==
  /\ disk \in [Path -> Value \cup {Tombstone, Dir}]
  /\ row \in [Path -> Version] /\ peer \in [Path -> Version]
  /\ \A p \in Path : oplog[p] \subseteq Version
  /\ manifests \subseteq Hash /\ cas \in [Hash -> Chunks] /\ strays \subseteq Hash
  /\ \A p \in Path : sup[p] \in SUBSET (Hash \cup {0})
  /\ queue \in Seq(Event) /\ Len(queue) <= QueueCap
  /\ pending \subseteq Path
  /\ \A o \in ing : o.path \in Path /\ o.val \in Value \cup {Tombstone}
  /\ \A s \in scan : s.seen \subseteq Path /\ s.todo \subseteq Path \cup {None}
  /\ inbox \in Seq(Op)
  /\ \A j \in Task : job[j] \subseteq Job
  /\ armed \subseteq Task
  /\ \A j \in Worker : own[j] \subseteq Path

\* A task that is through leaves no uncommitted content behind: every path it
\* changed on disk, and whose file and row nobody else changed since, holds what
\* the index says or a directory.  The daemon does not promise it (Disowns and
\* TouchedBy leave these out) of a task that was aborted; of a repair that meets a
\* rotten chunk or whose row changes between its read and the rename; of a file
\* moved or given its metadata while it held a user's change not yet ingested;
\* and of a rename's target whose source a directory came to squat.
Mirrored ==
  \A j \in Worker : job[j] = {} => \A p \in own[j] : disk[p] \in {row[p].val, Dir}

\* The store backs the index: the manifest and the chunks that a live row names
\* are durable before the row is, and only bit rot takes a chunk away.  The one
\* exception is a file that apply_rename moved within the share while neither
\* database nor chunk store knew its content.
StoreBacksRows ==
  \A p \in Path : row[p].val # Tombstone =>
    Stored(row[p].val) \/ HashOf(row[p].val) \in strays

\* A node keeps everything it holds in the hash-addressed store, so that it can
\* serve it (docs/design-m4-single-copy-serving.md:45).  Refuted: a moved file
\* may be a stray.
RowsStored == \A p \in Path : row[p].val # Tombstone => Stored(row[p].val)

\* The scanner is authoritative: whatever events were lost, swallowed or
\* reordered and wherever the daemon was killed, once users and peers rest the
\* index describes the disk and stays so (directories are not replicated).
DiskSettles == <>[](\A p \in Path : disk[p] \in {row[p].val, Dir})

\* No op of a peer wedges the stream: not one whose chunks have rotted in the
\* store, whose file is gone or whose path a directory squats, and not across
\* a restart.
StreamDrains == <>[](inbox = <<>>)

=============================================================================
