# Replicore in TLA+

Replicore is a multi-master file replication daemon. Every node of a mesh keeps
a full copy of a share, accepts local changes, and pushes each change as an
*op* to the peers that subscribe to it; a Merkle reconcile session repairs what
the ops missed. Causality is tracked with a version vector per file, and
concurrent versions are settled by a deterministic winner with conflict copies
for the losers.

This directory holds the formal model of that system: modules to be checked
with TLC, and proofs to be checked with TLAPS. `PROJECT.json` lists the runs,
the mapping from definitions to source lines, the known hazards and the
theorems. Paths below are relative to the repository root.

## 1. Inventory

### Components that are modelled

| component | state | operations | source |
|---|---|---|---|
| version vectors | map from node id to counter | `increment`, `merge`, `compare`, `dominates` | `src/vv.rs` |
| causal decision | none | `decide`: Apply, Ignore, Concurrent | `src/decide.rs` |
| conflict plan | none | `antichain`, `plan_candidates`, `copy_vv` | `src/conflict.rs` |
| op log and file index | tables `oplog`, `files`, `applied`, `peer_cursors` | `append_local`, `append_local_rename`, `apply_remote`, `reconcile_upsert`, `resolve_rows`, `snapshot_for_join` | `src/oplog.rs`, `src/state.rs` |
| op stream, subscriber | one subscription per peer: connection, `recv_cursor`, op in hand | `dial_loop`, `subscription_io`, `process_remote_op`, `resolve_concurrent_op` | `src/net.rs` |
| op stream, serving side | position, batch, `sent_frontier`, `last_acked_seq` | `inbound_io`, `push_ops`, `absorb_acks`, `ops_since` | `src/net.rs`, `src/oplog.rs` |
| join lifecycle | expected, completed and unreachable peers; the lifecycle, persisted best-effort | `restore`, `note_gate_complete`, `note_unreachable`, `set_expected` | `src/join.rs` |
| anti-entropy | one session per link: two trees, the responder's snapshot, the directory and the leaf in hand | `build`, `children_page`, `reconcile_pull`, `handle_leaf`, `apply_remote_leaf`, `resolve_concurrent_leaf` | `src/merkle.rs` |
| watcher, ingest, suppression, scanner | event channel, pending paths, suppression entries, the scan pass | `dispatch`, `flush_ripe`, `handle_write`, `handle_delete`, `handle_rename`, `register_*`, `check_*`, `sweep`, `scan_once` | `src/watch.rs`, `src/ingest.rs`, `src/suppress.rs`, `src/scanner.rs` |
| disk apply, metadata | the share directory | `apply_assembled`, `apply_rename`, `apply_version`, `apply_meta_only`, `apply_delete`, `apply_meta`, `restore_local_content` | `src/apply.rs`, `src/metadata.rs` |
| content fetch, chunk store | manifests, chunk files | `obtain_manifest`, `fetch_file_chunks`, `Cas::has`, `put_verified`, `read`, `assemble_from_cas` | `src/fetch.rs`, `src/chunk.rs`, `src/state.rs` |
| admission of transfers | pause flag, guard flag, permits, free space | `pause`, `resume`, `await_unpaused`, `guard_free_space`, the prober | `src/net.rs` |
| rate limiter | `priority_waiting` and a `Notify` | `Limiter::acquire` | `src/qos.rs` |
| membership roster | roster in memory and on disk, seeds, effective set, allowlist | `merge_signed`, `apply_reload`, `recompute`, `load`, `save` | `src/membership.rs` |
| dial supervisor, peer registry | dial tasks, connection table | `supervise`, `register_authenticated`, `close_all`, `identify` | `src/net.rs`, `src/peer.rs` |

How they interact. The watcher reports changes of the share, the scanner walks it
and compares it with the index, and both feed the ingest task, which asks the
suppressor whether the change is the daemon's own and otherwise calls
`append_local`; the store commits the op and its row and wakes `push_ops`. A subscriber's
connection begins with a *gate*: a reconcile session against one atomic
snapshot (rows and op frontier). When the session is done the subscriber's
cursor moves to the frontier and the live stream starts from there, while a
timer starts further sessions on the same link. For each pushed op the
subscriber loads the row, decides, fetches the content (seconds, over the
network), publishes it on disk, or resolves a conflict, and only then commits; a
commit that finds its decision stale puts the committed row back on disk. A
session does the same leaf by leaf. All of these share one store thread per node, so single commands
are atomic and everything between two commands of a task is a race.

Every transfer of content passes an admission: the pause gate, a permit, the
free-space guard, then the limiter (a session's leaves meet only the limiter).
Signed membership entries arrive over the control socket and by gossip;
`merge_signed` saves the roster, commits it, recomputes the effective set and the
TLS allowlist, and wakes the supervisor, which starts and ends dial tasks and
closes the connections of removed members. These parts run on a multi-threaded
runtime and share atomics and short locks, so every access is a race.

What is hard here: decisions that are stale by the time they are committed;
resolution and record in two transactions; ops and merged rows that bring the
same versions by two routes; crashes between commits; the hand-over from
snapshot to stream; renames, which have two path effects; permanent failures
that are recorded as handled; observations of the disk that are lost, doubled or
overtaken by the daemon's own writes; content on disk that is not committed, and
chunks that rot; acks of connections that are gone; listings in pages; copy names that are taken and copy chains that
grow; flags of three parties that no lock ties together; wake-ups between a look
and a wait; membership changes around a handshake.

What makes it correct: rows never go back; vectors mean causality; equal
vectors mean equal rows; no version that nobody knowingly replaced disappears;
nothing at or below a cursor is ever needed again; the stream delivers in order and
without a gap, and the origin believes no more than that; a session finds every
difference; the index comes to describe the disk, and what it names is in the chunk store;
all nodes come to agree; a node becomes Active whoever is dead; the
reserve of free space is undershot by a known amount at most; nobody waits for ever; a removed member is cut off
and stays so.

### What is not modelled

* Gossip (`gossip.rs`) as an exchange between nodes: rosters by digest, on a timer and
  on every change. `Membership` has its effect on one node, entries that arrive in
  any order.
* The attempts of a fetch at single peers, and the chunks of one file one by one
  (`fetch.rs`): `Share` has their outcome.
* `control.rs`, `admin.rs`, `bin/replicorectl.rs`, `health.rs`, `stats.rs`, `config.rs`,
  `main.rs`: parsing, formatting, counters and start-up. The two commands of the
  control socket that change the engine's state, pause and resume, are actions of
  `Admission`. `replica.rs` is a test harness.
* Byte-level work: the cut into chunks, hashing, framing, kernel event records,
  system calls on metadata. Hashes do not collide.
* Coalescing of ops that are buffered behind one another, schema migrations.

## 2. Modules

| module | models |
|---|---|
| `VersionVector` | `vv.rs`; a vector is a total function, an absent entry is 0 |
| `Conflict` | `decide.rs` and `conflict.rs` as pure operators |
| `Replication` | stores, op streams, gates and sessions of a mesh: the composition |
| `MCReplication` | instances for TLC |
| `Admission` | pause gate, permits, free-space guard, prober and limiter lanes of one node |
| `MCAdmission` | instances for TLC |
| `Membership` | roster, views, supervisor and connections of one node |
| `MCMembership` | instances for TLC |
| `Share` | one node's disk, chunk store and index with watcher, ingest, suppressor, scanner, op stream and session around them; extends `Conflict` |
| `MCShare` | instances for TLC |
| `Delivery` | what the op stream promises to one subscriber |
| `Stream` | gate, stream, acks and join lifecycle on connections that break; implements `Delivery` |
| `MCStream` | instances for TLC |
| `Merkle` | the trees of a session and the walk over them |
| `MCMerkle` | instances for TLC |
| `ConflictProofs`, `ReplicationProofs`, `CausalityProofs`, `MembershipProofs`, `MerkleProofs`, `StreamProofs`, `AdmissionProofs`, `ShareProofs` | the theorems |

`Replication`, `Share`, `Stream` and `Merkle` are views of one engine at different
grain. `Replication` has the whole mesh and takes as atomic what the others
take apart: a local change (`Share`), the way from snapshot and log to the next op
(`Stream`), a session as the set of leaves that differ (`Merkle`).

### Data

A version's total-order key is (live?, content hash, metadata hash). Hashes are
fixed-width strings, so a live value *is* a number of `1..MaxKey` and a tombstone
is `0`, the smallest key. Uuid and mode take part in no decision and are left
out. A path without a row is `NoRow`: tombstone content and the zero vector,
which no operation ever produces. `CopyPathFor` (the naming hash) is a constant
operator; in the runs a path is a string and the record `CopyOf` names the copy of
each (of two keys only the smaller ever loses). The synthetic id of a copy
(`copy_origin`) is the copy's path itself.

### State and actions of `Replication`

| variable | in the code |
|---|---|
| `files[n][p]`, `oplog[n]` | the tables `files` and `oplog` |
| `latest[n]`, `cursor[n][m]` | `latest_origin_seq`; `recv_cursor` of `peer_cursors` |
| `conn[l]` | the phase of `subscription_io`: down, gate, live |
| `job[l]` | the local variables of `process_remote_op`, with the stage it is in |
| `session[l]`, `leaf[l]` | the responder's `JoinSnapshot`; the leaf `handle_leaf` is at |
| `seen[n][p]` | history: the ops whose effect the row really embodies |
| `lapsed[n][p]` | history: the vectors of versions that the node went on without |
| `drops`, `skips` | counters of injected failures |

`seen`, and `past` in an op, exist only so that causality can be stated without
referring to vectors. `lapsed` marks the places where the code knowingly goes on
without a version that the row does not cover: an op that is quarantined (its
error is permanent), a resolution that is abandoned or out of calls while the row is
still contested (`Forgo`), a leaf that is skipped, a recorded op whose second effect
dies with its connection (`Unfinished`). No guard reads any of them.

`AppendLocal` and `AppendLocalRename` are the two local commands. `Receive`,
`Fetched`, `Record`, `ResolveOp`, `CheckSource` are the stages of
`process_remote_op`, with `Quarantine` and `AbandonOp` for permanent failures.
`Connect`, `PeriodicReconcile`, `HandleLeaf`, `Upsert`, `ResolveLeaf`,
`SkipLeaf`, `SessionDone` and `AbortSession` are the gate and the session.
`Disconnect` and `Crash` end subscriptions; the store survives.

Conflict resolution is the loop around `resolve_rows`: a call with a plan that
is not what the transaction derives is `Stale` and returns the fresh plan, which
is staged and tried again, at most `MaxCalls` times (four in the code). `Commit`
installs a plan that is still current; `GiveUp` covers the other exits.

Steps taken together. Recording an ignored op is one step with the decision, and
so is the first call of `resolve_rows`, which only derives: a row's vector never
goes back (theorem `NeverRegress`), so Ignore stays Ignore and Concurrent never
turns into Apply in between. A leaf with the local hash is pruned by the tree
walk and one with a covered vector is ignored; both do nothing then or later, so
a session is the set of leaves that still matter (`Pending`). Of several ops with
one vector, the unordered `SELECT` may put any first; `Antichains` keeps any.

Not in the model: what `Share` and `Stream` have (acks, fetches, files on disk),
coalescing, and changes of the mesh.

### State and actions of `Admission`

`paused` and `guardPaused` are the two atomics, `holders` the semaphore, `waiting`
is `priority_waiting`, `room` the space above the reserve, and `pc[t]` the place
of each transfer. `held` and `taken` are history: the operator's last command was
pause; the space that sessions' unguarded transfers took. One
action is one access to a shared atomic, or one registration with a `Notify`:
`LoadPaused`, `Park` (`await_unpaused`), `TakePermit`, `CheckSpace`, `SwapGuard`,
`AskPaused`, `Trip` (`guard_free_space`), `EnterLane`, `Yield`, `Debited`,
`NotifyBulk` (`Limiter::acquire`), `Finish`, `Abort`, the operator's `Pause`,
`Resume` and `OperatorNotify`, and the five steps of the prober. Token buckets
only delay and are a step. A transfer takes one chunk. `Limiter::acquire` raises and
lowers `priority_waiting` in two places that no guard object pairs, so a task that is
aborted in between leaves it raised (`Abort`).

### State and actions of `Membership`

| variable | in the code |
|---|---|
| `roster[m]`, `disk[m]` | the winning entry in memory; the roster file |
| `seeds`, `effective`, `allow` | `Inner::seeds`, `Inner::effective`, `Inner::allowlist` |
| `changed` | the watch channel, as seen by the supervisor |
| `job[t]` | the local variables of `merge_signed`, `apply_reload` and `recompute` |
| `conn[c]` | a connection: secured by TLS, known, inserted in the registry, live |
| `tasks`, `supervisor` | the variables of `supervise` |

`merge_signed` is `Stage`, `Save` or `SaveFails`, `Commit`, then the steps of
`recompute` (`ReadSeeds`, `ReadEntries`, `WriteEffective`, `WriteAllow`) and
`Notify`; `apply_reload` is `ReadRoster`, `SwapSeeds`, `SwapRoster` and the same
tail. A merge holds `merge_serial` throughout, a reload does not. `Accept`, `Dial`,
`Identify`, `Insert`, `Recheck` set up a connection, `Lose` ends it; `Wake`, `Scan`,
`Apply` are one pass of the supervisor. An entry's content hash is represented
by its key; an entry whose signature fails, or that is superseded, changes
nothing and is no step. A reload (`ReadRoster`) keeps the administrator's key and the
path of the roster file: with another key `Roster::load` drops the entries that the old
one signed (`src/membership.rs` 209), and with another path it reads another roster;
neither is in the model. The first pass of the supervisor comes after connections
are accepted, as in `run`; `SettledSpec` starts after it.

### State and actions of `Share`

| variable | in the code |
|---|---|
| `disk[p]` | the file at `p`: content and metadata as one value, `Tombstone`, or `Dir` |
| `row[p]`, `oplog[p]`, `manifests` | the tables `files`, `oplog` (what it says of `p`), `manifests` |
| `cas[h]` | the chunks of content `h`: absent, good, rotten, dropped |
| `sup[p]` | the suppressor's entry: a content hash, or 0 for a delete |
| `queue`, `pending`, `ing` | the event channel, the quiescence timers, the observation in hand |
| `scan` | the local variables of `scan_once` |
| `peer`, `inbox` | one peer that stands for the mesh: its rows, its ops not yet handled |
| `job[j]` | the op stream's and the session's remote version and the stage it is in; `job["orphan"]`: a call that outlived its task |
| `armed` | the tasks whose call has registered with the suppressor and not yet changed the disk |
| `own[j]` | history: paths that `j` changed on disk and whose file and row nobody else changed since |
| `strays` | history: contents that `apply_rename` moved under a row while the store did not have them |

`UserWrite`, `UserDelete`, `UserRename`, `UserMkdir` change the disk, and each is seen as
one event, as two or not at all. `TakeDelete`, `TakeRename`, `FlushRipe` and `Ingest` are
the ingest task, `Walk`, `LiveFiles`, `SendDelete` a scan pass. `Receive` and `ReadLeaf`
begin a remote version; `Move`, `ObtainManifest`, `FetchChunks`, `Publish`, `Meta`, `Unlink`
carry it to the disk and `Commit` or `Record` into the index; `Load` and `Restore` are
`restore_local_content`, `Call`, `Stage` and `Place` the loop around `resolve_rows`.
`Blocked`, `Spoilt`, `FetchFails`, `StageFails`, `Abort`, `Rot` and `Crash` are what
goes wrong.

Every change of the disk is a call on a blocking thread (`spawn_blocking`) of two steps:
`Arm` registers with the suppressor what the watcher will see, and a second action
changes the disk. In between the other task may replace the path's one entry,
ingest may consume it and the sweep, which knows only ages, may drop it. A task
that is aborted leaves its call behind (`Abort`): as an orphan it still registers and
renames, and nobody commits or repairs what it put there. Bound: one orphan at a
time. A session that knows the winner's manifest takes the chunks to be there
(`src/merkle.rs` 509): its `Stage` fetches none, and assembly may fail in `Place`.

Steps taken together: the check of an observation and its append, within the ingest
task; a Write event and the timer it arms; the assembly of a file and its rename into
place, whose staging temp nobody else sees. The chunks of a content move together. Copies are
not placed: `Replication` does that. Two values with one hash differ in their
attributes; `MetaOver` adds attributes and removes none, as `apply_meta` does.

### State and actions of `Delivery` and `Stream`

`Delivery` has an origin's log, what the subscriber has (`got`), what the origin knows
of it (`acked`) and the origins it is connected to (`linked`): ops are handled in
order, several at once through a gate; nothing is taken back (`InOrder`); every op of a linked
origin is handled in the end (`GoesOn`).

`Stream` has the frames. `sub[p]` is the place of `subscribe_once` and its `resume` and
`frontier`; `serve[p]` that of `inbound_io` with `push_ops`'s position and batch,
`sent_frontier` and the seen value of the watch channel; `up[p]`, `down[p]` are the two
directions of the control stream; `late[p]` holds acks of lost connections. `cursor[p]`
is the durable `recv_cursor`, `acked[p]` the peer's `last_acked_seq`, and `expected`,
`completed`, `unreachable`, `lifecycle`, `saved` are `JoinTracker` and its row in the meta
table. A step of `Stream` is one read or write of a frame or one store command;
`Lose`, `Crash`, `DialFails` and `SetExpected` are the faults and the roster. The
refinement maps `got` to `have` and `linked` to the expected peers that answer. The
pause gate is left to `Admission`, periodic sessions to `Replication`; a restart of a
peer is the loss of its connection.

### State and actions of `Merkle`

`local` and `remote` are two indexes, `queue` the prefixes still to be listed, `at`,
`after`, `kids` the listing under way. `CompareRoots`, `PopDirectory`, `ListPage` (one
`TreeReq`), `CompareChild`, `DirectoryDone`, `SessionDone` are the steps of
`reconcile_pull`; `Lose` is any error. A path is a sequence of names. The hash of a
node is the set of the leaf hashes at and below it: `hash_children` is injective as
long as BLAKE3 has no collisions. As in `build`, a directory's entry takes the place
of a row at the same path. The checks against a hostile responder, and the
budget of 32 MiB for one listing, are left out.

## 3. Runs

The system comes to rest when the budgets of ops, entries and commands are used
up, so deadlock is not checked. Runs of `MCReplication`: node symmetry is used for safety
where all nodes have the same budget, never for liveness.

| run | instance | checks |
|---|---|---|
| `op_plane` | 2 nodes, 2 ops each, stream only, fairness | `EqualVVSameRow`, `VVTracksCausality`, `StreamConverges` |
| `gate` | 2 nodes, 1 op each, gates, timer, one crash or drop, one permanent failure | `TypeOK`, `CursorCovered`, `NoSilentLoss`, `RecordedOnce`, `RowsNeverRegress` |
| `heal` | 2 nodes, 1 op each, one of them joins through a gate, timer, one permanent failure, fairness | `Converges` |
| `rename` | 2 paths, 2 + 1 ops with renames, stream only, one permanent failure | `RecordedIsAbsorbed`, `ComponentsBacked` |
| `collision` | users write to a copy's name and to its copy's, 2 ops each | `NoSilentLoss` |

Run of `MCAdmission`:

| run | instance | checks |
|---|---|---|
| `admission` | 3 guarded transfers, 2 permits, 1 session transfer, 2 of each lane, operator, users, one abort | `TypeOK`, `OvershootBounded`, `PhantomsBounded` |

Runs of `MCMembership`:

| run | instance | checks |
|---|---|---|
| `roster` | 2 members, 4 entries, 1 task that merges or reloads, 2 configurations, failing saves, 1 restart | `TypeOK`, `RosterNeverRegresses` |
| `sever` | 1 member, re-keyed and removed, 2 merging tasks, connections in both directions, fairness | `DurableFirst`, `RemovalSevers`, `DialsFollow` |

Runs of `MCShare`, `MCStream` and `MCMerkle`:

| run | instance | checks |
|---|---|---|
| `share` | 2 paths, any two of: user's change, peer's change, leaf, fault | `TypeOK`, `Mirrored`, `StoreBacksRows` |
| `settle` | 1 path, a user's change, a peer's change and a fault, fairness | `DiskSettles`, `StreamDrains` |
| `stream` | 2 peers, one dead, 3 ops, batches of 2, 2 faults, 2 roster changes, fairness | `TypeOK`, `HonestAcksAccepted`, `Seamless`, `DeliversInOrder`, `EveryOpArrives`, `BecomesActive` |
| `merkle` | all pairs of indexes over 5 nested paths, pages of 2 | `TypeOK`, `Complete`, `OnlyDifferences` |

In `share` and `settle` deadlock is checked: the scanner never stops.

Bounds. Two nodes with two ops each give every causal relation of two histories,
stale fetches, concurrent resolutions on both sides and a superseded
intermediate (the case the antichain exists for). Two live values and the
tombstone give a winner, a loser with a copy and a delete. In `collision` four ops
can occupy a path, its copy's name and the copy's copy's name, so that a chain
needs one link more than the depth limit, which is 2 instead of the code's
larger constant. `MaxCalls` is the code's four.

`Converges` and `StreamConverges` are both `Agreement` for ever in the end. Where
sessions run (`heal`) it is about every path: the rows of conflict copies are made by
the node that resolves, and sessions bring them to the others (`src/merkle.rs` 351). On
the stream alone a copy stays where it was made, so there it is about the paths
that users write to. In `heal` one link is established and the other joins, so the
gate moves a cursor past an op whose leaf the session had to skip.

Three guarded transfers compete for two permits and the last room while a fourth
holds the limiter, and one of them may be aborted while its write goes on.
`OvershootBounded` is what the guard is worth: the reserve is undershot by at most
one largest transfer for each permit beyond the first and each aborted task; that it
is kept (`ReserveKept`) fails (below). `PhantomsBounded` is what the limiter is worth
to Bulk: it yields to every Priority transfer that waits, and to no more phantoms than
tasks were aborted. Two merging tasks give every race
for `merge_serial`, and two entries for one member make the supervisor work while
the next change arrives. In `roster` merges and reloads do not overlap: when they
do, `RosterNeverRegresses` fails (below). `MaxKey` is 2 where a certificate changes.

In `share` any two of the four disturbances overlap with each other and with the
scanner on two paths, renames included: a restore against a commit, a user against
a publish, a kill between publish and commit, an aborted task's call against the
op's redelivery. `settle` has three on one path under fairness; user and peer write the
same content there, so that a stale suppression entry can swallow either. What needs
more, such as a file that vanishes between `apply_rename`'s look at it and its rename
(`Spoilt`), is covered by the proofs alone. Six values are three contents with and
without an attribute. The channel holds one
event, so that it is full at once. In `stream` three ops and batches of two give a
full and a partial batch, two faults a crash or loss during the recovery from
another, and two changes a peer that goes and comes back. In `merkle` a root has up
to three children, one more than a page, and `<<1>>` is a row, a directory, or both;
indexes of any shape are covered by the proof.

Fairness. `FairSpec` assumes only weak fairness of `Progress`: as long as some
task can take a step, some task does. The tokio runtime runs every runnable
task, `dial_loop` retries for ever, and `push_ops` waits on a watch channel that
remembers a missed change. No fairness between links or tasks is assumed, and
none for users and failures, whose numbers are bounded, so "they pause" is part
of every behaviour. `heal` needs the timer: a quarantined op is behind
the cursor and only a session can bring its row. In `Admission` and `Membership`
each task that has begun, the prober and the supervisor get weak fairness of
their own: none of their steps waits for another party except where its guard
says so (a permit, a wake-up). Operators, users, peers and links get none.

In `Share` the scan pass, the ingest task and the stream get weak fairness: each is a
task whose next step waits for nobody, apart from the full channel that ingest
empties. Flushing a ripe path gets strong fairness: ingest selects between its
channel and its tick without bias, and the flush is disabled while another
observation is in hand. Sessions, the calls of aborted tasks, sweeps and faults get
none. In `Stream`
each half of a connection gets weak fairness (a subscription, an accepted
connection, the push loop, the ack loop are tasks), and a peer that is dead makes
every dial fail (`dial_loop` retries for ever). Connections are not assumed to
last; their losses are bounded by `MaxFaults`.

### Known counterexamples

The following properties are defined in the modules, or are properties of the runs
on another instance, and TLC refutes them: the code does something that its
documentation rules out. No cfg is kept for them; each entry says what to change.

* `EqualVVSameRow`, `gate` with `TwoAndOne` ops: `a` writes 2, `b` writes 1. `b`'s gate
  pulls `a`'s row and resolves to 2 with {a1, b1}. `a` deletes: {a2}. `a`'s gate
  pulls `b`'s merged row, which no op explains, and resolves to 2 with {a2, b1}.
  `b` gets the delete as an op; its ops {b1, a2} now cover its row, so the row is
  not a candidate (`src/oplog.rs` 1358), and it resolves to 1 with {a2, b1}. The
  vectors are equal, so neither side ever adopts the other's row.
  `docs/review-3a-conflict.md` (144) says that this "cannot form".
* `EqualVVSameRow`, three nodes with one op each on the stream: between the commit
  of `resolve_rows` and the record of the op (`src/net.rs` 1659) another
  subscription's resolution sees a row that the op log does not explain yet.
* `VVTracksCausality` and `NoSilentLoss`, `rename`: a rename's vector starts from the source row's
  (`src/oplog.rs` 945), so at the target it can dominate a write that its author
  never saw. `README.md` (13) promises that the loser is preserved.
* `QuarantineLeavesIndex`, `rename`: a rename recorded as
  quarantined still tombstones its source (`src/oplog.rs` 1052, against
  `src/decide.rs` 46).
* `EveryRowCompared`, `merkle`: `MerkleTree::build` lets a directory's entry take the
  place of a row at the same path (`src/merkle.rs` 155). A tombstone `a` above a live
  `a/b` is in no hash, so a node that misses it is told that the trees are equal;
  `README.md` (18) says that any divergence is detected and repaired.
* `Mirrored`, `share` with one path, `Strips = TRUE`, `PeerVal = {1, 2}` and two changes
  of the peer: it adds an attribute and takes it away. `apply_meta` removes no
  attribute, so the second, metadata-only op leaves disk and row apart. The scanner
  takes the difference for a user's change and mints an op for it, against the
  no-storm law of `src/metadata.rs` (27); `DiskSettles` holds on this instance too.
* `Mirrored`, `share` with `MaxTotal = 3`: a user renames `a` to `b`
  while the peer's rename of `b` to `a` is applied. The stream decides Apply, ingest
  commits the user's rename, the stream unlinks `b`, and its commit finds `a`
  concurrent. When the resolution at `a` then meets a rotten chunk, the error ends
  the op (`src/net.rs` 1689), which is recorded already, before the source is looked
  at: the repair that line 1702 speaks of is not made, `b` is gone from the disk
  while its row is live, and the scanner takes that for a user's delete.
* `Mirrored`, `share` with `Budget <- TwoByPeer` and `MaxTotal = 3`, twice. The peer
  writes `b` and renames it to `a`, where a user's directory squats: the op is
  quarantined, its record tombstones `b` all the same (`src/oplog.rs` 1052), the file
  `b` stays, and the scanner brings it back as a user's. Or the peer changes an attribute of
  `b` and then renames a file of the same content onto it: the content counts as
  present (`have`, `src/net.rs` 2043), no metadata is applied, and disk and row differ.
* `Mirrored` without the exceptions in its comment, `share`. With `Restore` entering the path it
  wrote: a user and the peer rename across, ingest commits between the read of
  `restore_local_content` (`src/merkle.rs` 669) and its rename, and the older row's
  content is put on disk over the newer row; the scanner then takes it for a user's change,
  and the newer one is gone from the disk. With `Meta` or `Move` entering every path: metadata or a rename is applied over a
  user's change that ingest has not seen yet, which the row does not describe until
  it has. With a repair that meets a rotten chunk, what it was to replace stays. An
  aborted task repairs nothing.
* `RowsStored`, `share` with `MaxKey = 4`, `UserVal = {3}`, `PeerVal = {3}`,
  `Budget <- TwoByPeer` and `MaxTotal = 4`: the peer writes a file and the op is quarantined,
  because the fetch fails for good; a user leaves the same content at the path, and
  before ingest reads it the peer renames the path. The fast path (`src/net.rs` 2111)
  moves the file and its row is committed with neither manifest nor chunks, and the
  no-op filter of `append_local` (`src/oplog.rs` 837) keeps a later ingest from storing
  them. `docs/design-m4-single-copy-serving.md` (45) says that a node "keeps a permanent
  hash-addressed mirror of everything it must be able to serve — i.e. everything it
  holds". `StoreBacksRows` is what remains true.
* `ActiveMeansGated`, `stream`: one failed dial settles a peer for good
  (`src/join.rs` 170), and the node that then reaches it is Active while its first
  gate is still open; `src/join.rs` (41) says "Every reachable expected peer's
  initial gate completed".
* `BulkDrains`, `admission` under `FairSpec` with one Priority and one Bulk transfer, both of
  sessions:
  the last Priority transfer notifies between a Bulk transfer's look at the
  counter and its wait (`src/qos.rs` 194); line 27 says that starvation is
  impossible once the priority queue drains.
* `ReserveKept`, `admission`: two transfers check the same free
  space before either writes (`src/net.rs` 1075, against `src/qos.rs` 40).
* `OperatorPauseKept`, `admission`: the guard marks a pause that is, or becomes, the
  operator's, and the prober lifts it (`src/net.rs` 1078, against 351).
* `ResumeWakes`, `admission` under `FairSpec`: a resume between a waiter's look and its registration
  wakes nobody (`src/net.rs` 436, against 343).
* `GuardPauseLifts`, `admission` under `FairSpec` with a need above `Margin`: the prober clears the
  guard's mark before the guard pauses, and no tick lifts that pause
  (`src/net.rs` 1078, against 1071).
* `RosterNeverRegresses`, `roster` with two tasks: `apply_reload` puts the roster it
  read before a merge back over it (`src/membership.rs` 472); line 28 says that
  tombstones are retained forever. `DurableFirst` and `RemovalSevers` fail by the same race in
  `sever` with one reload.
* `ViewsInLockstep`, `roster` with two tasks: a reload's `recompute` writes an older
  view over a merge's (`src/membership.rs` 477, against 339).
* `RemovalSevers`, `sever` with an unseeded member that is added and removed: between
  two passes of the supervisor it has no dial task, so its inbound connection,
  registered and re-checked in between, is closed by nobody (`src/net.rs` 790,
  against 859). A node removed before the first pass after a start
  (`FairSpec` in place of `SettledSpec`) is the same case.

So `EqualVVSameRow` holds on the stream of two nodes, and `NoSilentLoss` on the checked
instances without renames. `VVTracksCausality` needs that there are no renames, and
with that holds of every mesh. `RowsNeverRegress`, `RecordedOnce`, `ComponentsBacked`,
`RecordedIsAbsorbed` and `CursorCovered` hold everywhere. These are proved. `Converges` does not hold in
`op_plane`, and need not: a conflict that only one node meets leaves its copy there, and
only sessions carry it. `Delivery` does not promise that
`acked` catches up: after a crash between an op's commit and its ack, or a gate that
brought the last op, `last_acked_seq` stays behind until the next op.

## 4. Proofs

The proofs hold for every set of nodes, links and paths, every naming operator
into `Path`, every depth and call limit and every failure budget. The assumptions
are `ConflictAssumption`, `ReplicationAssumption`: ids are the nodes and the
paths, disjoint; links join different nodes; limits are naturals;
`MembershipAssumption`: seeds and signed entries are well formed;
`MerkleAssumption`: names are finitely many and ordered, no row has the empty path;
`StreamAssumption`: a batch holds at least one op; `AdmissionAssumption`: transfers are
finitely many, each of a positive size up to `Largest`, and there is a permit;
and `ShareAssumption`: contents are told apart by hash and attributes, attributes
can be added to a file, and the event channel has a capacity.
TLC evaluates them in every run.

* `ConflictProofs`: the order laws of version vectors; `MergeIsLub`, `MergeLaws`; bounds
  of the merge of a bounded set of vectors. `PlanAdvances`: a plan derived from candidates that do not all
  lie below the row moves each of its rows strictly forward, and no vector in it
  exceeds what the candidates and the copy ids carry.
* `ReplicationProofs`:
  * `Invariance`: `IInv` is inductive. It says that every vector anywhere (rows,
    ops, staged plans, contests, snapshots, leaves) is at most `Bound`, the vector
    of what each node has originated and 1 for each copy id. `TypeOK` alone is
    not inductive, and neither is `ComponentsBacked`: a row takes its vector
    from a task that may have read it long ago, so everything in flight must be
    bounded too, and `Bound` only grows.
  * `TypeCorrect`, `HistoryIsBacked`: from `IInv`.
  * `NeverRegress`: every commit decides again under its transaction; with
    `PlanAdvances` and the coverage rule (the merge of the candidates always
    covers the row) the new vector is strictly later.
  * `OpsRecordedOnce`: from `OInv`: recorded ops of a peer are at or below its
    cursor and a job that still has to record is exactly one past it.
  * `NextLapsed`: rows move forward and `lapsed` only grows, so what is accounted for
    stays so.
* `CausalityProofs`, two inductive invariants on top of `IInv` and `OInv`:
  * `HInv`, for causality. The statement about rows is not inductive: a row takes its
    vector and its history from an op, a contested version or a snapshot that
    was read earlier. So each of these *carriers* has a vector and a history that
    agree (`Tracks`): the history has happened (`Past`); the vector covers every op in it
    (`Covers`); and, without renames, an op of the path that the vector reaches in
    the component of the op's author is in the history (`Knows`), and no vector is
    ahead of a node's own row in that node's component (`Owned`), so that the number
    a new op takes is one that nobody has seen. `Tracks` is kept by merging two carriers
    and by joining any number of them (`TracksAll`), which is what a commit of
    `resolve_rows` does, and by the synthetic component of a copy.
  * `EmbodiedIsCovered`, renames included: what a row embodies, its vector covers.
    `VectorsTrackCausality` (`VVTracksCausality`): the converse too, from `~ Renames`. The
    hypothesis is needed: a rename's vector joins the lineages of two paths, and at
    either of them covers ops that its author never saw there.
  * `QInv`, for what a node has taken responsibility for. `RecordedIsAbsorbed` says only
    that an unfinished op is in hand; the invariant says what its job still owes, by
    the stage it is in (`Owes`, `Settled`): both effects after an Apply that was
    downgraded, the source of a rename until it is looked at. A resolution starts from
    a row that is not below the remote version (`Engaged`) and rows only move forward, so
    that a row found to be no longer contested covers it, and giving up then leaves
    nothing behind. For the gate, the cursor's jump needs what is between the
    snapshot and the cursor: each op up to the frontier is accounted for, or lies below
    a row still to be handled, or below the leaf in hand (`SessionsSettle`); an author's
    rows cover its own ops (`Authored`), so the snapshot starts with all of them; and
    no cursor or frontier is ahead of its peer (`Behindhand`).
  * `RecordsAreAbsorbed` (`RecordedIsAbsorbed`), `CursorIsCovered` (`CursorCovered`), and with
    `VectorsTrackCausality` their corollary `CursorIsEmbodied`.

  TLC checked `QInv` as an invariant of the instances of `gate`, of `rename` with one
  drop as well, and of `collision` with one failure, before it was proved.

* `MembershipProofs`, for every set of members, entries, tasks and connections:
  * `TypeCorrect`, reloads included.
  * With no reload (`MaxReloads = 0`): `FileIsCommitPoint` and `TombstonesStay`. The
    invariant `RInv` adds to `DurableFirst` that at most one merge is under way
    (`OneMerge`) and that what it staged is not behind memory, and is on disk before
    it commits (`StagedNext`); without these a commit could take back another
    merge's entry. The hypothesis is needed: with reloads beside merges both fail
    (above).
* `MerkleProofs`, for all indexes, depths and page sizes: `TypeCorrect`,
  `WalkIsComplete` and `WalkIsFrugal`. `Complete` speaks only of the end. The invariant
  says where a difference still is before that (`Covered`): it is handled, or below a
  directory in the queue, or below the one being listed with its next name among
  the children at hand or not reached by the pages yet; and that all that was
  handled or queued differs (`Justified`). The lemmas: a page holds the smallest
  names after the last one (`PageInOrder`), and a leaf that differs shows in the
  hash of every node above it (`DifferenceShows`), so the walk never prunes it.

* `StreamProofs`, for any number of peers, ops, faults and roster changes and any batch:
  * `Invariance`. The properties speak of one end of a connection each and are inductive
    only with what ties the two ends together: which phases of the two loops go with
    each other and with which frames on their way (`Phases`); what the subscriber has
    is a prefix of the log that reaches to the durable cursor (`Prefix`); no ack,
    current or late, exceeds the cursor (`AcksBehind`); the gate's snapshot is never
    behind the subscriber (`GateAhead`); and on an open stream the cursor, the op in
    hand, the frames in flight, `sent_frontier` and the batch are adjacent
    stretches of one sequence.
  * `TypeCorrect`, `AcksAccepted` (`HonestAcksAccepted`), `HandoffIsSeamless` (`Seamless`).
  * `StreamDelivers`: the safety part of the refinement. Initial states of `Stream` map to
    initial states of `Delivery`, and every step to a step or a stutter.
* `AdmissionProofs`, for any transfers, sizes, permits, commands and aborts: `TypeCorrect`,
  `GuardBoundsOvershoot` (`OvershootBounded`) and `PhantomsOnlyByAborts` (`PhantomsBounded`).
  A bound on the free space says nothing of the transfers that were admitted and
  have not written. The invariant counts them: nobody consults the guard without a
  permit (`Gated`), whoever is in flight holds a permit or was aborted (`Permitted`),
  and the one admitted last found its own space with all the others in flight
  (`Cushion`). `Counted` says whom `priority_waiting` counts: those at the debit, and phantoms
  that no step but an abort there adds.
* `ShareProofs`, for all paths and values, channel capacities and numbers of changes,
  leaves and faults:
  * `Invariance`. The types need a bound: a resolution merges every vector it knows,
    and only a bounded set of vectors has a least upper bound, so all vectors of rows,
    ops and jobs lie below one vector `B`, which a local or a peer's op raises.
    `InHand`: an op that is not recorded is the one at the head of the stream.
    `Backing`: a live row's content is in the store or a stray, and so is what a
    task is about to commit, by the stage it has reached (`Prepared`): the manifest
    before the chunks, the chunks before the file, all of it before the row.
    An orphan commits nothing, and its jobs are a subset of its task's.
  * `ArmedAreTasks`: who has registered is a task; an orphan takes its task's place.
  * `TypeCorrect`, and `RowsBacked` (`StoreBacksRows`).

One lemma per action, or group of actions, shows that it keeps the invariant.

Only model-checked:

* `Converges`, `StreamConverges`, `RemovalSevers`, `DialsFollow`, `DiskSettles`, `StreamDrains`,
  `EveryOpArrives` (the liveness part of the refinement) and `BecomesActive`: liveness is
  outside what the prover handles.
* `EqualVVSameRow` and `Mirrored`: true of the checked instances and not of all (see
  above), so no theorem can state them.
* `NoSilentLoss`: false with renames. Without them it follows a loser's content along
  a chain of copies, and `CopyChain` names the three links that the depth limit of the
  runs allows; for any depth it would need induction along the chain.

## 5. Plan

1. Done: `VersionVector`, `Conflict`, `Replication`, `Admission`, `Membership`, `Share`, `Delivery`,
   `Stream`, `Merkle` and their runs; the theorems of eight proof modules.
2. Proofs about `Replication`: `NoSilentLoss` without renames, for copy chains of any
   depth.
3. Proofs about `Share`: when `Mirrored` holds, and the action properties of the
   suppressor.
4. `Gossip`: rosters of several nodes by digest. `Fetch`: attempts at single peers and the
   classification of their failures.
