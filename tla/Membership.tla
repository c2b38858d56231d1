------------------------------ MODULE Membership ------------------------------
(***************************************************************************)
(* The membership of one node: the signed roster and its file, the views   *)
(* derived from it, the supervisor that starts and ends dial tasks, and    *)
(* the registration of connections (src/membership.rs, src/net.rs,         *)
(* src/peer.rs).                                                           *)
(*                                                                         *)
(* A member is another node and a key is the fingerprint of its            *)
(* certificate.  Entries arrive over the control socket or by gossip; both *)
(* call merge_signed, each caller a task of its own on a multi-threaded    *)
(* runtime.  Every lock is held for one read or one write only, except     *)
(* merge_serial, so every access to a shared view is a step.  An entry     *)
(* that does not verify, or that is superseded, changes nothing and is     *)
(* left out.                                                               *)
(***************************************************************************)
EXTENDS Naturals

CONSTANTS Member,
          MaxKey,       \* keys are 1 .. MaxKey; 0 is no key
          SeedChoices,  \* the peers that a configuration may list
          Entries,      \* the entries that the administrator ever signs
          Task,         \* tasks that call merge_signed or apply_reload
          Direction,    \* the connections modelled: "in", "out"
          MaxReloads,   \* bound: calls of apply_reload
          MaxRestarts   \* bound: restarts of the daemon

Key == 0 .. MaxKey

Kind == {"Add", "Remove"}

Entry == [epoch : Nat, kind : Kind, key : Key]

Roster == [Member -> Entry]

View == [Member -> Key]

ASSUME MembershipAssumption ==
  /\ MaxKey \in Nat
  /\ SeedChoices \subseteq View /\ SeedChoices # {}
  /\ Entries \subseteq Member \X [epoch : Nat \ {0}, kind : Kind, key : Key \ {0}]
  /\ Direction \subseteq {"in", "out"}
  /\ MaxReloads \in Nat
  /\ MaxRestarts \in Nat

VARIABLES
  roster,     \* roster[m]: the winning entry for m, in memory
  disk,       \* the roster file
  seeds,      \* seeds[m]: the key that the configuration gives m, or 0
  effective,  \* effective[m]: the key m is dialled and expected with, or 0
  allow,      \* the allowlist that the TLS verifiers read
  changed,    \* the watch channel: a change the supervisor has not seen
  job,        \* job[t]: where a merge or a reload stands
  conn,       \* conn[c]: where each connection stands
  tasks,      \* tasks[m]: the key that the dial task of m works with, or 0
  supervisor, \* where the supervisor stands
  reloads, restarts

viewVars == <<effective, allow>>
netVars == <<conn, tasks, supervisor>>
envVars == <<reloads, restarts>>

vars == <<roster, disk, seeds, viewVars, changed, job, netVars, envVars>>

-----------------------------------------------------------------------------
(* The roster *)

Rank(kind) == IF kind = "Remove" THEN 1 ELSE 0

\* order_key: the epoch, then Remove over Add, then a hash of the content,
\* for which the key stands.
Below(d, e) ==
  \/ d.epoch < e.epoch
  \/ d.epoch = e.epoch /\ Rank(d.kind) < Rank(e.kind)
  \/ d.epoch = e.epoch /\ d.kind = e.kind /\ d.key < e.key

\* No entry, below every signed one.
NoEntry == [epoch |-> 0, kind |-> "Add", key |-> 0]

EmptyRoster == [m \in Member |-> NoEntry]

\* recompute: seeds, overridden by signed Adds, evicted by signed Removes.
EffectiveOf(s, r) ==
  [m \in Member |-> IF r[m].epoch = 0 THEN s[m]
                    ELSE IF r[m].kind = "Add" THEN r[m].key
                    ELSE 0]

\* Mutant: a member that is dropped leaves an empty key behind.
BugKeysOf(view) == {view[m] : m \in Member}

KeysOf(view) == {view[m] : m \in Member} \ {0}

-----------------------------------------------------------------------------
(* Start and restart *)

Connection == [dir : Direction, member : Member, key : Key \ {0}]

NoView == [m \in Member |-> 0]

Idle == [at |-> "idle", merge |-> FALSE, staged |-> EmptyRoster, view |-> NoView]

FirstPass == [at |-> "scan", desired |-> NoView]

\* Membership::load and the start of the engine: connections are accepted
\* before the supervisor makes its first pass.
Load(s, r) ==
  /\ roster' = r
  /\ seeds' = s
  /\ effective' = EffectiveOf(s, r)
  /\ allow' = KeysOf(EffectiveOf(s, r))
  /\ changed' = FALSE
  /\ job' = [t \in Task |-> Idle]
  /\ conn' = [c \in Connection |-> "none"]
  /\ tasks' = NoView
  /\ supervisor' = FirstPass

Loaded ==
  /\ roster = EmptyRoster
  /\ disk = EmptyRoster
  /\ seeds \in SeedChoices
  /\ effective = EffectiveOf(seeds, EmptyRoster)
  /\ allow = KeysOf(effective)
  /\ changed = FALSE
  /\ job = [t \in Task |-> Idle]
  /\ conn = [c \in Connection |-> "none"]
  /\ reloads = 0
  /\ restarts = 0

Init == Loaded /\ tasks = NoView /\ supervisor = FirstPass

\* The daemon is killed at any point and started again.
Restart ==
  /\ restarts < MaxRestarts
  /\ restarts' = restarts + 1
  /\ \E s \in SeedChoices : Load(s, disk)
  /\ UNCHANGED <<disk, reloads>>

-----------------------------------------------------------------------------
(* merge_signed *)

\* merge_serial is held from the staging to the notification.
SerialFree == \A t \in Task : ~ job[t].merge

StageEntry(t, m, e) ==
  /\ job[t].at = "idle"
  /\ Below(roster[m], e)
  /\ job' = [job EXCEPT ![t] = [@ EXCEPT !.at = "save", !.merge = TRUE,
                                 !.staged = [roster EXCEPT ![m] = e]]]

\* Mutant: a merge does not wait for the one before it.
BugStage(t, m, e) ==
  /\ StageEntry(t, m, e)
  /\ UNCHANGED <<roster, disk, seeds, viewVars, changed, netVars, envVars>>

Stage(t, m, e) ==
  /\ SerialFree
  /\ StageEntry(t, m, e)
  /\ UNCHANGED <<roster, disk, seeds, viewVars, changed, netVars, envVars>>

Goto(t, from, to) ==
  /\ job[t].at = from
  /\ job' = [job EXCEPT ![t].at = to]

Finish(t) == job' = [job EXCEPT ![t] = Idle]

\* Mutant: a save that fails is taken for one that succeeded.
BugSave(t) ==
  /\ Goto(t, "save", "commit")
  /\ disk' \in {disk, job[t].staged}
  /\ UNCHANGED <<roster, seeds, viewVars, changed, netVars, envVars>>

Save(t) ==
  /\ Goto(t, "save", "commit")
  /\ disk' = job[t].staged
  /\ UNCHANGED <<roster, seeds, viewVars, changed, netVars, envVars>>

\* The file is unchanged when the write, its fsync or the rename fails, and
\* changed when only the fsync of the directory does.
SaveFails(t) ==
  /\ job[t].at = "save"
  /\ Finish(t)
  /\ disk' \in {disk, job[t].staged}
  /\ UNCHANGED <<roster, seeds, viewVars, changed, netVars, envVars>>

Commit(t) ==
  /\ Goto(t, "commit", "view")
  /\ roster' = job[t].staged
  /\ UNCHANGED <<disk, seeds, viewVars, changed, netVars, envVars>>

-----------------------------------------------------------------------------
(* apply_reload: merge_serial is not taken.  The candidate configuration may  *)
(* list other peers; it keeps the administrator's key and the roster's path.  *)

\* The reload starts: the file is read.
ReadRoster(t) ==
  /\ reloads < MaxReloads
  /\ reloads' = reloads + 1
  /\ job[t].at = "idle"
  /\ job' = [job EXCEPT ![t].at = "seeds", ![t].staged = disk]
  /\ UNCHANGED <<roster, disk, seeds, viewVars, changed, netVars, restarts>>

SwapSeeds(t) ==
  /\ Goto(t, "seeds", "swap")
  /\ seeds' \in SeedChoices
  /\ UNCHANGED <<roster, disk, viewVars, changed, netVars, envVars>>

SwapRoster(t) ==
  /\ Goto(t, "swap", "view")
  /\ roster' = job[t].staged
  /\ UNCHANGED <<disk, seeds, viewVars, changed, netVars, envVars>>

-----------------------------------------------------------------------------
(* recompute and the notification, for both *)

ReadSeeds(t) ==
  /\ job[t].at = "view"
  /\ job' = [job EXCEPT ![t].at = "merge", ![t].view = seeds]
  /\ UNCHANGED <<roster, disk, seeds, viewVars, changed, netVars, envVars>>

ReadEntries(t) ==
  /\ job[t].at = "merge"
  /\ job' = [job EXCEPT ![t].at = "effective",
                        ![t].view = EffectiveOf(job[t].view, roster)]
  /\ UNCHANGED <<roster, disk, seeds, viewVars, changed, netVars, envVars>>

WriteEffective(t) ==
  /\ Goto(t, "effective", "allow")
  /\ effective' = job[t].view
  /\ UNCHANGED <<roster, disk, seeds, allow, changed, netVars, envVars>>

WriteAllow(t) ==
  /\ Goto(t, "allow", "notify")
  /\ allow' = KeysOf(job[t].view)
  /\ UNCHANGED <<roster, disk, seeds, effective, changed, netVars, envVars>>

Notify(t) ==
  /\ job[t].at = "notify"
  /\ Finish(t)
  /\ changed' = TRUE
  /\ UNCHANGED <<roster, disk, seeds, viewVars, netVars, envVars>>

JobStep(t) ==
  \/ Save(t) \/ SaveFails(t) \/ Commit(t)
  \/ SwapSeeds(t) \/ SwapRoster(t)
  \/ ReadSeeds(t) \/ ReadEntries(t) \/ WriteEffective(t) \/ WriteAllow(t)
  \/ Notify(t)

-----------------------------------------------------------------------------
(* Connections: one at a time for each direction, member and key *)

Advance(c, from, to) ==
  /\ conn[c] = from
  /\ conn' = [conn EXCEPT ![c] = to]
  /\ UNCHANGED <<roster, disk, seeds, viewVars, changed, job, tasks, supervisor,
                 envVars>>

\* The TLS handshake, with the allowlist of the moment.  A dial task then
\* binds the connection to the key it was started with.
Accept(c) == c.dir = "in" /\ c.key \in allow /\ Advance(c, "none", "secured")

Dial(c) ==
  /\ c.dir = "out"
  /\ tasks[c.member] = c.key
  /\ c.key \in allow
  /\ Advance(c, "none", "known")

\* identify: the certificate is looked up in the effective set.
Identify(c) ==
  Advance(c, "secured", IF effective[c.member] = c.key THEN "known" ELSE "none")

\* register_authenticated: insert, and look again.
Insert(c) == Advance(c, "known", "inserted")

\* Mutant: the second look is left out.
BugRecheck(c) == Advance(c, "inserted", "live")

Recheck(c) ==
  Advance(c, "inserted", IF effective[c.member] # 0 THEN "live" ELSE "none")

Register(c) == Identify(c) \/ Insert(c) \/ Recheck(c)

\* The link fails, the peer closes it, or an aborted dial task drops it.
Lose(c) == conn[c] # "none" /\ Advance(c, conn[c], "none")

Registered(c) == conn[c] \in {"inserted", "live"}

-----------------------------------------------------------------------------
(* supervise *)

Scan ==
  /\ supervisor.at = "scan"
  /\ supervisor' = [at |-> "apply", desired |-> effective]
  /\ UNCHANGED <<roster, disk, seeds, viewVars, changed, job, conn, tasks, envVars>>

\* The members whose connections are closed: those with a dial task.
Dropped == {m \in Member : tasks[m] # 0 /\ supervisor.desired[m] = 0}

Reconcile ==
  /\ supervisor.at = "apply"
  /\ supervisor' = [supervisor EXCEPT !.at = "idle"]
  /\ tasks' = supervisor.desired
  /\ conn' = [c \in Connection |->
                IF c.member \in Dropped /\ Registered(c) THEN "none" ELSE conn[c]]

\* Mutant: a change announced while the supervisor works counts as seen.
BugApply ==
  /\ Reconcile
  /\ changed' = FALSE
  /\ UNCHANGED <<roster, disk, seeds, viewVars, job, envVars>>

\* Dial tasks are started, restarted and aborted, and every registered
\* connection of a dropped member is closed.
Apply ==
  /\ Reconcile
  /\ UNCHANGED <<roster, disk, seeds, viewVars, changed, job, envVars>>

Wake ==
  /\ supervisor.at = "idle"
  /\ changed
  /\ changed' = FALSE
  /\ supervisor' = [supervisor EXCEPT !.at = "scan"]
  /\ UNCHANGED <<roster, disk, seeds, viewVars, job, conn, tasks, envVars>>

Supervise == Scan \/ Apply \/ Wake

-----------------------------------------------------------------------------
(* The specification *)

Next ==
  \/ Restart
  \/ \E t \in Task : \E p \in Entries : Stage(t, p[1], p[2])
  \/ \E t \in Task : ReadRoster(t) \/ JobStep(t)
  \/ \E c \in Connection : Accept(c) \/ Dial(c) \/ Register(c) \/ Lose(c)
  \/ Supervise

Spec == Init /\ [][Next]_vars

\* A task that has begun goes on: no step of it waits for another party, and
\* the supervisor's loop never blocks while a change is announced.
Fairness ==
  /\ \A t \in Task : WF_vars(JobStep(t))
  /\ \A c \in Connection : WF_vars(Register(c))
  /\ WF_vars(Supervise)

FairSpec == Spec /\ Fairness

-----------------------------------------------------------------------------
(* Properties *)

Steps == {"idle", "save", "commit", "seeds", "swap", "view", "merge",
          "effective", "allow", "notify"}

Job == [at : Steps, merge : BOOLEAN, staged : Roster, view : View]

\* Every variable has the type its declaration gives it.
TypeOK ==
  /\ roster \in Roster
  /\ disk \in Roster
  /\ seeds \in SeedChoices
  /\ effective \in View
  /\ allow \subseteq Key \ {0}
  /\ changed \in BOOLEAN
  /\ job \in [Task -> Job]
  /\ conn \in [Connection -> {"none", "secured", "known", "inserted", "live"}]
  /\ tasks \in View
  /\ supervisor \in [at : {"scan", "apply", "idle"}, desired : View]
  /\ reloads \in 0 .. MaxReloads
  /\ restarts \in 0 .. MaxRestarts

\* "Disk is the commit point": whatever merge_signed has made visible in
\* memory survives a restart, so the file holds for every member the entry in
\* memory or one that supersedes it, whichever saves have failed.
DurableFirst == \A m \in Member : ~ Below(disk[m], roster[m])

\* Tombstones are retained for ever: no step, a restart included, replaces the
\* entry of a member with one that it supersedes.
RosterNeverRegresses ==
  [][\A m \in Member : ~ Below(roster'[m], roster[m])]_vars

\* The three views are kept in lockstep: whenever no merge and no reload is
\* under way, the effective set is what the seeds and the roster give and the
\* allowlist holds the keys of the effective set.  A recompute of a reload that
\* overlaps one of a merge breaks this.
ViewsInLockstep ==
  (\A t \in Task : job[t].at = "idle")
    => /\ effective = EffectiveOf(seeds, roster)
       /\ allow = KeysOf(effective)

\* A member that is removed for good ends with no registered connection: the
\* supervisor closes it, or register_authenticated does.
RemovalSevers ==
  \A m \in Member :
    <>[](effective[m] = 0)
      => <>[](\A c \in Connection : c.member = m => ~ Registered(c))

\* The running dial tasks end up as the effective set has them: the supervisor
\* misses no change, whenever it is announced.
DialsFollow ==
  \A f \in View : <>[](effective = f) => <>[](tasks = f)
=============================================================================
