--------------------------- MODULE MembershipProofs ---------------------------
(***************************************************************************)
(* What holds of Membership for every set of members, entries and tasks:   *)
(* its types, and, as long as no configuration is reloaded, that the file  *)
(* is the commit point and that no entry is ever replaced by one it        *)
(* supersedes.                                                             *)
(***************************************************************************)
EXTENDS Membership, TLAPS

\* Pointwise: r holds for every member the entry of q or one superseding it.
NotBehind(r, q) == \A m \in Member : ~ Below(r[m], q[m])

\* Without reloads every job is a merge and merge_serial admits one at a time.
OneMerge ==
  /\ \A t \in Task : job[t].at \notin {"seeds", "swap"}
  /\ \A t \in Task : job[t].at = "idle" \/ job[t].merge
  /\ \A t, u \in Task : job[t].merge /\ job[u].merge => t = u

\* The staged roster is the next one, and is on disk before it is committed.
StagedNext ==
  \A t \in Task :
    /\ job[t].at \in {"save", "commit"} => NotBehind(job[t].staged, roster)
    /\ job[t].at = "commit" => disk = job[t].staged

RInv == TypeOK /\ OneMerge /\ StagedNext /\ DurableFirst

-----------------------------------------------------------------------------
(* The order of entries *)

\* Below is irreflexive.
LEMMA BelowIrreflexive ==
  ASSUME NEW e \in Entry
  PROVE  ~ Below(e, e)
BY DEF Below, Entry, Key, Kind, Rank

\* Not being superseded is transitive: the order is total.
LEMMA NotBelowTransitive ==
  ASSUME NEW d \in Entry, NEW e \in Entry, NEW f \in Entry,
         ~ Below(d, e), ~ Below(e, f)
  PROVE  ~ Below(d, f)
BY MembershipAssumption DEF Below, Entry, Key, Kind, Rank

\* An entry that supersedes another is not superseded by it.
LEMMA BelowAsymmetric ==
  ASSUME NEW d \in Entry, NEW e \in Entry, Below(d, e)
  PROVE  ~ Below(e, d)
BY MembershipAssumption DEF Below, Entry, Key, Kind, Rank

\* The pointwise order on rosters is reflexive and transitive.
LEMMA NotBehindOrder ==
  /\ \A q \in Roster : NotBehind(q, q)
  /\ \A p, q, r \in Roster : NotBehind(p, q) /\ NotBehind(q, r) => NotBehind(p, r)
BY BelowIrreflexive, NotBelowTransitive DEF NotBehind, Roster

\* A roster with one entry replaced by a superseding one is not behind.
LEMMA StagedNotBehind ==
  ASSUME NEW q \in Roster, NEW m \in Member, NEW e \in Entry, Below(q[m], e)
  PROVE  /\ [q EXCEPT ![m] = e] \in Roster
         /\ NotBehind([q EXCEPT ![m] = e], q)
<1>1. ASSUME NEW k \in Member PROVE ~ Below([q EXCEPT ![m] = e][k], q[k])
  BY <1>1, BelowIrreflexive, BelowAsymmetric DEF Roster
<1> QED
  BY <1>1 DEF Roster, NotBehind

-----------------------------------------------------------------------------
(* Types *)

\* What an empty roster, an empty view and an idle job are.
LEMMA IdleTypes ==
  /\ EmptyRoster \in Roster
  /\ NoView \in View
  /\ Idle \in Job
BY MembershipAssumption
   DEF EmptyRoster, NoEntry, Roster, Entry, Key, Kind, NoView, View, Idle, Job, Steps

\* recompute yields a view, and its keys are keys.
LEMMA ViewTypes ==
  ASSUME NEW s \in View, NEW r \in Roster
  PROVE  EffectiveOf(s, r) \in View
BY MembershipAssumption DEF EffectiveOf, View, Roster, Entry, Key

\* The keys of a view are keys.
LEMMA KeyTypes ==
  ASSUME NEW s \in View
  PROVE  KeysOf(s) \subseteq Key \ {0}
BY DEF KeysOf, View

\* The signed entries are entries.
LEMMA EntryTypes ==
  ASSUME NEW p \in Entries
  PROVE  p[1] \in Member /\ p[2] \in Entry
BY MembershipAssumption DEF Entry

\* A job that moves on keeps its type.
LEMMA JobTypes ==
  ASSUME TypeOK, NEW t \in Task, NEW x \in Steps
  PROVE  /\ [job EXCEPT ![t].at = x] \in [Task -> Job]
         /\ \A r \in Roster : [job EXCEPT ![t].at = x, ![t].staged = r] \in [Task -> Job]
         /\ \A v \in View : [job EXCEPT ![t].at = x, ![t].view = v] \in [Task -> Job]
         /\ \A r \in Roster :
              [job EXCEPT ![t] = [@ EXCEPT !.at = x, !.merge = TRUE, !.staged = r]]
                \in [Task -> Job]
         /\ [job EXCEPT ![t] = Idle] \in [Task -> Job]
         /\ job[t].staged \in Roster
         /\ job[t].view \in View
BY IdleTypes DEF TypeOK, Job

\* A step of a merge, a reload or recompute keeps the types.
LEMMA JobStepTypes ==
  ASSUME TypeOK, NEW t \in Task, JobStep(t)
  PROVE  TypeOK'
<1> USE DEF viewVars, netVars, envVars
<1>0. \A x \in Steps : [job EXCEPT ![t].at = x] \in [Task -> Job]
  BY JobTypes
<1>1. job[t].staged \in Roster /\ job[t].view \in View
      /\ [job EXCEPT ![t] = Idle] \in [Task -> Job]
  BY JobTypes DEF Steps
<1>2. seeds \in View
  BY MembershipAssumption DEF TypeOK
<1>3. CASE Save(t) \/ Commit(t) \/ SwapRoster(t)
  BY <1>0, <1>1, <1>3 DEF Save, Commit, SwapRoster, Goto, TypeOK, Steps
<1>4. CASE SaveFails(t) \/ Notify(t)
  BY <1>1, <1>4 DEF SaveFails, Notify, Finish, TypeOK
<1>5. CASE SwapSeeds(t)
  BY <1>0, <1>5 DEF SwapSeeds, Goto, TypeOK, Steps
<1>6. CASE ReadSeeds(t)
  <2>1. [job EXCEPT ![t].at = "merge", ![t].view = seeds] \in [Task -> Job]
    BY <1>2, JobTypes DEF Steps
  <2> QED
    BY <1>6, <2>1 DEF ReadSeeds, TypeOK
<1>7. CASE ReadEntries(t)
  <2>1. EffectiveOf(job[t].view, roster) \in View
    BY <1>1, ViewTypes DEF TypeOK
  <2>2. [job EXCEPT ![t].at = "effective",
                    ![t].view = EffectiveOf(job[t].view, roster)] \in [Task -> Job]
    BY <2>1, JobTypes DEF Steps
  <2> QED
    BY <1>7, <2>2 DEF ReadEntries, TypeOK
<1>8. CASE WriteEffective(t)
  BY <1>0, <1>1, <1>8 DEF WriteEffective, Goto, TypeOK, Steps
<1>9. CASE WriteAllow(t)
  BY <1>0, <1>1, <1>9, KeyTypes DEF WriteAllow, Goto, TypeOK, Steps
<1> QED
  BY <1>3, <1>4, <1>5, <1>6, <1>7, <1>8, <1>9 DEF JobStep

\* A step of a connection keeps the types.
LEMMA ConnectionTypes ==
  ASSUME TypeOK, NEW c \in Connection,
         Accept(c) \/ Dial(c) \/ Register(c) \/ Lose(c)
  PROVE  TypeOK'
<1>1. ASSUME NEW x, NEW y \in {"none", "secured", "known", "inserted", "live"},
             Advance(c, x, y)
      PROVE  TypeOK'
  BY <1>1 DEF Advance, TypeOK, viewVars, envVars
<1> QED
  BY <1>1 DEF Accept, Dial, Register, Identify, Insert, Recheck, Lose

\* A step of the supervisor keeps the types.
LEMMA SuperviseTypes ==
  ASSUME TypeOK, Supervise
  PROVE  TypeOK'
<1> USE DEF viewVars, envVars
<1>1. CASE Scan
  BY <1>1 DEF Scan, TypeOK
<1>2. CASE Apply
  BY <1>2 DEF Apply, Reconcile, TypeOK
<1>3. CASE Wake
  BY <1>3 DEF Wake, TypeOK
<1> QED
  BY <1>1, <1>2, <1>3 DEF Supervise

\* A restart brings the node to a well-typed state.
LEMMA RestartTypes ==
  ASSUME TypeOK, Restart
  PROVE  TypeOK'
<1>1. PICK s \in SeedChoices : Load(s, disk)
  BY DEF Restart
<1>2. s \in View /\ disk \in Roster
  BY MembershipAssumption DEF TypeOK
<1>3. EffectiveOf(s, disk) \in View /\ KeysOf(EffectiveOf(s, disk)) \subseteq Key \ {0}
  BY <1>2, ViewTypes, KeyTypes
<1>4. restarts' \in 0 .. MaxRestarts
  BY MembershipAssumption DEF Restart, TypeOK
<1> QED
  BY <1>1, <1>2, <1>3, <1>4, IdleTypes DEF Load, Restart, TypeOK, FirstPass

\* Every step keeps the types.
LEMMA NextTypes ==
  ASSUME TypeOK, [Next]_vars
  PROVE  TypeOK'
<1> USE DEF viewVars, netVars, envVars
<1>1. CASE UNCHANGED vars
  BY <1>1 DEF vars, TypeOK
<1>2. ASSUME NEW t \in Task, NEW p \in Entries, Stage(t, p[1], p[2]) PROVE TypeOK'
  <2>1. p[1] \in Member /\ p[2] \in Entry
    BY EntryTypes
  <2>2. [roster EXCEPT ![p[1]] = p[2]] \in Roster
    BY <2>1 DEF TypeOK, Roster
  <2>3. [job EXCEPT ![t] = [@ EXCEPT !.at = "save", !.merge = TRUE,
                              !.staged = [roster EXCEPT ![p[1]] = p[2]]]] \in [Task -> Job]
    BY <2>2, JobTypes DEF Steps
  <2> QED
    BY <1>2, <2>3 DEF Stage, StageEntry, TypeOK
<1>3. ASSUME NEW t \in Task, ReadRoster(t) PROVE TypeOK'
  <2>1. [job EXCEPT ![t].at = "seeds", ![t].staged = disk] \in [Task -> Job]
    BY JobTypes DEF Steps, TypeOK
  <2>2. reloads' \in 0 .. MaxReloads
    BY <1>3, MembershipAssumption DEF ReadRoster, TypeOK
  <2> QED
    BY <1>3, <2>1, <2>2 DEF ReadRoster, TypeOK
<1> QED
  BY <1>1, <1>2, <1>3, RestartTypes, JobStepTypes, ConnectionTypes, SuperviseTypes
  DEF Next

\* The initial states are well typed.
LEMMA InitTypes ==
  ASSUME Init
  PROVE  TypeOK
<1>1. seeds \in View
  BY MembershipAssumption DEF Init, Loaded
<1>2. EffectiveOf(seeds, EmptyRoster) \in View
      /\ KeysOf(EffectiveOf(seeds, EmptyRoster)) \subseteq Key \ {0}
  BY <1>1, IdleTypes, ViewTypes, KeyTypes
<1>3. effective \in View /\ allow \subseteq Key \ {0}
  BY <1>2 DEF Init, Loaded
<1>4. reloads \in 0 .. MaxReloads /\ restarts \in 0 .. MaxRestarts
  BY MembershipAssumption DEF Init, Loaded
<1>5. job \in [Task -> Job]
  BY IdleTypes DEF Init, Loaded
<1>6. conn \in [Connection -> {"none", "secured", "known", "inserted", "live"}]
  BY DEF Init, Loaded
<1> QED
  BY <1>3, <1>4, <1>5, <1>6, IdleTypes DEF Init, Loaded, FirstPass, TypeOK

\* Membership is type correct: every variable keeps the type its declaration
\* gives it, through merges, reloads, failed saves and restarts.
THEOREM TypeCorrect == Spec => []TypeOK
BY InitTypes, NextTypes, PTL DEF Spec

-----------------------------------------------------------------------------
(* The roster without reloads *)

\* A job that moves from one step of a merge to the next.
LEMMA GotoOneMerge ==
  ASSUME TypeOK, OneMerge, NEW t \in Task, NEW x \in Steps,
         job[t].merge, x \notin {"seeds", "swap"},
         \/ job' = [job EXCEPT ![t].at = x]
         \/ \E v : job' = [job EXCEPT ![t].at = x, ![t].view = v]
  PROVE  /\ OneMerge'
         /\ job'[t].at = x /\ job'[t].merge /\ job'[t].staged = job[t].staged
         /\ \A u \in Task \ {t} : job'[u] = job[u] /\ ~ job[u].merge /\ job[u].at = "idle"
BY DEF TypeOK, OneMerge, Job

\* Which steps leave the roster, the file and every job alone.
Quiet == UNCHANGED <<roster, disk, seeds, effective, allow, job>>

\* The connections and the supervisor never touch the roster or the views.
LEMMA NetQuiet ==
  ASSUME \/ \E c \in Connection : Accept(c) \/ Dial(c) \/ Register(c) \/ Lose(c)
         \/ Supervise
         \/ UNCHANGED vars
  PROVE  Quiet
BY DEF Quiet, Accept, Dial, Register, Identify, Insert, Recheck, Lose, Advance,
       Supervise, Scan, Apply, Wake, vars, viewVars

\* Without reloads no reload is ever under way, so a job's step is a merge's.
LEMMA MergeSteps ==
  ASSUME RInv, MaxReloads = 0, NEW t \in Task
  PROVE  /\ ~ ReadRoster(t) /\ ~ SwapSeeds(t) /\ ~ SwapRoster(t)
         /\ JobStep(t) => job[t].merge
BY DEF RInv, TypeOK, OneMerge, ReadRoster, SwapSeeds, SwapRoster, JobStep, Save,
       SaveFails, Commit, ReadSeeds, ReadEntries, WriteEffective, WriteAllow,
       Notify, Goto

\* Staging: the new roster is not behind the one in memory.
LEMMA StageKeeps ==
  ASSUME RInv, NEW t \in Task, NEW p \in Entries, Stage(t, p[1], p[2])
  PROVE  /\ OneMerge' /\ StagedNext' /\ DurableFirst'
         /\ UNCHANGED <<roster, disk, seeds, effective, allow>>
         /\ job'[t].at = "save" /\ \A u \in Task : job[u].at = "idle"
         /\ \A u \in Task \ {t} : job'[u] = job[u]
<1> DEFINE r == [roster EXCEPT ![p[1]] = p[2]]
<1>1. p[1] \in Member /\ p[2] \in Entry /\ roster \in Roster
  BY EntryTypes DEF RInv, TypeOK
<1>2. NotBehind(r, roster)
  BY <1>1, StagedNotBehind DEF Stage, StageEntry
<1> HIDE DEF r
<1>3. /\ job'[t].at = "save" /\ job'[t].merge /\ job'[t].staged = r
      /\ \A u \in Task \ {t} : job'[u] = job[u]
      /\ \A u \in Task : ~ job[u].merge
  BY DEF Stage, StageEntry, SerialFree, RInv, TypeOK, Job, r
<1>4. UNCHANGED <<roster, disk, seeds, effective, allow>>
  BY DEF Stage, viewVars
<1>5. OneMerge'
  BY <1>3 DEF RInv, OneMerge
<1>6. StagedNext'
  BY <1>2, <1>3, <1>4 DEF RInv, StagedNext, NotBehind
<1>7. DurableFirst'
  BY <1>4 DEF RInv, DurableFirst
<1> QED
  BY <1>3, <1>4, <1>5, <1>6, <1>7 DEF RInv, OneMerge

\* Saving: the file is the staged roster, or is left alone by a failure.
LEMMA SaveKeeps ==
  ASSUME RInv, NEW t \in Task, job[t].merge, Save(t) \/ SaveFails(t)
  PROVE  OneMerge' /\ StagedNext' /\ DurableFirst'
<1>1. NotBehind(job[t].staged, roster) /\ roster' = roster
  BY DEF RInv, StagedNext, Save, SaveFails, Goto
<1>2. DurableFirst'
  BY <1>1 DEF RInv, DurableFirst, NotBehind, Save, SaveFails
<1>3. CASE Save(t)
  <2>1. job' = [job EXCEPT ![t].at = "commit"] /\ disk' = job[t].staged
    BY <1>3 DEF Save, Goto
  <2>2. /\ OneMerge' /\ job'[t].staged = job[t].staged /\ job'[t].at = "commit"
        /\ \A u \in Task \ {t} : job'[u] = job[u] /\ job[u].at = "idle"
    BY <2>1, GotoOneMerge DEF RInv, Steps
  <2>3. StagedNext'
    BY <1>1, <2>1, <2>2 DEF StagedNext, NotBehind
  <2> QED
    BY <1>2, <2>2, <2>3
<1>4. CASE SaveFails(t)
  <2>1. OneMerge' /\ \A u \in Task : job'[u].at = "idle"
    BY <1>4 DEF RInv, TypeOK, OneMerge, Job, SaveFails, Finish, Idle
  <2>2. StagedNext'
    BY <2>1 DEF StagedNext
  <2> QED
    BY <1>2, <2>1, <2>2
<1> QED
  BY <1>3, <1>4

\* Committing: memory moves to what the file holds.
LEMMA CommitKeeps ==
  ASSUME RInv, NEW t \in Task, job[t].merge, Commit(t)
  PROVE  /\ OneMerge' /\ StagedNext' /\ DurableFirst' /\ NotBehind(roster', roster)
         /\ job'[t].at = "view" /\ UNCHANGED <<disk, seeds, effective, allow>>
         /\ \A u \in Task \ {t} : job'[u] = job[u] /\ ~ job[u].merge /\ job[u].at = "idle"
<1>1. /\ job' = [job EXCEPT ![t].at = "view"] /\ roster' = job[t].staged
      /\ UNCHANGED <<disk, seeds, effective, allow>>
  BY DEF Commit, Goto, viewVars
<1>2. disk = job[t].staged /\ NotBehind(job[t].staged, roster) /\ disk \in Roster
  BY DEF RInv, TypeOK, StagedNext, Commit, Goto
<1>3. /\ OneMerge' /\ job'[t].at = "view"
      /\ \A u \in Task \ {t} : job'[u] = job[u] /\ ~ job[u].merge /\ job[u].at = "idle"
  BY <1>1, GotoOneMerge DEF RInv, Steps
<1>4. StagedNext'
  BY <1>3 DEF StagedNext
<1>5. DurableFirst'
  BY <1>1, <1>2, NotBehindOrder DEF DurableFirst, NotBehind
<1> QED
  BY <1>1, <1>2, <1>3, <1>4, <1>5

\* The steps of recompute and the notification.
LEMMA RecomputeKeeps ==
  ASSUME RInv, NEW t \in Task, job[t].merge,
         ReadSeeds(t) \/ ReadEntries(t) \/ WriteEffective(t) \/ WriteAllow(t) \/ Notify(t)
  PROVE  OneMerge' /\ StagedNext' /\ DurableFirst' /\ UNCHANGED <<roster, disk, seeds>>
<1>1. UNCHANGED <<roster, disk, seeds>>
  BY DEF ReadSeeds, ReadEntries, WriteEffective, WriteAllow, Notify
<1>2. DurableFirst'
  BY <1>1 DEF RInv, DurableFirst
<1>3. CASE Notify(t)
  <2>1. OneMerge' /\ \A u \in Task : job'[u].at = "idle"
    BY <1>3 DEF RInv, TypeOK, OneMerge, Job, Notify, Finish, Idle
  <2> QED
    BY <1>1, <1>2, <2>1 DEF StagedNext
<1>4. CASE ~ Notify(t)
  <2>1. PICK x \in {"merge", "effective", "allow", "notify"} :
          \/ job' = [job EXCEPT ![t].at = x]
          \/ \E v : job' = [job EXCEPT ![t].at = x, ![t].view = v]
    BY <1>4 DEF ReadSeeds, ReadEntries, WriteEffective, WriteAllow, Goto
  <2>2. /\ OneMerge' /\ job'[t].at = x
        /\ \A u \in Task \ {t} : job'[u] = job[u] /\ job[u].at = "idle"
    BY <2>1, GotoOneMerge DEF RInv, Steps
  <2> QED
    BY <1>1, <1>2, <2>2 DEF StagedNext
<1> QED
  BY <1>3, <1>4

\* A restart takes the roster from the file.
LEMMA RestartKeeps ==
  ASSUME RInv, Restart
  PROVE  /\ OneMerge' /\ StagedNext' /\ DurableFirst' /\ NotBehind(roster', roster)
<1>1. PICK s \in SeedChoices : Load(s, disk)
  BY DEF Restart
<1>2. roster' = disk /\ disk' = disk /\ disk \in Roster
  BY <1>1 DEF Restart, Load, RInv, TypeOK
<1>3. \A t \in Task : job'[t] = Idle
  BY <1>1 DEF Load
<1>4. OneMerge' /\ StagedNext'
  BY <1>3 DEF Idle, OneMerge, StagedNext
<1>5. DurableFirst' /\ NotBehind(roster', roster)
  BY <1>2, NotBehindOrder DEF RInv, DurableFirst, NotBehind
<1> QED
  BY <1>4, <1>5

\* Every step keeps RInv, and no step leaves an entry behind.
LEMMA NextRoster ==
  ASSUME RInv, [Next]_vars, MaxReloads = 0
  PROVE  RInv' /\ NotBehind(roster', roster)
<1>1. TypeOK'
  BY NextTypes DEF RInv
<1>2. roster \in Roster
  BY DEF RInv, TypeOK
<1>3. roster' = roster => NotBehind(roster', roster)
  BY <1>2, NotBehindOrder
<1>4. ASSUME Quiet PROVE RInv' /\ NotBehind(roster', roster)
  BY <1>1, <1>3, <1>4 DEF Quiet, RInv, OneMerge, StagedNext, NotBehind, DurableFirst
<1>5. ASSUME NEW t \in Task, NEW p \in Entries, Stage(t, p[1], p[2])
      PROVE  RInv' /\ NotBehind(roster', roster)
  BY <1>1, <1>3, <1>5, StageKeeps DEF RInv
<1>6. ASSUME NEW t \in Task, JobStep(t)
      PROVE  RInv' /\ NotBehind(roster', roster)
  <2>1. job[t].merge /\ ~ SwapSeeds(t) /\ ~ SwapRoster(t)
    BY <1>6, MergeSteps
  <2>2. CASE Save(t) \/ SaveFails(t)
    <3>1. roster' = roster
      BY <2>2 DEF Save, SaveFails
    <3> QED
      BY <1>1, <1>3, <2>1, <2>2, <3>1, SaveKeeps DEF RInv
  <2>3. CASE Commit(t)
    BY <1>1, <2>1, <2>3, CommitKeeps DEF RInv
  <2>4. CASE ReadSeeds(t) \/ ReadEntries(t) \/ WriteEffective(t) \/ WriteAllow(t) \/ Notify(t)
    BY <1>1, <1>3, <2>1, <2>4, RecomputeKeeps DEF RInv
  <2> QED
    BY <1>6, <2>1, <2>2, <2>3, <2>4 DEF JobStep
<1>7. CASE Restart
  BY <1>1, <1>7, RestartKeeps DEF RInv
<1> QED
  BY <1>4, <1>5, <1>6, <1>7, NetQuiet, MergeSteps DEF Next

\* The initial states satisfy the invariant.
LEMMA InitInvariants ==
  ASSUME Init
  PROVE  RInv
<1>1. TypeOK
  BY InitTypes
<1>2. OneMerge /\ StagedNext
  BY DEF Init, Loaded, Idle, OneMerge, StagedNext
<1>3. DurableFirst
  BY IdleTypes, NotBehindOrder DEF Init, Loaded, DurableFirst, NotBehind
<1> QED
  BY <1>1, <1>2, <1>3 DEF RInv

\* As long as nothing is reloaded, what memory holds is on disk: merge_signed
\* saves before it commits, and merge_serial keeps another merge from saving
\* a roster staged from an older one.
THEOREM FileIsCommitPoint ==
  ASSUME MaxReloads = 0
  PROVE  Spec => []DurableFirst
<1>1. Init => RInv
  BY InitInvariants
<1>2. RInv /\ [Next]_vars => RInv'
  BY NextRoster
<1>3. RInv => DurableFirst
  BY DEF RInv
<1> QED
  BY <1>1, <1>2, <1>3, PTL DEF Spec

\* As long as nothing is reloaded, no step replaces an entry of the roster by
\* one that it supersedes, a restart after a failed save included.
THEOREM TombstonesStay ==
  ASSUME MaxReloads = 0
  PROVE  Spec => RosterNeverRegresses
<1>1. Init => RInv
  BY InitInvariants
<1>2. RInv /\ [Next]_vars => RInv'
  BY NextRoster
<1>3. RInv /\ [Next]_vars
        => [\A m \in Member : ~ Below(roster'[m], roster[m])]_vars
  BY NextRoster DEF NotBehind
<1> QED
  BY <1>1, <1>2, <1>3, PTL DEF Spec, RosterNeverRegresses

=============================================================================
