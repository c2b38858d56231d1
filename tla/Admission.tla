------------------------------ MODULE Admission ------------------------------
(***************************************************************************)
(* How one node admits transfers: the pause gate, the transfer permits and *)
(* the free-space guard of src/net.rs, and the two lanes of the limiter of *)
(* src/qos.rs.                                                             *)
(*                                                                         *)
(* The daemon runs on a multi-threaded runtime, so every access to a       *)
(* shared atomic is a step of its own.  A wait on a Notify has two steps:  *)
(* the flag is read, and then the waiter is registered; notify_waiters     *)
(* wakes only who is registered.                                           *)
(***************************************************************************)
EXTENDS Integers, FiniteSets

CONSTANTS Transfer,    \* the transfers, each a task of its own
          Session,     \* those of a reconcile session: only the limiter
          Priority,    \* small assets; the others ride the Bulk lane
          Need,        \* Need[t]: the space that t takes
          Largest,     \* no transfer needs more
          Margin,      \* the space that the prober asks for
          Room,        \* the space above the reserve at first
          Permits,     \* max_concurrent_transfers
          MaxCommands, \* bound: pauses and resumes by the operator
          MaxFreed,    \* bound: units of space that users free
          MaxAborts    \* bound: tasks aborted by the supervisor

ASSUME AdmissionAssumption ==
  /\ IsFiniteSet(Transfer)
  /\ Session \subseteq Transfer
  /\ Priority \subseteq Transfer
  /\ Need \in [Transfer -> Nat \ {0}]
  /\ Largest \in Nat /\ \A t \in Transfer : Need[t] <= Largest
  /\ Margin \in Nat
  /\ Room \in Nat
  /\ Permits \in Nat \ {0}
  /\ {MaxCommands, MaxFreed, MaxAborts} \subseteq Nat

VARIABLES
  paused,      \* the pause gate
  guardPaused, \* the guard has tripped it
  room,        \* space above the reserve
  taken,       \* history: space that sessions' transfers took, past the guard
  holders,     \* who holds a transfer permit
  waiting,     \* priority_waiting
  pc,          \* where each transfer stands
  operator,    \* the operator's resume: idle, or about to notify
  prober,      \* the policy task's auto-resume
  held,        \* history: the operator's last command was pause
  commands, freed, aborts

vars == <<paused, guardPaused, room, taken, holders, waiting, pc, operator, prober,
          held, commands, freed, aborts>>

gateVars == <<paused, guardPaused>>
space == <<room, taken>>
envVars == <<operator, prober, held, commands, freed, aborts>>

Init ==
  /\ paused = FALSE
  /\ guardPaused = FALSE
  /\ room = Room /\ taken = 0
  /\ holders = {}
  /\ waiting = 0
  /\ pc = [t \in Transfer |-> IF t \in Session THEN "lane" ELSE "gate"]
  /\ operator = "idle"
  /\ prober = "idle"
  /\ held = FALSE
  /\ commands = 0 /\ freed = 0 /\ aborts = 0

Goto(t, from, to) == pc[t] = from /\ pc' = [pc EXCEPT ![t] = to]

-----------------------------------------------------------------------------
(* The pause gate: await_unpaused, before the permit and inside the guard *)

\* Mutant: the guard is consulted before a permit is taken.
BugPassed(t) == "check"

Passed(t) == IF t \in holders THEN "check" ELSE "permit"

LoadPaused(t) ==
  /\ Goto(t, "gate", IF paused THEN "parking" ELSE Passed(t))
  /\ UNCHANGED <<gateVars, space, holders, waiting, envVars>>

Park(t) ==
  /\ Goto(t, "parking", "parked")
  /\ UNCHANGED <<gateVars, space, holders, waiting, envVars>>

\* Mutant: the bound on transfers in flight is off by one.
BugTakePermit(t) ==
  /\ Goto(t, "permit", "check")
  /\ Cardinality(holders) <= Permits
  /\ holders' = holders \cup {t}
  /\ UNCHANGED <<gateVars, space, waiting, envVars>>

TakePermit(t) ==
  /\ Goto(t, "permit", "check")
  /\ Cardinality(holders) < Permits
  /\ holders' = holders \cup {t}
  /\ UNCHANGED <<gateVars, space, waiting, envVars>>

-----------------------------------------------------------------------------
(* The free-space guard: guard_free_space *)

FreeSpaceOk(n) == room >= n

CheckSpace(t) ==
  /\ Goto(t, "check", IF FreeSpaceOk(Need[t]) THEN "lane" ELSE "swap")
  /\ UNCHANGED <<gateVars, space, holders, waiting, envVars>>

\* Only the first to find a shortfall goes on to pause the engine.
SwapGuard(t) ==
  /\ Goto(t, "swap", IF guardPaused THEN "gate" ELSE "ask")
  /\ guardPaused' = TRUE
  /\ UNCHANGED <<paused, space, holders, waiting, envVars>>

AskPaused(t) ==
  /\ Goto(t, "ask", IF paused THEN "gate" ELSE "trip")
  /\ UNCHANGED <<gateVars, space, holders, waiting, envVars>>

Trip(t) ==
  /\ Goto(t, "trip", "gate")
  /\ paused' = TRUE
  /\ UNCHANGED <<guardPaused, space, holders, waiting, envVars>>

-----------------------------------------------------------------------------
(* The limiter's lanes: Limiter::acquire, for one chunk.  The token buckets   *)
(* only delay.                                                               *)

\* Priority is counted and goes on; Bulk yields while any Priority is counted.
EnterLane(t) ==
  /\ \/ /\ t \in Priority
        /\ Goto(t, "lane", "debit")
        /\ waiting' = waiting + 1
     \/ /\ t \notin Priority
        /\ Goto(t, "lane", IF waiting > 0 THEN "yielding" ELSE "debit")
        /\ UNCHANGED waiting
  /\ UNCHANGED <<gateVars, space, holders, envVars>>

Yield(t) ==
  /\ Goto(t, "yielding", "yielded")
  /\ UNCHANGED <<gateVars, space, holders, waiting, envVars>>

\* Mutant: whoever leaves lowers the counter, Bulk too.
BugDebited(t) ==
  /\ Goto(t, "debit", IF t \in Priority THEN "release" ELSE "run")
  /\ waiting' = IF waiting > 0 THEN waiting - 1 ELSE waiting
  /\ UNCHANGED <<gateVars, space, holders, envVars>>

\* The debt is slept off in both buckets.
Debited(t) ==
  /\ Goto(t, "debit", IF t \in Priority THEN "release" ELSE "run")
  /\ waiting' = IF t \in Priority THEN waiting - 1 ELSE waiting
  /\ UNCHANGED <<gateVars, space, holders, envVars>>

NotifyBulk(t) ==
  /\ pc[t] = "release"
  /\ pc' = [u \in Transfer |-> IF u = t THEN "run"
                               ELSE IF pc[u] = "yielded" THEN "lane"
                               ELSE pc[u]]
  /\ UNCHANGED <<gateVars, space, holders, waiting, envVars>>

\* The content is written and the permit goes back.
Finish(t) ==
  /\ Goto(t, "run", "done")
  /\ room' = room - Need[t]
  /\ taken' = IF t \in Session THEN taken + Need[t] ELSE taken
  /\ holders' = holders \ {t}
  /\ UNCHANGED <<gateVars, waiting, envVars>>

\* The supervisor aborts the task at an await: what it held is dropped and what
\* it counted stays counted.  A write that a blocking thread has begun goes on.
Abort(t) ==
  /\ aborts < MaxAborts
  /\ \/ /\ pc[t] \in {"parked", "permit", "yielded", "debit", "run"}
        /\ pc' = [pc EXCEPT ![t] = "done"]
     \/ pc[t] = "run" /\ UNCHANGED pc
  /\ holders' = holders \ {t}
  /\ aborts' = aborts + 1
  /\ UNCHANGED <<gateVars, space, waiting, operator, prober, held, commands,
                 freed>>

-----------------------------------------------------------------------------
(* pause, resume and the prober *)

Wake == [t \in Transfer |-> IF pc[t] = "parked" THEN "gate" ELSE pc[t]]

Pause ==
  /\ commands < MaxCommands
  /\ commands' = commands + 1
  /\ paused' = TRUE
  /\ held' = TRUE
  /\ UNCHANGED <<guardPaused, space, holders, waiting, pc, operator, prober,
                 freed, aborts>>

\* resume has two steps: the store, and the wake-up.
Resume ==
  /\ operator = "idle"
  /\ commands < MaxCommands
  /\ commands' = commands + 1
  /\ paused' = FALSE
  /\ held' = FALSE
  /\ operator' = "notify"
  /\ UNCHANGED <<guardPaused, space, holders, waiting, pc, prober, freed, aborts>>

OperatorNotify ==
  /\ operator = "notify"
  /\ operator' = "idle"
  /\ pc' = Wake
  /\ UNCHANGED <<gateVars, space, holders, waiting, prober, held, commands,
                 freed, aborts>>

\* The prober's tick: resume a pause of the guard when there is room again.
ProberStep(from, to) ==
  /\ prober = from
  /\ prober' = to
  /\ UNCHANGED <<space, holders, waiting, operator, held, commands, freed,
                 aborts>>

ProberTick == ProberStep("idle", "probe") /\ guardPaused
              /\ UNCHANGED <<gateVars, pc>>

ProberProbe == ProberStep("probe", IF FreeSpaceOk(Margin) THEN "clear" ELSE "idle")
               /\ UNCHANGED <<gateVars, pc>>

ProberClear == ProberStep("clear", "resume")
               /\ guardPaused' = FALSE
               /\ UNCHANGED <<paused, pc>>

ProberResume == ProberStep("resume", "notify")
                /\ paused' = FALSE
                /\ UNCHANGED <<guardPaused, pc>>

ProberNotify == ProberStep("notify", "idle")
                /\ pc' = Wake
                /\ UNCHANGED gateVars

\* Users free space.
Freed ==
  /\ freed < MaxFreed
  /\ freed' = freed + 1
  /\ room' = room + 1
  /\ UNCHANGED <<gateVars, taken, holders, waiting, pc, operator, prober, held,
                 commands, aborts>>

-----------------------------------------------------------------------------
(* The specification *)

Step(t) ==
  \/ LoadPaused(t) \/ Park(t) \/ TakePermit(t)
  \/ CheckSpace(t) \/ SwapGuard(t) \/ AskPaused(t) \/ Trip(t)
  \/ EnterLane(t) \/ Yield(t) \/ Debited(t) \/ NotifyBulk(t) \/ Finish(t)

Prober ==
  ProberTick \/ ProberProbe \/ ProberClear \/ ProberResume \/ ProberNotify

Next ==
  \/ \E t \in Transfer : Step(t) \/ Abort(t)
  \/ Prober
  \/ Pause \/ Resume \/ OperatorNotify
  \/ Freed

Spec == Init /\ [][Next]_vars

\* The runtime runs every task that is ready, and the policy task ticks for
\* ever.  Nothing is assumed of the operator or of users.
Fairness ==
  /\ \A t \in Transfer : WF_vars(Step(t))
  /\ WF_vars(Prober)
  /\ WF_vars(OperatorNotify)

FairSpec == Spec /\ Fairness

-----------------------------------------------------------------------------
(* Properties *)

\* The atomics, the permits and the steps of each task (Engine, Limiter).
TypeOK ==
  /\ paused \in BOOLEAN /\ guardPaused \in BOOLEAN /\ held \in BOOLEAN
  /\ room \in Int /\ taken \in Nat
  /\ holders \subseteq Transfer
  /\ Cardinality(holders) <= Permits
  /\ waiting \in 0 .. Cardinality(Priority)
  /\ pc \in [Transfer -> {"gate", "parking", "parked", "permit", "check",
                          "swap", "ask", "trip", "lane", "yielding",
                          "yielded", "debit", "release", "run", "done"}]
  /\ operator \in {"idle", "notify"}
  /\ prober \in {"idle", "probe", "clear", "resume", "notify"}
  /\ commands \in 0 .. MaxCommands
  /\ freed \in 0 .. MaxFreed
  /\ aborts \in 0 .. MaxAborts

\* The guard bounds how far transfers can take the file system below its
\* reserve, sessions' unguarded ones aside: the space that guard_free_space saw
\* is there for the transfer it admits, but for the other transfers in flight,
\* one for each further permit and one for each aborted task, whose write goes
\* on after its permit is back.
OvershootBounded == room + taken + (Permits - 1 + aborts) * Largest >= 0

\* No admitted transfer takes the file system below its reserve (qos.rs).
ReserveKept == aborts = 0 => room + taken >= 0

\* The Priority transfers that Limiter::acquire has counted in and not out.
CountedIn == {t \in Priority : pc[t] = "debit"}

\* Bulk yields to real traffic: priority_waiting counts every Priority transfer
\* that waits for tokens, and beyond these at most one for each task that was
\* aborted while it waited, whichever tasks enter, leave and die in between
\* (the two halves of Limiter::acquire have no guard that pairs them).
PhantomsBounded ==
  /\ Cardinality(CountedIn) <= waiting
  /\ waiting <= Cardinality(CountedIn) + aborts

\* Bulk is not starved: when all Priority transfers are over, every Bulk
\* transfer gets through too (Limiter::acquire and its Notify).
BulkDrains == \A t \in Transfer \ Priority : <>(pc[t] = "done")

\* What the operator has paused stays paused until the operator resumes it
\* (the prober's auto-resume).
PauseKept == (held /\ held' /\ paused) => paused'

OperatorPauseKept == [][PauseKept]_vars

\* Resume wakes the waiters: none is parked for ever at an open gate
\* (await_unpaused and resume).
ResumeWakes == \A t \in Transfer : ~ <>[](~ paused /\ pc[t] = "parked")

\* A pause that the guard tripped is lifted once there is room for good and
\* the operator has not paused (guard_free_space and the prober).
GuardPauseLifts ==
  <>[](FreeSpaceOk(Margin) /\ ~ held) => []<>(~ paused)

=============================================================================
