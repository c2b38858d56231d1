--------------------------- MODULE AdmissionProofs ---------------------------
(***************************************************************************)
(* What holds of the admission of transfers for any number of transfers,   *)
(* permits, commands and aborts.                                           *)
(*                                                                         *)
(* How far the reserve can be undershot is a matter of who is in flight:   *)
(* admitted by the guard and not yet written.  Each of them holds a        *)
(* permit, or was aborted while its write goes on; and the one admitted    *)
(* last found its own space with all the others in flight.                 *)
(***************************************************************************)
EXTENDS Admission, FiniteSetTheorems, TLAPS

PC == {"gate", "parking", "parked", "permit", "check", "swap", "ask", "trip",
       "lane", "yielding", "yielded", "debit", "release", "run", "done"}

Limiting == {"lane", "yielding", "yielded", "debit", "release", "run"}

Types ==
  /\ paused \in BOOLEAN /\ guardPaused \in BOOLEAN /\ held \in BOOLEAN
  /\ room \in Int /\ taken \in Nat
  /\ holders \subseteq Transfer
  /\ waiting \in Nat
  /\ pc \in [Transfer -> PC]
  /\ operator \in {"idle", "notify"}
  /\ prober \in {"idle", "probe", "clear", "resume", "notify"}
  /\ commands \in 0 .. MaxCommands
  /\ freed \in 0 .. MaxFreed
  /\ aborts \in 0 .. MaxAborts

\* Nobody consults the guard without a permit, and sessions only the limiter.
Gated ==
  \A t \in Transfer :
    /\ pc[t] \in {"check", "swap", "ask", "trip"} => t \in holders
    /\ t \in Session => pc[t] \in Limiting \cup {"done"}

\* priority_waiting counts the Priority transfers that wait for tokens, and
\* some that were aborted there.
PastLane == {t \in Priority : pc[t] \in {"debit", "done"}}

Counted ==
  /\ Cardinality(CountedIn) <= waiting
  /\ waiting <= Cardinality(CountedIn) + aborts
  /\ waiting <= Cardinality(PastLane)

\* Past the guard, and not written yet.
InFlight == {t \in Transfer \ Session : pc[t] \in Limiting}

\* Who is in flight holds a permit or was aborted.
Permitted ==
  /\ Cardinality(holders) <= Permits
  /\ Cardinality(InFlight \ holders) <= aborts

Below(k, a) == (k - Permits - a) * Largest

\* The last one admitted saw the space it needs; every other one in flight
\* takes at most Largest.
Cushion ==
  \/ room + taken >= Below(Cardinality(InFlight) + 1, aborts)
  \/ \E t \in InFlight : room + taken >= Need[t] + Below(Cardinality(InFlight), aborts)

IInv == Types /\ Gated /\ Counted /\ Permitted /\ Cushion

-----------------------------------------------------------------------------
(* Sets of transfers *)

\* Every set of transfers can be counted.
LEMMA Countable ==
  ASSUME NEW S, S \subseteq Transfer
  PROVE  IsFiniteSet(S) /\ Cardinality(S) \in Nat
BY AdmissionAssumption, FS_Subset, FS_CardinalityType

\* Counting follows inclusion, joining and leaving.
LEMMA Count ==
  ASSUME NEW S, S \subseteq Transfer, NEW T, T \subseteq Transfer
  PROVE  /\ S \subseteq T => Cardinality(S) <= Cardinality(T)
         /\ Cardinality(S \cup T) <= Cardinality(S) + Cardinality(T)
         /\ \A t \in Transfer : Cardinality(S \cup {t}) =
              IF t \in S THEN Cardinality(S) ELSE Cardinality(S) + 1
         /\ \A t \in Transfer : Cardinality(S \ {t}) =
              IF t \in S THEN Cardinality(S) - 1 ELSE Cardinality(S)
<1>1. IsFiniteSet(S) /\ IsFiniteSet(T)
  BY Countable
<1>2. S \subseteq T => Cardinality(S) <= Cardinality(T)
  BY <1>1, FS_Subset
<1>3. Cardinality(S \cup T) <= Cardinality(S) + Cardinality(T)
  <2>1. /\ Cardinality(S \cup T) = Cardinality(S) + Cardinality(T) - Cardinality(S \cap T)
        /\ IsFiniteSet(S \cap T)
    BY <1>1, FS_Union, FS_Intersection
  <2>2. Cardinality(S \cap T) \in Nat /\ Cardinality(S) \in Nat /\ Cardinality(T) \in Nat
    BY <1>1, <2>1, FS_CardinalityType
  <2> QED
    BY <2>1, <2>2
<1>4. \A t \in Transfer : Cardinality(S \cup {t}) =
        IF t \in S THEN Cardinality(S) ELSE Cardinality(S) + 1
  BY <1>1, FS_AddElement
<1>5. \A t \in Transfer : Cardinality(S \ {t}) =
        IF t \in S THEN Cardinality(S) - 1 ELSE Cardinality(S)
  BY <1>1, FS_RemoveElement
<1> QED
  BY <1>2, <1>3, <1>4, <1>5

\* A multiple of Largest grows with its factor.
LEMMA Multiples ==
  ASSUME NEW i \in Int, NEW j \in Int
  PROVE  /\ i * Largest \in Int
         /\ (i + 1) * Largest = i * Largest + Largest
         /\ i <= j => i * Largest <= j * Largest
<1>1. Largest \in Nat
  BY AdmissionAssumption
<1>2. i * Largest \in Int /\ (i + 1) * Largest = i * Largest + Largest
  BY <1>1
<1>3. i <= j => i * Largest <= j * Largest
  <2>1. ASSUME NEW d \in Nat PROVE i * Largest <= (i + d) * Largest
    <3>1. d * Largest >= 0
      BY <1>1
    <3>2. (i + d) * Largest = i * Largest + d * Largest
      BY <1>1
    <3> QED
      BY <1>1, <3>1, <3>2
  <2>2. i <= j => j - i \in Nat /\ j = i + (j - i)
    OBVIOUS
  <2> QED
    BY <2>1, <2>2
<1> QED
  BY <1>2, <1>3

\* One more in flight, or one less, is one Largest.
LEMMA BelowSteps ==
  ASSUME NEW k \in Int, NEW a \in Int
  PROVE  /\ Below(k, a) \in Int
         /\ Below(k + 1, a) = Below(k, a) + Largest
         /\ Below(k, a + 1) = Below(k, a) - Largest
<1>1. Largest \in Int /\ Permits \in Int
  BY AdmissionAssumption
<1>2. Below(k, a) \in Int
  BY <1>1 DEF Below
<1>3. Below(k + 1, a) = Below(k, a) + Largest
  <2>1. k - Permits - a \in Int /\ k + 1 - Permits - a = (k - Permits - a) + 1
    BY <1>1
  <2>2. ((k - Permits - a) + 1) * Largest = (k - Permits - a) * Largest + Largest
    BY <2>1, Multiples
  <2>3. (k + 1 - Permits - a) * Largest = (k - Permits - a) * Largest + Largest
    BY <2>1, <2>2
  <2> QED
    BY <1>1, <2>3 DEF Below
<1>4. Below(k, a + 1) = Below(k, a) - Largest
  <2>1. /\ k - Permits - (a + 1) \in Int
        /\ (k - Permits - (a + 1)) + 1 = k - Permits - a
    BY <1>1
  <2>2. (k - Permits - a) * Largest = (k - Permits - (a + 1)) * Largest + Largest
    BY <2>1, Multiples
  <2>3. (k - Permits - (a + 1)) * Largest \in Int
    BY <2>1, Multiples
  <2> QED
    BY <1>1, <2>2, <2>3 DEF Below
<1> QED
  BY <1>2, <1>3, <1>4

-----------------------------------------------------------------------------
(* The parts of the invariant *)

\* Space that appears does not shrink the cushion.
LEMMA CushionKept ==
  ASSUME IInv, Types', InFlight' = InFlight, aborts' = aborts,
         room' + taken' >= room + taken
  PROVE  Cushion'
<1>1. Cardinality(InFlight) \in Nat /\ \A k \in Nat : Below(k, aborts) \in Int
  BY Countable, Multiples, AdmissionAssumption DEF InFlight, Below, IInv, Types
<1>2. /\ Below(Cardinality(InFlight), aborts) \in Int
      /\ Below(Cardinality(InFlight) + 1, aborts) \in Int
  BY <1>1
<1>3. room + taken \in Int /\ room' + taken' \in Int
  BY DEF IInv, Types
<1>4. \A t \in InFlight : Need[t] \in Int
  BY AdmissionAssumption DEF InFlight
<1> QED
  BY <1>2, <1>3, <1>4 DEF IInv, Cushion

\* A step that neither admits nor ends a transfer.
LEMMA CalmSafe ==
  ASSUME IInv, Types', Gated', UNCHANGED <<waiting, holders, aborts>>,
         CountedIn' = CountedIn, PastLane' = PastLane, InFlight' = InFlight,
         room' + taken' >= room + taken
  PROVE  IInv'
<1>1. Cushion'
  BY CushionKept
<1>2. Counted' /\ Permitted'
  BY DEF IInv, Counted, Permitted
<1> QED
  BY <1>1, <1>2 DEF IInv

\* The three sets, when transfers only move among other stages.
LEMMA SameStages ==
  ASSUME pc' \in [Transfer -> PC], Gated,
         \A u \in Transfer : \/ pc'[u] = pc[u]
                             \/ /\ pc[u] \notin {"debit", "done"}
                                /\ pc'[u] \notin {"debit", "done"}
                                /\ pc[u] \in Limiting <=> pc'[u] \in Limiting
  PROVE  CountedIn' = CountedIn /\ PastLane' = PastLane /\ InFlight' = InFlight
<1>1. Priority \subseteq Transfer
  BY AdmissionAssumption
<1>2. \A u \in Transfer : /\ pc[u] = "debit" <=> pc'[u] = "debit"
                          /\ pc[u] \in {"debit", "done"} <=> pc'[u] \in {"debit", "done"}
                          /\ pc[u] \in Limiting <=> pc'[u] \in Limiting
  OBVIOUS
<1> QED
  BY <1>1, <1>2 DEF CountedIn, PastLane, InFlight

-----------------------------------------------------------------------------
(* The gate, the guard and those who pause and resume *)

\* Looking at the pause gate and waiting there.
LEMMA GateSafe ==
  ASSUME IInv, NEW t \in Transfer,
         \/ LoadPaused(t) \/ Park(t) \/ SwapGuard(t) \/ AskPaused(t) \/ Trip(t)
  PROVE  IInv'
<1>1. UNCHANGED <<space, holders, waiting, envVars>>
  BY DEF LoadPaused, Park, SwapGuard, AskPaused, Trip
<1>2. PICK to \in {"gate", "parking", "parked", "permit", "check", "ask", "trip"} :
        /\ pc' = [pc EXCEPT ![t] = to]
        /\ pc[t] \in {"gate", "parking", "swap", "ask", "trip"}
        /\ to \in {"check", "ask", "trip"} => t \in holders
  BY DEF LoadPaused, Park, SwapGuard, AskPaused, Trip, Goto, Passed, IInv, Gated
<1>3. paused' \in BOOLEAN /\ guardPaused' \in BOOLEAN
  BY DEF LoadPaused, Park, SwapGuard, AskPaused, Trip, gateVars, IInv, Types
<1>4. pc' \in [Transfer -> PC]
  BY <1>2 DEF IInv, Types, PC
<1>5. Types'
  BY <1>1, <1>3, <1>4 DEF IInv, Types, space, envVars
<1>6. Gated'
  BY <1>1, <1>2 DEF IInv, Types, Gated, Limiting
<1>7. CountedIn' = CountedIn /\ PastLane' = PastLane /\ InFlight' = InFlight
  BY <1>2, <1>4, SameStages DEF IInv, Types, Limiting
<1> QED
  BY <1>1, <1>5, <1>6, <1>7, CalmSafe DEF IInv, Types, space, envVars

\* Waking those who wait.
LEMMA WakeSafe ==
  ASSUME IInv, Types, pc' = Wake \/ pc' = pc, UNCHANGED holders
  PROVE  /\ pc' \in [Transfer -> PC] /\ Gated'
         /\ CountedIn' = CountedIn /\ PastLane' = PastLane /\ InFlight' = InFlight
<1>1. \A u \in Transfer : \/ pc'[u] = pc[u]
                          \/ pc[u] = "parked" /\ pc'[u] = "gate"
  BY DEF Wake
<1>2. pc' \in [Transfer -> PC]
  BY DEF Wake, Types, PC
<1>3. Gated'
  BY <1>1 DEF IInv, Gated, Limiting
<1> QED
  BY <1>1, <1>2, <1>3, SameStages DEF IInv, Limiting

\* Operator and prober.
LEMMA ControlSafe ==
  ASSUME IInv, Prober \/ Pause \/ Resume \/ OperatorNotify
  PROVE  IInv'
<1>1. /\ UNCHANGED <<space, holders, waiting, freed, aborts>>
      /\ pc' = Wake \/ pc' = pc
  BY DEF Prober, ProberTick, ProberProbe, ProberClear, ProberResume, ProberNotify,
         ProberStep, Pause, Resume, OperatorNotify
<1>2. /\ paused' \in BOOLEAN /\ guardPaused' \in BOOLEAN /\ held' \in BOOLEAN
      /\ operator' \in {"idle", "notify"}
      /\ prober' \in {"idle", "probe", "clear", "resume", "notify"}
  BY DEF Prober, ProberTick, ProberProbe, ProberClear, ProberResume, ProberNotify,
         ProberStep, Pause, Resume, OperatorNotify, gateVars, IInv, Types
<1>3. commands' \in 0 .. MaxCommands
  BY AdmissionAssumption
     DEF Prober, ProberTick, ProberProbe, ProberClear, ProberResume, ProberNotify,
         ProberStep, Pause, Resume, OperatorNotify, IInv, Types
<1>4. /\ pc' \in [Transfer -> PC] /\ Gated'
      /\ CountedIn' = CountedIn /\ PastLane' = PastLane /\ InFlight' = InFlight
  BY <1>1, WakeSafe DEF IInv
<1>5. Types'
  BY <1>1, <1>2, <1>3, <1>4 DEF IInv, Types, space
<1> QED
  BY <1>1, <1>4, <1>5, CalmSafe DEF IInv, Types, space

\* Users free space.
LEMMA FreedSafe ==
  ASSUME IInv, Freed
  PROVE  IInv'
<1>1. /\ UNCHANGED <<paused, guardPaused, taken, holders, waiting, pc, operator, prober,
                     held, commands, aborts>>
      /\ room' = room + 1 /\ freed' = freed + 1 /\ freed < MaxFreed
  BY DEF Freed, gateVars
<1>2. Types'
  BY <1>1, AdmissionAssumption DEF IInv, Types
<1>3. Gated'
  BY <1>1 DEF IInv, Gated
<1>4. CountedIn' = CountedIn /\ PastLane' = PastLane /\ InFlight' = InFlight
  BY <1>1 DEF CountedIn, PastLane, InFlight
<1> QED
  BY <1>1, <1>2, <1>3, <1>4, CalmSafe DEF IInv, Types

-----------------------------------------------------------------------------
(* Permits *)

\* A permit is taken only while one is left.
LEMMA TakePermitSafe ==
  ASSUME IInv, NEW t \in Transfer, TakePermit(t)
  PROVE  IInv'
<1>1. /\ UNCHANGED <<paused, guardPaused, room, taken, waiting, operator, prober, held,
                     commands, freed, aborts>>
      /\ pc[t] = "permit" /\ pc' = [pc EXCEPT ![t] = "check"]
      /\ Cardinality(holders) < Permits /\ holders' = holders \cup {t}
  BY DEF TakePermit, Goto, gateVars, space, envVars
<1>2. pc' \in [Transfer -> PC]
  BY <1>1 DEF IInv, Types, PC
<1>3. Types'
  BY <1>1, <1>2 DEF IInv, Types
<1>4. Gated'
  BY <1>1 DEF IInv, Types, Gated, Limiting
<1>5. CountedIn' = CountedIn /\ PastLane' = PastLane /\ InFlight' = InFlight
  BY <1>1, <1>2, SameStages DEF IInv, Types, Limiting
<1>6. Counted'
  BY <1>1, <1>5 DEF IInv, Counted
<1>7. Permitted'
  <2>1. Cardinality(holders') <= Permits
    <3>1. holders \subseteq Transfer
      BY DEF IInv, Types
    <3>2. Cardinality(holders) \in Nat
      BY <3>1, Countable
    <3>3. Cardinality(holders \cup {t}) =
            IF t \in holders THEN Cardinality(holders) ELSE Cardinality(holders) + 1
      BY <3>1, Count
    <3> QED
      BY <1>1, <3>2, <3>3, AdmissionAssumption
  <2>2. InFlight' \ holders' \subseteq InFlight \ holders /\ InFlight \subseteq Transfer
    BY <1>1, <1>5 DEF InFlight
  <2>3. Cardinality(InFlight' \ holders') <= Cardinality(InFlight \ holders)
    BY <2>2, Count
  <2>4. Cardinality(InFlight' \ holders') \in Nat /\ Cardinality(InFlight \ holders) \in Nat
    BY <2>2, Countable
  <2> QED
    BY <1>1, <2>1, <2>3, <2>4 DEF IInv, Types, Permitted
<1>8. Cushion'
  BY <1>1, <1>3, <1>5, CushionKept DEF IInv, Types
<1> QED
  BY <1>3, <1>4, <1>6, <1>7, <1>8 DEF IInv

\* A set has no more members than those in H and those outside it.
LEMMA CountSplit ==
  ASSUME NEW S, S \subseteq Transfer, NEW H, H \subseteq Transfer
  PROVE  Cardinality(S) <= Cardinality(H) + Cardinality(S \ H)
<1>1. S \subseteq H \cup (S \ H)
  OBVIOUS
<1>2. /\ Cardinality(S) <= Cardinality(H \cup (S \ H))
      /\ Cardinality(H \cup (S \ H)) <= Cardinality(H) + Cardinality(S \ H)
  BY <1>1, Count
<1>3. /\ Cardinality(S) \in Nat /\ Cardinality(H) \in Nat /\ Cardinality(S \ H) \in Nat
      /\ Cardinality(H \cup (S \ H)) \in Nat
  BY <1>1, Countable
<1> QED
  BY <1>2, <1>3

\* The guard admits a transfer that finds its space, whatever else is in flight.
LEMMA CheckSpaceSafe ==
  ASSUME IInv, NEW t \in Transfer, CheckSpace(t)
  PROVE  IInv'
<1>1. /\ UNCHANGED <<paused, guardPaused, room, taken, holders, waiting, operator, prober,
                     held, commands, freed, aborts>>
      /\ pc[t] = "check" /\ pc' = [pc EXCEPT ![t] = IF room >= Need[t] THEN "lane" ELSE "swap"]
  BY DEF CheckSpace, FreeSpaceOk, Goto, gateVars, space, envVars
<1>2. pc' \in [Transfer -> PC]
  BY <1>1 DEF IInv, Types, PC
<1>3. Types'
  BY <1>1, <1>2 DEF IInv, Types
<1>4. t \in holders /\ t \notin Session
  BY <1>1 DEF IInv, Gated, Limiting
<1>5. Gated'
  BY <1>1, <1>4 DEF IInv, Types, Gated, Limiting
<1>6. CASE ~(room >= Need[t])
  <2>1. CountedIn' = CountedIn /\ PastLane' = PastLane /\ InFlight' = InFlight
    BY <1>1, <1>2, <1>6, SameStages DEF IInv, Types, Limiting
  <2> QED
    BY <1>1, <1>3, <1>5, <2>1, CalmSafe DEF IInv, Types
<1>7. CASE room >= Need[t]
  <2>1. CountedIn' = CountedIn /\ PastLane' = PastLane /\ InFlight' = InFlight \cup {t}
    BY <1>1, <1>4, <1>7, AdmissionAssumption
       DEF IInv, Types, CountedIn, PastLane, InFlight, Limiting
  <2>2. Counted'
    BY <1>1, <2>1 DEF IInv, Counted
  <2>3. Permitted'
    <3>1. InFlight' \ holders' = InFlight \ holders
      BY <1>1, <1>4, <2>1
    <3> QED
      BY <1>1, <3>1 DEF IInv, Permitted
  <2>4. Cardinality(InFlight') \in Nat /\ Cardinality(InFlight') <= Permits + aborts'
    <3>1. InFlight' \subseteq Transfer /\ holders' \subseteq Transfer
      BY <1>3 DEF InFlight, Types
    <3>2. Cardinality(InFlight') <= Cardinality(holders') + Cardinality(InFlight' \ holders')
      BY <3>1, CountSplit
    <3>3. /\ Cardinality(InFlight') \in Nat /\ Cardinality(holders') \in Nat
          /\ Cardinality(InFlight' \ holders') \in Nat
      BY <3>1, Countable
    <3> QED
      BY <1>3, <2>3, <3>2, <3>3, AdmissionAssumption DEF Types, Permitted
  <2>5. Below(Cardinality(InFlight'), aborts') <= 0 /\ Below(Cardinality(InFlight'), aborts') \in Int
    <3>1. Cardinality(InFlight') - Permits - aborts' \in Int
          /\ Cardinality(InFlight') - Permits - aborts' <= 0
      BY <1>3, <2>4, AdmissionAssumption DEF Types
    <3>2. 0 * Largest = 0
      BY AdmissionAssumption
    <3> QED
      BY <3>1, <3>2, Multiples DEF Below
  <2>6. t \in InFlight' /\ room' + taken' >= Need[t] + Below(Cardinality(InFlight'), aborts')
    <3>1. Need[t] \in Int
      BY AdmissionAssumption
    <3> QED
      BY <1>1, <1>7, <2>1, <2>5, <3>1 DEF IInv, Types
  <2>7. Cushion'
    BY <2>6 DEF Cushion
  <2> QED
    BY <1>3, <1>5, <2>2, <2>3, <2>7 DEF IInv
<1> QED
  BY <1>6, <1>7

-----------------------------------------------------------------------------
(* The limiter *)

\* Bulk transfers yield in the limiter.
LEMMA YieldSafe ==
  ASSUME IInv, NEW t \in Transfer, Yield(t) \/ NotifyBulk(t)
  PROVE  IInv'
<1>1. UNCHANGED <<paused, guardPaused, room, taken, holders, waiting, operator, prober,
                  held, commands, freed, aborts>>
  BY DEF Yield, NotifyBulk, gateVars, space, envVars
<1>2. pc' \in [Transfer -> PC]
  BY DEF Yield, NotifyBulk, Goto, IInv, Types, PC
<1>3. \A u \in Transfer : \/ pc'[u] = pc[u]
                          \/ /\ pc[u] \in {"yielding", "yielded", "release"}
                             /\ pc'[u] \in {"yielded", "lane", "run"}
  BY DEF Yield, NotifyBulk, Goto, IInv, Types
<1>4. Types'
  BY <1>1, <1>2 DEF IInv, Types
<1>5. Gated'
  BY <1>1, <1>3 DEF IInv, Gated, Limiting
<1>6. CountedIn' = CountedIn /\ PastLane' = PastLane /\ InFlight' = InFlight
  BY <1>2, <1>3, SameStages DEF IInv, Limiting
<1> QED
  BY <1>1, <1>4, <1>5, <1>6, CalmSafe DEF IInv, Types

\* priority_waiting goes up with the set it counts.
LEMMA EnterLaneSafe ==
  ASSUME IInv, NEW t \in Transfer, EnterLane(t)
  PROVE  IInv'
<1>1. /\ UNCHANGED <<paused, guardPaused, room, taken, holders, operator, prober, held,
                     commands, freed, aborts>>
      /\ pc[t] = "lane"
  BY DEF EnterLane, Goto, gateVars, space, envVars
<1>2. PICK to \in {"debit", "yielding"} : pc' = [pc EXCEPT ![t] = to]
  BY DEF EnterLane, Goto
<1>3. pc' \in [Transfer -> PC] /\ waiting' \in Nat
  BY <1>2 DEF EnterLane, IInv, Types, PC
<1>4. Types'
  BY <1>1, <1>3 DEF IInv, Types
<1>5. Gated'
  BY <1>1, <1>2 DEF IInv, Types, Gated, Limiting
<1>6. InFlight' = InFlight
  BY <1>1, <1>2 DEF IInv, Types, InFlight, Limiting
<1>7. Permitted' /\ Cushion'
  BY <1>1, <1>4, <1>6, CushionKept DEF IInv, Types, Permitted
<1>8. Counted'
  <2>1. CASE t \in Priority
    <3>1. waiting' = waiting + 1 /\ pc' = [pc EXCEPT ![t] = "debit"]
      BY <2>1 DEF EnterLane, Goto
    <3>2. /\ CountedIn' = CountedIn \cup {t} /\ t \notin CountedIn
          /\ PastLane' = PastLane \cup {t} /\ t \notin PastLane
      BY <1>1, <2>1, <3>1, AdmissionAssumption DEF IInv, Types, CountedIn, PastLane
    <3>3. CountedIn \subseteq Transfer /\ PastLane \subseteq Transfer
      BY AdmissionAssumption DEF CountedIn, PastLane
    <3>4. /\ Cardinality(CountedIn \cup {t}) = Cardinality(CountedIn) + 1
          /\ Cardinality(PastLane \cup {t}) = Cardinality(PastLane) + 1
          /\ Cardinality(CountedIn) \in Nat /\ Cardinality(PastLane) \in Nat
      BY <3>2, <3>3, Count, Countable
    <3> QED
      BY <1>1, <3>1, <3>2, <3>4 DEF IInv, Types, Counted
  <2>2. CASE t \notin Priority
    <3>1. waiting' = waiting
      BY <2>2 DEF EnterLane
    <3>2. CountedIn' = CountedIn /\ PastLane' = PastLane
      BY <1>2, <2>2, AdmissionAssumption DEF IInv, Types, CountedIn, PastLane
    <3> QED
      BY <1>1, <3>1, <3>2 DEF IInv, Counted
  <2> QED
    BY <2>1, <2>2
<1> QED
  BY <1>4, <1>5, <1>7, <1>8 DEF IInv

\* ... and down with it, so it never wraps around.
LEMMA DebitedSafe ==
  ASSUME IInv, NEW t \in Transfer, Debited(t)
  PROVE  IInv'
<1>1. /\ UNCHANGED <<paused, guardPaused, room, taken, holders, operator, prober, held,
                     commands, freed, aborts>>
      /\ pc[t] = "debit"
      /\ waiting' = IF t \in Priority THEN waiting - 1 ELSE waiting
  BY DEF Debited, Goto, gateVars, space, envVars
<1>2. PICK to \in {"release", "run"} : pc' = [pc EXCEPT ![t] = to]
  BY DEF Debited, Goto
<1>3. pc' \in [Transfer -> PC]
  BY <1>2 DEF IInv, Types, PC
<1>5. Gated'
  BY <1>1, <1>2 DEF IInv, Types, Gated, Limiting
<1>6. InFlight' = InFlight
  BY <1>1, <1>2 DEF IInv, Types, InFlight, Limiting
<1>8. Counted' /\ waiting' \in Nat
  <2>1. CASE t \in Priority
    <3>2. /\ CountedIn' = CountedIn \ {t} /\ t \in CountedIn
          /\ PastLane' = PastLane \ {t} /\ t \in PastLane
      BY <1>1, <1>2, <2>1, AdmissionAssumption DEF IInv, Types, CountedIn, PastLane
    <3>3. CountedIn \subseteq Transfer /\ PastLane \subseteq Transfer
      BY AdmissionAssumption DEF CountedIn, PastLane
    <3>4. /\ Cardinality(CountedIn \ {t}) = Cardinality(CountedIn) - 1
          /\ Cardinality(PastLane \ {t}) = Cardinality(PastLane) - 1
          /\ Cardinality(CountedIn) \in Nat /\ Cardinality(PastLane) \in Nat
          /\ Cardinality(CountedIn \ {t}) \in Nat
      BY <3>2, <3>3, Count, Countable
    <3> QED
      BY <1>1, <2>1, <3>2, <3>4 DEF IInv, Types, Counted
  <2>2. CASE t \notin Priority
    <3>2. CountedIn' = CountedIn /\ PastLane' = PastLane
      BY <1>2, <2>2, AdmissionAssumption DEF IInv, Types, CountedIn, PastLane
    <3> QED
      BY <1>1, <2>2, <3>2 DEF IInv, Types, Counted
  <2> QED
    BY <2>1, <2>2
<1>4. Types'
  BY <1>1, <1>3, <1>8 DEF IInv, Types
<1>7. Permitted' /\ Cushion'
  BY <1>1, <1>4, <1>6, CushionKept DEF IInv, Types, Permitted
<1> QED
  BY <1>4, <1>5, <1>7, <1>8 DEF IInv

-----------------------------------------------------------------------------
(* The end of a transfer *)

\* One less in flight: what it takes is within what was kept for it.
LEMMA LeaveSafe ==
  ASSUME IInv, NEW t \in InFlight, InFlight' = InFlight \ {t}, aborts' = aborts,
         room' \in Int, taken' \in Nat, room' + taken' >= room + taken - Need[t]
  PROVE  Cushion'
<1> DEFINE k == Cardinality(InFlight)
<1>1. InFlight \subseteq Transfer /\ t \in Transfer
  BY DEF InFlight
<1>2. k \in Nat /\ Cardinality(InFlight') = k - 1
  BY <1>1, Count, Countable
<1>3. /\ Need[t] \in Nat /\ Need[t] <= Largest /\ Largest \in Nat
      /\ \A u \in InFlight : Need[u] \in Nat
  BY <1>1, AdmissionAssumption
<1> DEFINE lo == Below(k - 1, aborts)
<1>4. /\ lo \in Int /\ Below(k, aborts) = lo + Largest
      /\ Below(k + 1, aborts) = lo + Largest + Largest
      /\ Below(Cardinality(InFlight'), aborts') = lo
      /\ Below(Cardinality(InFlight') + 1, aborts') = lo + Largest
  <2>1. aborts \in Int
    BY DEF IInv, Types
  <2>2. k - 1 \in Int /\ k \in Int /\ (k - 1) + 1 = k
    BY <1>2
  <2> HIDE DEF k
  <2>3. /\ Below(k - 1, aborts) \in Int
        /\ Below((k - 1) + 1, aborts) = Below(k - 1, aborts) + Largest
        /\ Below(k + 1, aborts) = Below(k, aborts) + Largest
    BY <2>1, <2>2, BelowSteps
  <2> QED
    BY <1>2, <2>2, <2>3
<1> DEFINE x == room + taken
           y == room' + taken'
<1>5. x \in Int /\ y \in Int /\ y >= x - Need[t]
  BY <1>3 DEF IInv, Types
<1> HIDE DEF k, lo, x, y
<1>6. CASE x >= Below(k + 1, aborts)
  <2>1. y >= lo + Largest
    BY <1>3, <1>4, <1>5, <1>6
  <2> QED
    BY <1>4, <2>1 DEF Cushion, y
<1>7. ASSUME NEW u \in InFlight, x >= Need[u] + Below(k, aborts) PROVE Cushion'
  <2>1. CASE u = t
    <3>1. y >= lo + Largest
      BY <1>3, <1>4, <1>5, <1>7, <2>1
    <3> QED
      BY <1>4, <3>1 DEF Cushion, y
  <2>2. CASE u # t
    <3>1. y >= Need[u] + lo
      BY <1>3, <1>4, <1>5, <1>7
    <3> QED
      BY <1>4, <2>2, <3>1 DEF Cushion, y
  <2> QED
    BY <2>1, <2>2
<1> QED
  BY <1>6, <1>7 DEF IInv, Cushion, k, x

\* A transfer writes at most what it needs and leaves the flight.
LEMMA FinishSafe ==
  ASSUME IInv, NEW t \in Transfer, Finish(t)
  PROVE  IInv'
<1>1. /\ UNCHANGED <<paused, guardPaused, waiting, operator, prober, held, commands,
                     freed, aborts>>
      /\ pc[t] = "run" /\ pc' = [pc EXCEPT ![t] = "done"]
      /\ room' = room - Need[t] /\ holders' = holders \ {t}
      /\ taken' = IF t \in Session THEN taken + Need[t] ELSE taken
  BY DEF Finish, Goto, gateVars, envVars
<1>2. pc' \in [Transfer -> PC]
  BY <1>1 DEF IInv, Types, PC
<1>3. Need[t] \in Nat
  BY AdmissionAssumption
<1>4. Types'
  BY <1>1, <1>2, <1>3 DEF IInv, Types
<1>5. Gated'
  BY <1>1 DEF IInv, Types, Gated
<1>6. CountedIn' = CountedIn /\ PastLane \subseteq PastLane'
  BY <1>1, AdmissionAssumption DEF IInv, Types, CountedIn, PastLane
<1>7. Counted'
  <2>1. PastLane \subseteq Transfer /\ PastLane' \subseteq Transfer
    BY AdmissionAssumption DEF PastLane
  <2>2. /\ Cardinality(PastLane) <= Cardinality(PastLane')
        /\ Cardinality(PastLane) \in Nat /\ Cardinality(PastLane') \in Nat
    BY <1>6, <2>1, Count, Countable
  <2> QED
    BY <1>1, <1>6, <2>2 DEF IInv, Types, Counted
<1>8. InFlight' = InFlight \ {t}
  BY <1>1 DEF IInv, Types, InFlight, Limiting
<1>9. Permitted'
  <2>1. /\ holders' \subseteq holders /\ holders \subseteq Transfer
        /\ InFlight' \ holders' \subseteq InFlight \ holders
        /\ InFlight \subseteq Transfer
    BY <1>1, <1>8 DEF IInv, Types, InFlight
  <2>2. /\ Cardinality(holders') <= Cardinality(holders)
        /\ Cardinality(InFlight' \ holders') <= Cardinality(InFlight \ holders)
    BY <2>1, Count
  <2>3. /\ Cardinality(holders') \in Nat /\ Cardinality(holders) \in Nat
        /\ Cardinality(InFlight' \ holders') \in Nat
        /\ Cardinality(InFlight \ holders) \in Nat
    BY <2>1, Countable
  <2> QED
    BY <1>1, <2>2, <2>3, AdmissionAssumption DEF IInv, Types, Permitted
<1>10. Cushion'
  <2>1. CASE t \in Session
    <3>1. InFlight' = InFlight
      BY <1>8, <2>1 DEF InFlight
    <3>2. room' + taken' >= room + taken
      BY <1>1, <1>3, <2>1 DEF IInv, Types
    <3> QED
      BY <1>1, <1>4, <3>1, <3>2, CushionKept
  <2>2. CASE t \notin Session
    <3>1. t \in InFlight
      BY <1>1, <2>2 DEF InFlight, Limiting
    <3>2. room' \in Int /\ taken' \in Nat /\ room' + taken' >= room + taken - Need[t]
      BY <1>1, <1>3, <1>4, <2>2 DEF IInv, Types
    <3> QED
      BY <1>1, <1>8, <3>1, <3>2, LeaveSafe
  <2> QED
    BY <2>1, <2>2
<1> QED
  BY <1>4, <1>5, <1>7, <1>9, <1>10 DEF IInv

\* An abort adds one to those who may be in flight without a permit.
LEMMA AbortCushion ==
  ASSUME IInv, aborts' = aborts + 1, room' = room, taken' = taken,
         \/ InFlight' = InFlight
         \/ \E t \in InFlight : InFlight' = InFlight \ {t}
  PROVE  Cushion'
<1> DEFINE k == Cardinality(InFlight)
           m == Cardinality(InFlight')
           x == room + taken
           lo == Below(k, aborts)
<1>1. InFlight \subseteq Transfer
  BY DEF InFlight
<1>2. k \in Nat /\ aborts \in Nat /\ x \in Int
  BY <1>1, Countable DEF IInv, Types
<1>3. Largest \in Nat /\ \A u \in InFlight : Need[u] \in Nat /\ Need[u] <= Largest
  BY <1>1, AdmissionAssumption
<1>4. /\ lo \in Int /\ Below(k + 1, aborts) = lo + Largest
      /\ Below(k, aborts + 1) = lo - Largest
      /\ Below(k + 1, aborts + 1) = lo
  <2>1. k \in Int /\ k + 1 \in Int /\ aborts \in Int
    BY <1>2
  <2> HIDE DEF k
  <2>2. /\ Below(k, aborts) \in Int
        /\ Below(k + 1, aborts) = Below(k, aborts) + Largest
        /\ Below(k, aborts + 1) = Below(k, aborts) - Largest
    BY <2>1, BelowSteps
  <2>3. Below(k + 1, aborts + 1) = Below(k + 1, aborts) - Largest
    BY <2>1, BelowSteps
  <2> QED
    BY <1>3, <2>2, <2>3
<1>5. CASE InFlight' = InFlight
  <2>1. m = k
    BY <1>5
  <2> HIDE DEF k, m, x, lo
  <2>2. CASE x >= Below(k + 1, aborts)
    <3>1. x >= Below(m + 1, aborts')
      BY <1>2, <1>3, <1>4, <2>1, <2>2
    <3> QED
      BY <3>1 DEF Cushion, x, m
  <2>3. ASSUME NEW u \in InFlight, x >= Need[u] + Below(k, aborts) PROVE Cushion'
    <3>0. Below(m, aborts') = lo - Largest /\ x >= Need[u] + lo
      BY <1>4, <2>1, <2>3 DEF lo
    <3>1. x >= Need[u] + Below(m, aborts')
      BY <1>2, <1>3, <1>4, <3>0
    <3> QED
      BY <1>5, <3>1 DEF Cushion, x, m
  <2> QED
    BY <2>2, <2>3 DEF IInv, Cushion, k, x
<1>6. ASSUME NEW t \in InFlight, InFlight' = InFlight \ {t} PROVE Cushion'
  <2>1. m = k - 1
    BY <1>1, <1>6, Count
  <2>2. m + 1 = k /\ Below(m + 1, aborts') = lo - Largest
    BY <1>2, <1>4, <2>1
  <2>3. x >= lo - Largest
    <3> HIDE DEF k, m, x, lo
    <3>1. CASE x >= Below(k + 1, aborts)
      BY <1>2, <1>3, <1>4, <3>1
    <3>2. ASSUME NEW u \in InFlight, x >= Need[u] + lo PROVE x >= lo - Largest
      BY <1>2, <1>3, <1>4, <3>2
    <3> QED
      BY <3>1, <3>2 DEF IInv, Cushion, k, x, lo
  <2> HIDE DEF k, lo
  <2> QED
    BY <2>2, <2>3 DEF Cushion
<1> QED
  BY <1>5, <1>6

\* An aborted task gives its permit back while its write goes on.
LEMMA AbortSafe ==
  ASSUME IInv, NEW t \in Transfer, Abort(t)
  PROVE  IInv'
<1>1. /\ UNCHANGED <<paused, guardPaused, room, taken, waiting, operator, prober, held,
                     commands, freed>>
      /\ aborts < MaxAborts /\ aborts' = aborts + 1
      /\ holders' = holders \ {t}
      /\ pc[t] \in {"parked", "permit", "yielded", "debit", "run"}
      /\ pc' = pc \/ pc' = [pc EXCEPT ![t] = "done"]
      /\ pc' = pc => pc[t] = "run"
  BY DEF Abort, gateVars, space, IInv, Types
<1>2. pc' \in [Transfer -> PC]
  BY <1>1 DEF IInv, Types, PC
<1>3. aborts' \in 0 .. MaxAborts /\ aborts \in Nat
  BY <1>1, AdmissionAssumption DEF IInv, Types
<1>4. Types'
  BY <1>1, <1>2, <1>3 DEF IInv, Types
<1>5. Gated'
  BY <1>1 DEF IInv, Types, Gated
<1>6. Counted'
  <2>1. /\ CountedIn' = CountedIn \/ CountedIn' = CountedIn \ {t}
        /\ PastLane \subseteq PastLane'
        /\ CountedIn \subseteq Transfer /\ PastLane \subseteq Transfer
        /\ CountedIn' \subseteq Transfer /\ PastLane' \subseteq Transfer
    BY <1>1, AdmissionAssumption DEF IInv, Types, CountedIn, PastLane
  <2>2. /\ Cardinality(CountedIn') \in Nat /\ Cardinality(CountedIn) \in Nat
        /\ Cardinality(PastLane) \in Nat /\ Cardinality(PastLane') \in Nat
    BY <2>1, Countable
  <2>3. /\ Cardinality(CountedIn') <= Cardinality(CountedIn)
        /\ Cardinality(CountedIn) <= Cardinality(CountedIn') + 1
        /\ Cardinality(PastLane) <= Cardinality(PastLane')
    <3>1. Cardinality(CountedIn \ {t}) = IF t \in CountedIn THEN Cardinality(CountedIn) - 1
                                        ELSE Cardinality(CountedIn)
      BY <2>1, Count
    <3>2. Cardinality(PastLane) <= Cardinality(PastLane')
      BY <2>1, Count
    <3> QED
      BY <2>1, <2>2, <3>1, <3>2
  <2> QED
    BY <1>1, <1>3, <2>2, <2>3 DEF IInv, Types, Counted
<1>7. \/ InFlight' = InFlight
      \/ t \in InFlight /\ InFlight' = InFlight \ {t}
  BY <1>1 DEF IInv, Types, InFlight, Limiting
<1>8. Permitted'
  <2>1. /\ holders' \subseteq holders /\ holders \subseteq Transfer
        /\ InFlight' \ holders' \subseteq (InFlight \ holders) \cup {t}
        /\ InFlight \ holders \subseteq Transfer
    BY <1>1, <1>7 DEF IInv, Types, InFlight
  <2>2. /\ Cardinality(holders') <= Cardinality(holders)
        /\ Cardinality(InFlight' \ holders') <= Cardinality((InFlight \ holders) \cup {t})
    <3>1. (InFlight \ holders) \cup {t} \subseteq Transfer
      BY <2>1
    <3> QED
      BY <2>1, <3>1, Count
  <2>3. /\ Cardinality(holders') \in Nat /\ Cardinality(holders) \in Nat
        /\ Cardinality(InFlight' \ holders') \in Nat
        /\ Cardinality(InFlight \ holders) \in Nat
    BY <2>1, Countable
  <2>4. Cardinality((InFlight \ holders) \cup {t}) =
          IF t \in InFlight \ holders THEN Cardinality(InFlight \ holders)
          ELSE Cardinality(InFlight \ holders) + 1
    BY <2>1, Count
  <2> QED
    BY <1>1, <1>3, <2>2, <2>3, <2>4, AdmissionAssumption DEF IInv, Permitted
<1>9. Cushion'
  BY <1>1, <1>7, AbortCushion
<1> QED
  BY <1>4, <1>5, <1>6, <1>8, <1>9 DEF IInv

-----------------------------------------------------------------------------
(* The theorems *)

\* Nobody is in flight at the start but sessions.
LEMMA InitSafe == Init => IInv
<1> SUFFICES ASSUME Init PROVE IInv
  OBVIOUS
<1>1. Types
  <2>1. MaxCommands \in Nat /\ MaxFreed \in Nat /\ MaxAborts \in Nat /\ Room \in Int
    BY AdmissionAssumption
  <2>2. pc \in [Transfer -> PC]
    BY DEF Init, PC
  <2>3. paused \in BOOLEAN /\ guardPaused \in BOOLEAN /\ held \in BOOLEAN
    BY Zenon DEF Init
  <2>4. /\ room \in Int /\ taken \in Nat /\ waiting \in Nat /\ commands \in 0 .. MaxCommands
        /\ freed \in 0 .. MaxFreed /\ aborts \in 0 .. MaxAborts /\ holders \subseteq Transfer
        /\ operator = "idle" /\ prober = "idle"
    BY <2>1 DEF Init
  <2> QED
    BY <2>2, <2>3, <2>4 DEF Types
<1>2. Gated
  BY AdmissionAssumption DEF Init, Gated, Limiting
<1>3. CountedIn = {} /\ PastLane = {} /\ InFlight = {}
  BY AdmissionAssumption DEF Init, CountedIn, PastLane, InFlight, Limiting
<1>4. Cardinality({}) = 0
  BY FS_EmptySet
<1>5. Counted /\ Permitted
  BY <1>3, <1>4, AdmissionAssumption DEF Init, Counted, Permitted
<1>6. Cushion
  <2>1. 1 - Permits - 0 \in Int /\ 1 - Permits - 0 <= 0 /\ 0 * Largest = 0
    BY AdmissionAssumption
  <2>2. (1 - Permits - 0) * Largest <= 0 /\ (1 - Permits - 0) * Largest \in Int
    BY <2>1, Multiples
  <2>3. Below(0 + 1, 0) <= 0 /\ Below(0 + 1, 0) \in Int
    BY <2>2, AdmissionAssumption DEF Below
  <2>4. Room + 0 >= Below(0 + 1, 0)
    BY <2>3, AdmissionAssumption
  <2> QED
    BY <1>3, <1>4, <2>4 DEF Init, Cushion
<1> QED
  BY <1>1, <1>2, <1>5, <1>6 DEF IInv

\* Every step keeps the invariant.
LEMMA NextSafe ==
  ASSUME IInv, [Next]_vars
  PROVE  IInv'
<1>1. CASE UNCHANGED vars
  <2>1. Types' /\ Gated'
    BY <1>1 DEF vars, IInv, Types, Gated
  <2>2. CountedIn' = CountedIn /\ PastLane' = PastLane /\ InFlight' = InFlight
    BY <1>1 DEF vars, CountedIn, PastLane, InFlight
  <2> QED
    BY <1>1, <2>1, <2>2, CalmSafe DEF vars, IInv, Types
<1>2. ASSUME NEW t \in Transfer, Step(t) PROVE IInv'
  BY <1>2, GateSafe, TakePermitSafe, CheckSpaceSafe, EnterLaneSafe, YieldSafe, DebitedSafe,
     FinishSafe DEF Step
<1>3. ASSUME NEW t \in Transfer, Abort(t) PROVE IInv'
  BY <1>3, AbortSafe
<1>4. CASE Prober \/ Pause \/ Resume \/ OperatorNotify
  BY <1>4, ControlSafe
<1>5. CASE Freed
  BY <1>5, FreedSafe
<1> QED
  BY <1>1, <1>2, <1>3, <1>4, <1>5 DEF Next

\* Permits, priority_waiting and the space of those in flight stay accounted
\* for through every step of materialize, the limiter, the operator and the
\* prober.
THEOREM Invariance == Spec => []IInv
<1>1. Init => IInv
  BY InitSafe
<1>2. IInv /\ [Next]_vars => IInv'
  BY NextSafe
<1> QED
  BY <1>1, <1>2, PTL DEF Spec

\* No variable leaves its type: at most Permits transfers hold a permit, and
\* priority_waiting, an unsigned counter that aborts leave too high, never
\* wraps below zero or exceeds the number of Priority transfers.
THEOREM TypeCorrect == Spec => []TypeOK
<1>1. ASSUME IInv PROVE TypeOK
  <2>1. PastLane \subseteq Priority /\ Priority \subseteq Transfer /\ PastLane \subseteq Transfer
    BY AdmissionAssumption DEF PastLane
  <2>2. /\ Cardinality(PastLane) <= Cardinality(Priority)
        /\ Cardinality(PastLane) \in Nat /\ Cardinality(Priority) \in Nat
    BY <2>1, Count, Countable
  <2>3. waiting \in 0 .. Cardinality(Priority)
    BY <1>1, <2>2 DEF IInv, Types, Counted
  <2> QED
    BY <1>1, <2>3 DEF IInv, Types, Permitted, TypeOK, PC
<1> QED
  BY <1>1, Invariance, PTL

\* guard_free_space lets the reserve be undershot by at most one transfer for
\* each permit but one and for each aborted task, whatever the number of
\* transfers and however their checks, writes, pauses and aborts interleave.
THEOREM GuardBoundsOvershoot == Spec => []OvershootBounded
<1>1. ASSUME IInv PROVE OvershootBounded
  <2> DEFINE k == Cardinality(InFlight)
             lo == (1 - Permits - aborts) * Largest
  <2>1. InFlight \subseteq Transfer
    BY DEF InFlight
  <2>2. k \in Nat /\ (InFlight # {} => k # 0)
    BY <2>1, Countable, FS_EmptySet
  <2>3. aborts \in Nat /\ Permits \in Nat /\ Largest \in Nat /\ room + taken \in Int
    BY <1>1, AdmissionAssumption DEF IInv, Types
  <2> HIDE DEF k
  <2>4. /\ lo \in Int
        /\ \A i \in Nat : i >= 1 => lo <= Below(i, aborts) /\ Below(i, aborts) \in Int
    BY <2>3, Multiples DEF Below
  <2>5. room + taken >= lo
    <3> HIDE DEF lo
    <3>1. CASE room + taken >= Below(k + 1, aborts)
      <4>1. lo <= Below(k + 1, aborts) /\ Below(k + 1, aborts) \in Int
        BY <2>2, <2>4
      <4> QED
        BY <2>3, <2>4, <3>1, <4>1
    <3>2. ASSUME NEW t \in InFlight, room + taken >= Need[t] + Below(k, aborts)
          PROVE  room + taken >= lo
      <4>1. lo <= Below(k, aborts) /\ Below(k, aborts) \in Int
        BY <2>2, <2>4
      <4>2. Need[t] \in Nat
        BY <2>1, AdmissionAssumption
      <4> QED
        BY <2>3, <2>4, <3>2, <4>1, <4>2
    <3> QED
      BY <1>1, <3>1, <3>2 DEF IInv, Cushion, k
  <2>6. (Permits - 1 + aborts) * Largest = 0 - lo
    BY <2>3
  <2> QED
    BY <2>3, <2>4, <2>5, <2>6 DEF OvershootBounded
<1> QED
  BY <1>1, Invariance, PTL

\* Bulk yields to real traffic only: beyond the Priority transfers that wait,
\* priority_waiting counts at most one for each aborted task, however the two
\* halves of Limiter::acquire interleave with aborts.
THEOREM PhantomsOnlyByAborts == Spec => []PhantomsBounded
<1>1. IInv => PhantomsBounded
  BY DEF IInv, Counted, PhantomsBounded
<1> QED
  BY <1>1, Invariance, PTL

=============================================================================
