------------------------------- MODULE Delivery -------------------------------
(***************************************************************************)
(* What the op stream promises to one subscriber (src/net.rs, the crash    *)
(* table of subscription_io): an origin's ops become the subscriber's in   *)
(* order and without a gap, the origin never believes more than that, and  *)
(* neither a crash nor a lost connection takes any of it back.             *)
(***************************************************************************)
EXTENDS Naturals

CONSTANTS Origin,
          MaxSeq         \* bound: MaxSeq[o], ops that o appends

VARIABLES log,           \* log[o]: the ops of o are 1 .. log[o]
          got,           \* got[o]: the ops of o the subscriber has durably
          acked,         \* acked[o]: the last op that o knows it has
          linked         \* the origins it is meant to be connected to

vars == <<log, got, acked, linked>>

Init == /\ log = [o \in Origin |-> 0] /\ acked = log
        /\ got = [o \in Origin |-> {}]
        /\ linked \in SUBSET Origin

Append(o) == /\ log[o] < MaxSeq[o]
             /\ log' = [log EXCEPT ![o] = @ + 1]
             /\ UNCHANGED <<got, acked, linked>>

\* One op from the stream, or several at once through a gate.
Handle(o) == \E n \in 1 .. log[o] : /\ o \in linked
                                    /\ got[o] \subseteq 1 .. n /\ n \notin got[o]
                                    /\ got' = [got EXCEPT ![o] = 1 .. n]
                                    /\ UNCHANGED <<log, acked, linked>>

Learn(o) == \E n \in got[o] : /\ n > acked[o]
                              /\ acked' = [acked EXCEPT ![o] = n]
                              /\ UNCHANGED <<log, got, linked>>

\* Operators add and remove origins.
Relink == /\ linked' \in SUBSET Origin
          /\ UNCHANGED <<log, got, acked>>

Next == \/ \E o \in Origin : Append(o) \/ Handle(o) \/ Learn(o)
        \/ Relink

\* The order of delivery, and that it goes on while the origin is linked.
InOrder == Init /\ [][Next]_vars
GoesOn == \A o \in Origin : WF_vars(Handle(o))

Spec == InOrder /\ GoesOn

=============================================================================
