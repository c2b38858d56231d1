----------------------------- MODULE StreamProofs -----------------------------
(***************************************************************************)
(* What holds of the op stream for any number of peers, ops, faults and    *)
(* roster changes and any size of a batch.                                 *)
(*                                                                         *)
(* The properties of Stream speak of one end each.  They are inductive     *)
(* only with what ties the two ends of a connection together: which phases *)
(* of the two loops go with each other and with which frames on their way, *)
(* and, once the stream is open, that the durable cursor, the op in hand,  *)
(* the frames in flight, sent_frontier and the batch in memory are         *)
(* adjacent stretches of one ascending sequence of ops.                    *)
(***************************************************************************)
EXTENDS Stream, SequenceTheorems, TLAPS

Late == [acks : Seq(Frame), sent : Nat]

TypesAt(p) ==
  /\ log[p] \in Nat /\ acked[p] \in Nat /\ cursor[p] \in Nat
  /\ have[p] \in SUBSET Nat
  /\ sub[p] \in Sub /\ serve[p] \in Serve
  /\ up[p] \in Seq(Frame) /\ down[p] \in Seq(Frame)
  /\ late[p] \in SUBSET Late

Types ==
  /\ log \in [Peer -> Nat] /\ acked \in [Peer -> Nat] /\ cursor \in [Peer -> Nat]
  /\ have \in [Peer -> SUBSET Nat]
  /\ sub \in [Peer -> Sub] /\ serve \in [Peer -> Serve]
  /\ up \in [Peer -> Seq(Frame)] /\ down \in [Peer -> Seq(Frame)]
  /\ late \in [Peer -> SUBSET Late]

JoinTypes ==
  /\ expected \subseteq Peer /\ completed \subseteq Peer /\ unreachable \subseteq Peer
  /\ lifecycle \in Lifecycle /\ saved \in Lifecycle
  /\ faults \in Nat /\ changes \in Nat

Streaming(p) == serve[p].at \in {"query", "write", "sleep"}

\* The two ends agree on how far the connection has come.
Phases(p) ==
  \/ /\ sub[p].at = "backoff" /\ serve[p].at = "none"
     /\ up[p] = <<>> /\ down[p] = <<>>
  \/ /\ sub[p].at = "hello" /\ serve[p].at = "hello"
     /\ up[p] = <<Hello>> /\ down[p] = <<>>
  \/ /\ sub[p].at = "hello" /\ serve[p].at = "gate"
     /\ up[p] = <<>> /\ down[p] = <<HelloAck>>
  \/ /\ sub[p].at \in {"gate", "pull", "advance", "subscribe"}
     /\ serve[p].at = "gate"
     /\ up[p] = <<>> /\ down[p] = <<>>
  \/ /\ sub[p].at = "live" /\ serve[p].at = "gate"
     /\ up[p] = <<SubscribeOps(cursor[p])>> /\ down[p] = <<>>
  \/ /\ sub[p].at \in {"live", "op", "ack"} /\ Streaming(p)

\* What the subscriber has is a prefix of the log that reaches to the cursor,
\* or further when a gate was cut short after its pull.
Prefix(p) ==
  /\ acked[p] <= cursor[p]
  /\ \E k \in cursor[p] .. log[p] : have[p] = 1 .. k

\* No ack, current or late, tells of more than the durable cursor.
AcksBehind(p) ==
  /\ \A i \in 1 .. Len(up[p]) : up[p][i].seq <= cursor[p]
  /\ \A c \in late[p] : /\ c.acks # <<>>
                        /\ \A i \in 1 .. Len(c.acks) : c.acks[i].seq <= cursor[p]

\* The gate's snapshot is at least as new as all the subscriber has.
GateAhead(p) ==
  /\ sub[p].resume <= cursor[p]
  /\ sub[p].at = "pull" => /\ have[p] \subseteq 1 .. sub[p].frontier
                           /\ cursor[p] <= sub[p].frontier
                           /\ sub[p].frontier <= log[p]
  /\ sub[p].at = "advance" => /\ have[p] = 1 .. sub[p].frontier
                              /\ cursor[p] <= sub[p].frontier
                              /\ sub[p].frontier <= log[p]
  /\ sub[p].at = "subscribe" => sub[p].frontier = cursor[p]
  /\ sub[p].at \in {"subscribe", "live", "op", "ack"} => have[p] = 1 .. cursor[p]

\* The last op that has left the stream for the subscriber.
Taken(p) == IF sub[p].at = "op" THEN cursor[p] + 1 ELSE cursor[p]

\* Cursor, op in hand, frames in flight and batch are adjacent.
Adjacent(p) ==
  /\ sub[p].at = "op" => sub[p].op = cursor[p] + 1
  /\ sub[p].at = "ack" => sub[p].op = cursor[p]
  /\ Streaming(p) =>
       /\ \A i \in 1 .. Len(down[p]) : down[p][i].seq = Taken(p) + i
       /\ serve[p].pos = Taken(p) + Len(down[p])
       /\ serve[p].sent = serve[p].pos
       /\ \A i \in 1 .. Len(serve[p].batch) : serve[p].batch[i] = serve[p].pos + i
       /\ serve[p].pos + Len(serve[p].batch) <= log[p]
       /\ serve[p].at = "write" <=> serve[p].batch # <<>>

\* Only expected peers that answer are connected.
Dialled(p) == sub[p].at # "backoff" => p \in expected \ Dead

Link(p) == /\ Phases(p) /\ Prefix(p) /\ AcksBehind(p)
           /\ GateAhead(p) /\ Adjacent(p) /\ Dialled(p)

IInv == Types /\ JoinTypes /\ \A p \in Peer : Link(p)

-----------------------------------------------------------------------------
(* The connections of other peers *)

Untouched(q) ==
  /\ log'[q] = log[q] /\ acked'[q] = acked[q] /\ cursor'[q] = cursor[q]
  /\ have'[q] = have[q] /\ sub'[q] = sub[q] /\ serve'[q] = serve[q]
  /\ up'[q] = up[q] /\ down'[q] = down[q] /\ late'[q] = late[q]
  /\ q \in expected => q \in expected'

\* A step that leaves a peer's connection alone keeps what is known of it.
LEMMA UntouchedKept ==
  ASSUME NEW q \in Peer, Link(q), Untouched(q)
  PROVE  Link(q)'
<1>1. Phases(q)'
  BY DEF Link, Untouched, Phases, Streaming
<1>2. Prefix(q)'
  BY DEF Link, Untouched, Prefix
<1>3. AcksBehind(q)'
  BY DEF Link, Untouched, AcksBehind
<1>4. GateAhead(q)'
  BY DEF Link, Untouched, GateAhead
<1>5. Adjacent(q)'
  BY DEF Link, Untouched, Adjacent, Taken, Streaming
<1>6. Dialled(q)'
  BY DEF Link, Untouched, Dialled
<1> QED
  BY <1>1, <1>2, <1>3, <1>4, <1>5, <1>6 DEF Link

\* Frames are frames.
LEMMA FrameTypes ==
  /\ Hello \in Frame /\ HelloAck \in Frame
  /\ \A n \in Nat : /\ SubscribeOps(n) \in Frame /\ SubscribeOps(n).seq = n
                    /\ OplogPush(n) \in Frame /\ OplogPush(n).seq = n
                    /\ OplogAck(n) \in Frame /\ OplogAck(n).seq = n
BY DEF Frame, Hello, HelloAck, SubscribeOps, OplogPush, OplogAck

-----------------------------------------------------------------------------
(* Init *)

\* Nothing is connected, sent or acknowledged at the start.
LEMMA InitSafe == Init => IInv
<1> SUFFICES ASSUME Init PROVE IInv
  OBVIOUS
<1>1. Types
  BY DEF Init, Types, Backoff, Unconnected, Sub, Serve
<1>2. JoinTypes
  BY StreamAssumption DEF Init, JoinTypes, Lifecycle, Started
<1>3. ASSUME NEW p \in Peer PROVE Link(p)
  <2>1. Phases(p)
    BY DEF Init, Phases, Backoff, Unconnected
  <2>2. Prefix(p)
    BY DEF Init, Prefix
  <2>3. AcksBehind(p)
    BY DEF Init, AcksBehind
  <2>4. GateAhead(p)
    BY DEF Init, GateAhead, Backoff
  <2>5. Adjacent(p)
    BY DEF Init, Adjacent, Backoff, Unconnected, Streaming
  <2>6. Dialled(p)
    BY DEF Init, Dialled, Backoff
  <2> QED
    BY <2>1, <2>2, <2>3, <2>4, <2>5, <2>6 DEF Link
<1> QED
  BY <1>1, <1>2, <1>3 DEF IInv

-----------------------------------------------------------------------------
(* The subscriber *)

\* Nothing but p's connection changes.
Only(p) ==
  /\ log' = [log EXCEPT ![p] = log'[p]] /\ acked' = [acked EXCEPT ![p] = acked'[p]]
  /\ cursor' = [cursor EXCEPT ![p] = cursor'[p]]
  /\ have' = [have EXCEPT ![p] = have'[p]]
  /\ sub' = [sub EXCEPT ![p] = sub'[p]] /\ serve' = [serve EXCEPT ![p] = serve'[p]]
  /\ up' = [up EXCEPT ![p] = up'[p]] /\ down' = [down EXCEPT ![p] = down'[p]]
  /\ late' = [late EXCEPT ![p] = late'[p]]
  /\ expected' = expected

\* A step of one connection is judged by that connection.
LEMMA OneLink ==
  ASSUME IInv, NEW p \in Peer, Only(p), TypesAt(p)', JoinTypes', Link(p)'
  PROVE  IInv'
<1>1. Types'
  BY DEF IInv, Types, TypesAt, Only
<1>2. ASSUME NEW q \in Peer, q # p PROVE Link(q)'
  BY <1>2, UntouchedKept DEF IInv, Types, Only, Untouched
<1> QED
  BY <1>1, <1>2 DEF IInv

\* The invariant at one peer.
LEMMA TypesHere ==
  ASSUME IInv, NEW p \in Peer
  PROVE  TypesAt(p) /\ Link(p) /\ JoinTypes
BY DEF IInv, Types, TypesAt

\* A step of the subscriber or the server that leaves the logs alone.
Quiet(p) == /\ log'[p] = log[p] /\ acked'[p] = acked[p] /\ late'[p] = late[p]
            /\ expected' = expected

\* dial_loop opens a connection from the durable cursor.
LEMMA DialSafe ==
  ASSUME IInv, NEW p \in Peer, Dial(p)
  PROVE  IInv'
<1>t. TypesAt(p) /\ Link(p) /\ JoinTypes
  BY TypesHere
<1> USE <1>t
<1>0. /\ p \in expected \ Dead /\ sub[p].at = "backoff"
      /\ sub'[p] = [at |-> "hello", resume |-> cursor[p], frontier |-> 0, op |-> 0]
      /\ serve'[p] = [at |-> "hello", pos |-> 0, batch |-> <<>>, sent |-> 0, seen |-> 0]
      /\ up'[p] = <<Hello>> /\ down'[p] = <<>>
      /\ cursor'[p] = cursor[p] /\ have'[p] = have[p] /\ Quiet(p)
  BY DEF IInv, Dial, Types, Backoff, Unconnected, Link, Phases, Streaming, Quiet, join
<1>1. Only(p)
  BY DEF IInv, Dial, Types, Only, join
<1>2. TypesAt(p)'
  BY <1>0, FrameTypes DEF TypesAt, Sub, Serve, Quiet
<1>3. JoinTypes'
  BY DEF Dial, JoinTypes, join
<1>4. Link(p)'
  <2>1. Phases(p)' /\ Dialled(p)'
    BY <1>0 DEF Phases, Dialled, Quiet
  <2>2. Prefix(p)' /\ GateAhead(p)'
    BY <1>0 DEF TypesAt, Link, Prefix, GateAhead, Quiet
  <2>3. AcksBehind(p)'
    <3>1. Len(up'[p]) = 1 /\ up'[p][1].seq = 0
      BY <1>0 DEF Hello
    <3>2. \A i \in 1 .. Len(up'[p]) : up'[p][i].seq <= cursor'[p]
      BY <1>0, <3>1 DEF TypesAt
    <3>3. late'[p] = late[p] /\ cursor'[p] = cursor[p] /\ AcksBehind(p)
      BY <1>0 DEF Quiet, Link
    <3> QED
      BY <3>2, <3>3 DEF AcksBehind
  <2>4. Adjacent(p)'
    BY <1>0 DEF Adjacent, Streaming
  <2> QED
    BY <2>1, <2>2, <2>3, <2>4 DEF Link
<1> QED
  BY <1>1, <1>2, <1>3, <1>4, OneLink

\* The answer to the Hello leads to the gate.
LEMMA ReadHelloAckSafe ==
  ASSUME IInv, NEW p \in Peer, ReadHelloAck(p)
  PROVE  IInv'
<1>t. TypesAt(p) /\ Link(p) /\ JoinTypes
  BY TypesHere
<1> USE <1>t
<1>0. /\ sub[p].at = "hello" /\ serve[p].at = "gate" /\ up[p] = <<>>
      /\ sub'[p] = [sub[p] EXCEPT !.at = "gate"]
      /\ serve'[p] = serve[p] /\ up'[p] = <<>> /\ down'[p] = <<>>
      /\ cursor'[p] = cursor[p] /\ have'[p] = have[p] /\ Quiet(p)
  <2>1. /\ sub[p].at = "hello" /\ serve[p].at = "gate" /\ up[p] = <<>>
        /\ down[p] = <<HelloAck>>
    BY DEF ReadHelloAck, Link, Phases, Streaming
  <2>2. Tail(down[p]) = <<>>
    BY <2>1
  <2> QED
    BY <2>1, <2>2 DEF IInv, ReadHelloAck, Goto, Types, Quiet, join
<1>1. Only(p)
  BY DEF IInv, ReadHelloAck, Goto, Types, Only, join
<1>2. TypesAt(p)'
  <2>1. sub'[p] \in Sub
    BY <1>0 DEF TypesAt, Sub
  <2> QED
    BY <1>0, <2>1 DEF TypesAt, Quiet
<1>3. JoinTypes'
  BY DEF ReadHelloAck, JoinTypes, join
<1>4. Link(p)'
  <2>1. Phases(p)' /\ Dialled(p)'
    BY <1>0 DEF Link, Phases, Dialled, Quiet, TypesAt, Sub
  <2>2. Prefix(p)' /\ GateAhead(p)'
    BY <1>0 DEF TypesAt, Sub, Link, Prefix, GateAhead, Quiet
  <2>3. AcksBehind(p)'
    BY <1>0 DEF TypesAt, Link, AcksBehind, Quiet
  <2>4. Adjacent(p)'
    BY <1>0 DEF Adjacent, Streaming, TypesAt, Sub
  <2> QED
    BY <2>1, <2>2, <2>3, <2>4 DEF Link
<1> QED
  BY <1>1, <1>2, <1>3, <1>4, OneLink

\* Between the HelloAck and SubscribeOps the wire is empty.
LEMMA GatePhase ==
  ASSUME IInv, NEW p \in Peer, sub[p].at \in {"gate", "pull", "advance", "subscribe"}
  PROVE  serve[p].at = "gate" /\ up[p] = <<>> /\ down[p] = <<>>
BY TypesHere DEF Link, Phases, Streaming

\* The gate takes its snapshot: no older than what the subscriber has.
LEMMA OpenGateSafe ==
  ASSUME IInv, NEW p \in Peer, OpenGate(p)
  PROVE  IInv'
<1>t. TypesAt(p) /\ Link(p) /\ JoinTypes
  BY TypesHere
<1> USE <1>t
<1>0. /\ sub[p].at = "gate" /\ serve[p].at = "gate" /\ up[p] = <<>> /\ down[p] = <<>>
      /\ sub'[p] = [sub[p] EXCEPT !.at = "pull", !.frontier = log[p]]
      /\ serve'[p] = serve[p] /\ up'[p] = <<>> /\ down'[p] = <<>>
      /\ cursor'[p] = cursor[p] /\ have'[p] = have[p] /\ Quiet(p)
  BY GatePhase DEF IInv, OpenGate, Types, Quiet, join
<1>1. Only(p)
  BY DEF IInv, OpenGate, Types, Only, join
<1>2. TypesAt(p)'
  <2>1. sub'[p] \in Sub
    BY <1>0 DEF TypesAt, Sub
  <2> QED
    BY <1>0, <2>1 DEF TypesAt, Quiet
<1>3. JoinTypes'
  BY DEF OpenGate, JoinTypes, join
<1>4. Link(p)'
  <2>1. Phases(p)' /\ Dialled(p)'
    BY <1>0 DEF Link, Phases, Dialled, Quiet, TypesAt, Sub
  <2>2. Prefix(p)'
    BY <1>0 DEF Link, Prefix, Quiet
  <2>3. GateAhead(p)'
    BY <1>0 DEF TypesAt, Sub, Link, Prefix, GateAhead, Quiet
  <2>4. AcksBehind(p)' /\ Adjacent(p)'
    BY <1>0 DEF TypesAt, Sub, Link, AcksBehind, Quiet, Adjacent, Streaming
  <2> QED
    BY <2>1, <2>2, <2>3, <2>4 DEF Link
<1> QED
  BY <1>1, <1>2, <1>3, <1>4, OneLink

\* The pull brings everything up to the snapshot's frontier.
LEMMA PullDoneSafe ==
  ASSUME IInv, NEW p \in Peer, PullDone(p)
  PROVE  IInv' /\ have'[p] = 1 .. sub[p].frontier
<1>t. TypesAt(p) /\ Link(p) /\ JoinTypes
  BY TypesHere
<1> USE <1>t
<1>0. /\ sub[p].at = "pull" /\ serve[p].at = "gate" /\ up[p] = <<>> /\ down[p] = <<>>
      /\ sub'[p] = [sub[p] EXCEPT !.at = "advance"]
      /\ serve'[p] = serve[p] /\ up'[p] = <<>> /\ down'[p] = <<>>
      /\ cursor'[p] = cursor[p] /\ have'[p] = 1 .. sub[p].frontier /\ Quiet(p)
  <2>1. have[p] \subseteq 1 .. sub[p].frontier
    BY DEF PullDone, Link, GateAhead
  <2> QED
    BY <2>1, GatePhase DEF IInv, PullDone, Goto, Types, Quiet, join
<1>1. Only(p)
  BY DEF IInv, PullDone, Goto, Types, Only, join
<1>2. TypesAt(p)'
  <2>1. sub'[p] \in Sub
    BY <1>0 DEF TypesAt, Sub
  <2> QED
    BY <1>0, <2>1 DEF TypesAt, Quiet
<1>3. JoinTypes'
  BY DEF PullDone, JoinTypes, join
<1>4. Link(p)'
  <2>1. Phases(p)' /\ Dialled(p)'
    BY <1>0 DEF Link, Phases, Dialled, Quiet, TypesAt, Sub
  <2>2. Prefix(p)'
    BY <1>0 DEF TypesAt, Sub, Link, Prefix, GateAhead, Quiet
  <2>3. GateAhead(p)'
    BY <1>0 DEF TypesAt, Sub, Link, GateAhead, Quiet
  <2>4. AcksBehind(p)' /\ Adjacent(p)'
    BY <1>0 DEF TypesAt, Sub, Link, AcksBehind, Quiet, Adjacent, Streaming
  <2> QED
    BY <2>1, <2>2, <2>3, <2>4 DEF Link
<1> QED
  BY <1>0, <1>1, <1>2, <1>3, <1>4, OneLink

\* The cursor moves to the frontier, never back.
LEMMA AdvanceRecvCursorSafe ==
  ASSUME IInv, NEW p \in Peer, AdvanceRecvCursor(p)
  PROVE  IInv'
<1>t. TypesAt(p) /\ Link(p) /\ JoinTypes
  BY TypesHere
<1> USE <1>t
<1>0. /\ sub[p].at = "advance" /\ serve[p].at = "gate" /\ up[p] = <<>> /\ down[p] = <<>>
      /\ sub'[p] = [sub[p] EXCEPT !.at = "subscribe"]
      /\ serve'[p] = serve[p] /\ up'[p] = <<>> /\ down'[p] = <<>>
      /\ cursor'[p] = sub[p].frontier /\ cursor[p] <= sub[p].frontier
      /\ have'[p] = have[p] /\ Quiet(p)
  <2>1. Larger(cursor[p], NewCursor(p)) = sub[p].frontier /\ cursor[p] <= sub[p].frontier
    BY DEF AdvanceRecvCursor, TypesAt, Sub, Link, GateAhead, NewCursor, Larger
  <2> QED
    BY <2>1, GatePhase DEF IInv, AdvanceRecvCursor, Goto, Types, Quiet, join
<1>1. Only(p)
  BY DEF IInv, AdvanceRecvCursor, Goto, Types, Only, join
<1>2. TypesAt(p)'
  <2>1. sub'[p] \in Sub /\ sub[p].frontier \in Nat
    BY <1>0 DEF TypesAt, Sub
  <2> QED
    BY <1>0, <2>1 DEF TypesAt, Quiet
<1>3. JoinTypes'
  BY DEF AdvanceRecvCursor, JoinTypes, join
<1>4. Link(p)'
  <2>1. Phases(p)' /\ Dialled(p)'
    BY <1>0 DEF Link, Phases, Dialled, Quiet, TypesAt, Sub
  <2>2. Prefix(p)'
    BY <1>0 DEF TypesAt, Sub, Link, Prefix, GateAhead, Quiet
  <2>3. GateAhead(p)'
    BY <1>0 DEF TypesAt, Sub, Link, GateAhead, Quiet
  <2>4. AcksBehind(p)'
    <3>1. ASSUME NEW c \in late[p], NEW i \in 1 .. Len(c.acks)
          PROVE  c.acks[i].seq <= cursor'[p]
      <4>1. c.acks[i] \in Frame
        BY DEF TypesAt, Late
      <4> QED
        BY <1>0, <4>1 DEF TypesAt, Sub, Frame, Link, AcksBehind
    <3> QED
      BY <1>0, <3>1 DEF Link, AcksBehind, Quiet
  <2>5. Adjacent(p)'
    BY <1>0 DEF TypesAt, Sub, Adjacent, Streaming
  <2> QED
    BY <2>1, <2>2, <2>3, <2>4, <2>5 DEF Link
<1> QED
  BY <1>1, <1>2, <1>3, <1>4, OneLink

\* What JoinTracker computes has its type.
LEMMA RecomputeTypes ==
  ASSUME JoinTypes, NEW E \in SUBSET Peer, NEW C \in SUBSET Peer, NEW U \in SUBSET Peer,
         Recompute(E, C, U), faults' \in Nat, changes' \in Nat
  PROVE  JoinTypes' /\ expected' = E
<1>1. lifecycle' \in Lifecycle
  BY DEF Recompute, Lifecycle
<1>2. saved' \in Lifecycle
  BY <1>1 DEF Recompute, JoinTypes
<1> QED
  BY <1>1, <1>2 DEF Recompute, JoinTypes

\* The join tracker stays well formed.
LEMMA NoteUnreachableTypes ==
  ASSUME JoinTypes, NEW p \in Peer, NoteUnreachable(p), faults' \in Nat, changes' \in Nat
  PROVE  JoinTypes' /\ expected' = expected
<1>1. CASE p \in completed
  BY <1>1 DEF NoteUnreachable, JoinTypes, join
<1>2. CASE p \notin completed
  BY <1>2, RecomputeTypes DEF NoteUnreachable, JoinTypes
<1> QED
  BY <1>1, <1>2

\* SubscribeOps asks for what comes after the cursor.
LEMMA SubscribeSafe ==
  ASSUME IInv, NEW p \in Peer, Subscribe(p)
  PROVE  IInv' /\ expected' = expected
<1>t. TypesAt(p) /\ Link(p) /\ JoinTypes
  BY TypesHere
<1> USE <1>t
<1>a. JoinTypes' /\ expected' = expected
  BY RecomputeTypes DEF Subscribe, NoteGateComplete, JoinTypes
<1>0. /\ sub[p].at = "subscribe" /\ serve[p].at = "gate" /\ up[p] = <<>> /\ down[p] = <<>>
      /\ sub'[p] = [sub[p] EXCEPT !.at = "live"]
      /\ serve'[p] = serve[p] /\ up'[p] = <<SubscribeOps(cursor[p])>> /\ down'[p] = <<>>
      /\ cursor'[p] = cursor[p] /\ have'[p] = have[p] /\ Quiet(p)
  <2>1. NewCursor(p) = cursor[p]
    BY DEF Subscribe, TypesAt, Sub, Link, GateAhead, NewCursor, Larger
  <2>2. Append(<<>>, SubscribeOps(cursor[p])) = <<SubscribeOps(cursor[p])>>
    OBVIOUS
  <2> QED
    BY <1>a, <2>1, <2>2, GatePhase DEF IInv, Subscribe, Goto, Types, Quiet
<1>1. Only(p)
  BY <1>a DEF IInv, Subscribe, Goto, Types, Only
<1>2. TypesAt(p)'
  <2>1. sub'[p] \in Sub
    BY <1>0 DEF TypesAt, Sub
  <2> QED
    BY <1>0, <2>1, FrameTypes DEF TypesAt, Quiet
<1>4. Link(p)'
  <2>1. Phases(p)' /\ Dialled(p)'
    BY <1>0 DEF Link, Phases, Dialled, Quiet, TypesAt, Sub
  <2>2. Prefix(p)' /\ GateAhead(p)'
    BY <1>0 DEF TypesAt, Sub, Link, Prefix, GateAhead, Quiet
  <2>4. AcksBehind(p)'
    BY <1>0, FrameTypes DEF TypesAt, Link, AcksBehind, Quiet
  <2>5. Adjacent(p)'
    BY <1>0 DEF TypesAt, Sub, Adjacent, Streaming
  <2> QED
    BY <2>1, <2>2, <2>4, <2>5 DEF Link
<1> QED
  BY <1>a, <1>1, <1>2, <1>4, OneLink

\* The op that is read is the one after the cursor.
LEMMA ReadOpSafe ==
  ASSUME IInv, NEW p \in Peer, ReadOp(p)
  PROVE  IInv'
<1>t. TypesAt(p) /\ Link(p) /\ JoinTypes
  BY TypesHere
<1> USE <1>t
<1>a. Streaming(p) /\ sub[p].at = "live" /\ down[p] # <<>>
  BY DEF ReadOp, Link, Phases
<1>b. /\ Head(down[p]) = down[p][1] /\ 1 \in 1 .. Len(down[p])
      /\ Len(down[p]) \in Nat
      /\ Tail(down[p]) \in Seq(Frame) /\ Len(Tail(down[p])) = Len(down[p]) - 1
      /\ \A i \in 1 .. Len(down[p]) - 1 : Tail(down[p])[i] = down[p][i + 1]
  BY <1>a, HeadTailProperties DEF TypesAt
<1>c. Head(down[p]).seq = cursor[p] + 1
  BY <1>a, <1>b DEF TypesAt, Link, Adjacent, Taken
<1>0. /\ sub'[p] \in Sub /\ sub'[p].at = "op" /\ sub'[p].op = cursor[p] + 1
      /\ sub'[p].resume = sub[p].resume /\ sub'[p].frontier = sub[p].frontier
      /\ serve'[p] = serve[p] /\ up'[p] = up[p] /\ down'[p] = Tail(down[p])
      /\ cursor'[p] = cursor[p] /\ have'[p] = have[p] /\ Quiet(p)
  <2>1. sub'[p] = [sub[p] EXCEPT !.at = "op", !.op = Head(down[p]).seq]
    BY DEF IInv, ReadOp, Types
  <2>2. sub[p] \in Sub /\ Head(down[p]).seq \in Nat /\ "op" \in {"live", "op"}
    BY <1>c DEF TypesAt
  <2>3. /\ sub'[p] \in Sub /\ sub'[p].at = "op" /\ sub'[p].op = Head(down[p]).seq
        /\ sub'[p].resume = sub[p].resume /\ sub'[p].frontier = sub[p].frontier
    BY <2>1, <2>2 DEF Sub
  <2> QED
    BY <1>c, <2>3 DEF IInv, ReadOp, Types, Quiet, join
<1>1. Only(p)
  BY DEF IInv, ReadOp, Types, Only, join
<1>2. TypesAt(p)'
  BY <1>0, <1>b DEF TypesAt, Quiet
<1>3. JoinTypes'
  BY DEF ReadOp, JoinTypes, join
<1>4. Link(p)'
  <2>1. Phases(p)' /\ Dialled(p)'
    BY <1>0, <1>a DEF Link, Phases, Dialled, Quiet, TypesAt, Sub, Streaming
  <2>2. Prefix(p)' /\ GateAhead(p)'
    BY <1>0, <1>a DEF TypesAt, Sub, Link, Prefix, GateAhead, Quiet
  <2>3. AcksBehind(p)'
    BY <1>0 DEF Link, AcksBehind, Quiet
  <2>4. /\ Taken(p) = cursor[p] /\ Taken(p)' = cursor[p] + 1
        /\ sub'[p].at = "op" /\ sub'[p].op = cursor[p] + 1
    BY <1>0, <1>a DEF Taken, TypesAt, Sub
  <2>5. \A i \in 1 .. Len(down'[p]) : down'[p][i].seq = Taken(p)' + i
    <3>1. \A i \in 1 .. Len(down[p]) : down[p][i].seq = cursor[p] + i
      BY <1>a, <2>4 DEF Link, Adjacent
    <3>2. \A i \in 1 .. Len(down[p]) - 1 : down[p][i + 1].seq = cursor[p] + (i + 1)
      BY <1>b, <3>1
    <3>3. cursor[p] \in Nat /\ Len(down[p]) \in Nat
      BY <1>b DEF TypesAt
    <3>4. /\ Len(down'[p]) = Len(down[p]) - 1
          /\ \A i \in 1 .. Len(down[p]) - 1 : down'[p][i] = down[p][i + 1]
      BY <1>0, <1>b
    <3>5. ASSUME NEW i \in 1 .. Len(down[p]) - 1
          PROVE  down'[p][i].seq = (cursor[p] + 1) + i
      <4>1. down'[p][i] = down[p][i + 1] /\ down[p][i + 1].seq = cursor[p] + (i + 1)
        BY <3>2, <3>4
      <4> QED
        BY <3>3, <4>1
    <3> QED
      BY <2>4, <3>4, <3>5
  <2>6. serve'[p].pos = Taken(p)' + Len(down'[p])
    <3>1. serve[p].pos = cursor[p] + Len(down[p])
      BY <1>a, <2>4 DEF Link, Adjacent
    <3>2. serve'[p].pos = cursor[p] + Len(down[p]) /\ Len(down'[p]) = Len(down[p]) - 1
      BY <1>0, <1>b, <3>1
    <3>3. cursor[p] \in Nat /\ Len(down[p]) \in Nat
      BY <1>b DEF TypesAt
    <3> QED
      BY <2>4, <3>2, <3>3
  <2>7. Adjacent(p)'
    BY <1>0, <1>a, <2>4, <2>5, <2>6 DEF Link, Adjacent, Streaming, Quiet
  <2> QED
    BY <2>1, <2>2, <2>3, <2>7 DEF Link
<1> QED
  BY <1>1, <1>2, <1>3, <1>4, OneLink

\* Handling it moves the cursor by one, within the log.
LEMMA ProcessRemoteOpSafe ==
  ASSUME IInv, NEW p \in Peer, ProcessRemoteOp(p)
  PROVE  /\ IInv' /\ cursor[p] < log[p]
         /\ have[p] = 1 .. cursor[p] /\ have'[p] = 1 .. (cursor[p] + 1)
<1>t. TypesAt(p) /\ Link(p) /\ JoinTypes
  BY TypesHere
<1> USE <1>t
<1>a. Streaming(p) /\ sub[p].at = "op" /\ sub[p].op = cursor[p] + 1
  BY DEF ProcessRemoteOp, Link, Phases, Adjacent
<1>b. /\ Larger(cursor[p], cursor[p] + 1) = cursor[p] + 1
      /\ have[p] = 1 .. cursor[p]
      /\ have[p] \cup {cursor[p] + 1} = 1 .. (cursor[p] + 1)
  BY <1>a DEF Larger, TypesAt, Link, GateAhead
<1>c. cursor[p] < log[p]
  <2>1. /\ serve[p].pos = Taken(p) + Len(down[p])
        /\ serve[p].pos + Len(serve[p].batch) <= log[p]
    BY <1>a DEF Link, Adjacent
  <2>2. Taken(p) = cursor[p] + 1
    BY <1>a DEF Taken
  <2>3. /\ cursor[p] \in Nat /\ log[p] \in Nat
        /\ Len(down[p]) \in Nat /\ Len(serve[p].batch) \in Nat
    BY DEF TypesAt, Serve
  <2> QED
    BY <2>1, <2>2, <2>3
<1>0. /\ sub'[p] = [sub[p] EXCEPT !.at = "ack"]
      /\ serve'[p] = serve[p] /\ up'[p] = up[p] /\ down'[p] = down[p]
      /\ cursor'[p] = cursor[p] + 1 /\ have'[p] = 1 .. (cursor[p] + 1) /\ Quiet(p)
  BY <1>a, <1>b DEF IInv, ProcessRemoteOp, Goto, Types, Quiet, join
<1>1. Only(p)
  BY DEF IInv, ProcessRemoteOp, Goto, Types, Only, join
<1>2. TypesAt(p)'
  <2>1. sub'[p] \in Sub
    BY <1>0 DEF TypesAt, Sub
  <2> QED
    BY <1>0, <2>1 DEF TypesAt, Quiet
<1>3. JoinTypes'
  BY DEF ProcessRemoteOp, JoinTypes, join
<1>4. Link(p)'
  <2>1. Phases(p)' /\ Dialled(p)'
    BY <1>0, <1>a DEF Link, Phases, Dialled, Quiet, TypesAt, Sub, Streaming
  <2>2. Prefix(p)' /\ GateAhead(p)'
    <3>1. cursor[p] \in Nat /\ log[p] \in Nat /\ acked[p] \in Nat /\ sub[p] \in Sub
      BY DEF TypesAt
    <3>2. acked[p] <= cursor[p] /\ sub[p].resume <= cursor[p] /\ sub[p].resume \in Nat
      BY <3>1 DEF Link, Prefix, GateAhead, Sub
    <3>3. sub'[p].at = "ack" /\ sub'[p].resume = sub[p].resume
      BY <1>0, <3>1 DEF Sub
    <3>4. Prefix(p)'
      <4>1. cursor[p] + 1 \in cursor[p] + 1 .. log[p]
        BY <3>1, <1>c
      <4> QED
        BY <1>0, <3>1, <3>2, <4>1 DEF Prefix, Quiet
    <3>5. GateAhead(p)'
      BY <1>0, <3>1, <3>2, <3>3 DEF GateAhead
    <3> QED
      BY <3>4, <3>5
  <2>3. AcksBehind(p)'
    <3>1. ASSUME NEW i \in 1 .. Len(up[p]) PROVE up[p][i].seq <= cursor'[p]
      <4>1. up[p][i] \in Frame
        BY ElementOfSeq DEF TypesAt
      <4> QED
        BY <1>0, <4>1 DEF TypesAt, Frame, Link, AcksBehind
    <3>2. ASSUME NEW c \in late[p], NEW i \in 1 .. Len(c.acks)
          PROVE  c.acks[i].seq <= cursor'[p]
      <4>1. c.acks[i] \in Frame
        BY DEF TypesAt, Late
      <4> QED
        BY <1>0, <4>1 DEF TypesAt, Frame, Link, AcksBehind
    <3> QED
      BY <1>0, <3>1, <3>2 DEF Link, AcksBehind, Quiet
  <2>4. /\ Taken(p) = cursor[p] + 1 /\ Taken(p)' = cursor[p] + 1
        /\ sub'[p].at = "ack" /\ sub'[p].op = cursor'[p]
    BY <1>0, <1>a DEF Taken, TypesAt, Sub
  <2>7. Adjacent(p)'
    BY <1>0, <1>a, <2>4 DEF Link, Adjacent, Streaming, Quiet
  <2> QED
    BY <2>1, <2>2, <2>3, <2>7 DEF Link
<1> QED
  BY <1>0, <1>b, <1>c, <1>1, <1>2, <1>3, <1>4, OneLink

\* An ack tells of the cursor.
LEMMA WriteAckSafe ==
  ASSUME IInv, NEW p \in Peer, WriteAck(p)
  PROVE  IInv'
<1>t. TypesAt(p) /\ Link(p) /\ JoinTypes
  BY TypesHere
<1> USE <1>t
<1>a. Streaming(p) /\ sub[p].at = "ack" /\ sub[p].op = cursor[p]
  BY DEF WriteAck, Link, Phases, Adjacent
<1>b. OplogAck(cursor[p]) \in Frame /\ OplogAck(cursor[p]).seq = cursor[p]
  BY FrameTypes DEF TypesAt
<1>c. /\ Append(up[p], OplogAck(cursor[p])) \in Seq(Frame)
      /\ Len(Append(up[p], OplogAck(cursor[p]))) = Len(up[p]) + 1
      /\ \A i \in 1 .. Len(up[p]) : Append(up[p], OplogAck(cursor[p]))[i] = up[p][i]
      /\ Append(up[p], OplogAck(cursor[p]))[Len(up[p]) + 1] = OplogAck(cursor[p])
  BY <1>b, AppendProperties DEF TypesAt
<1>0. /\ sub'[p] \in Sub /\ sub'[p].at = "live" /\ sub'[p].op = 0
      /\ sub'[p].resume = sub[p].resume /\ sub'[p].frontier = sub[p].frontier
      /\ serve'[p] = serve[p] /\ up'[p] = Append(up[p], OplogAck(cursor[p]))
      /\ down'[p] = down[p]
      /\ cursor'[p] = cursor[p] /\ have'[p] = have[p] /\ Quiet(p)
  <2>1. sub'[p] = [sub[p] EXCEPT !.at = "live", !.op = 0]
    BY DEF IInv, WriteAck, Types
  <2>2. sub[p] \in Sub /\ 0 \in Nat /\ "live" \in {"live", "op"}
    BY DEF TypesAt
  <2>3. /\ sub'[p] \in Sub /\ sub'[p].at = "live" /\ sub'[p].op = 0
        /\ sub'[p].resume = sub[p].resume /\ sub'[p].frontier = sub[p].frontier
    BY <2>1, <2>2 DEF Sub
  <2> QED
    BY <1>a, <2>3 DEF IInv, WriteAck, Types, Quiet, join
<1>1. Only(p)
  BY DEF IInv, WriteAck, Types, Only, join
<1>2. TypesAt(p)'
  BY <1>0, <1>c DEF TypesAt, Quiet
<1>3. JoinTypes'
  BY DEF WriteAck, JoinTypes, join
<1>4. Link(p)'
  <2>1. Phases(p)' /\ Dialled(p)'
    BY <1>0, <1>a DEF Link, Phases, Dialled, Quiet, TypesAt, Sub, Streaming
  <2>2. Prefix(p)' /\ GateAhead(p)'
    BY <1>0, <1>a DEF TypesAt, Sub, Link, Prefix, GateAhead, Quiet
  <2>3. \A i \in 1 .. Len(up'[p]) : up'[p][i].seq <= cursor'[p]
    BY <1>0, <1>b, <1>c DEF TypesAt, Link, AcksBehind
  <2>4. AcksBehind(p)'
    BY <1>0, <2>3 DEF Link, AcksBehind, Quiet
  <2>5. /\ Taken(p) = cursor[p] /\ Taken(p)' = cursor[p] /\ sub'[p].at = "live"
    BY <1>0, <1>a DEF Taken, TypesAt, Sub
  <2>6. Adjacent(p)'
    BY <1>0, <1>a, <2>5 DEF Link, Adjacent, Streaming, Quiet
  <2> QED
    BY <2>1, <2>2, <2>4, <2>6 DEF Link
<1> QED
  BY <1>1, <1>2, <1>3, <1>4, OneLink

-----------------------------------------------------------------------------
(* The peers *)

\* A new op at the origin leaves every stretch where it is.
LEMMA AppendOpSafe ==
  ASSUME IInv, NEW p \in Peer, AppendOp(p)
  PROVE  IInv'
<1>t. TypesAt(p) /\ Link(p) /\ JoinTypes
  BY TypesHere
<1> USE <1>t
<1>0. /\ log'[p] = log[p] + 1
      /\ sub'[p] = sub[p] /\ serve'[p] = serve[p] /\ up'[p] = up[p] /\ down'[p] = down[p]
      /\ cursor'[p] = cursor[p] /\ have'[p] = have[p] /\ acked'[p] = acked[p]
      /\ late'[p] = late[p] /\ expected' = expected
  BY DEF IInv, AppendOp, Types, wire, join
<1>1. Only(p)
  BY DEF IInv, AppendOp, Types, Only, wire, join
<1>2. TypesAt(p)'
  BY <1>0 DEF TypesAt
<1>3. JoinTypes'
  BY DEF AppendOp, JoinTypes, join
<1>4. Link(p)'
  <2>1. Phases(p)' /\ Dialled(p)' /\ AcksBehind(p)'
    BY <1>0 DEF Link, Phases, Dialled, AcksBehind, Streaming
  <2>2. Prefix(p)'
    <3>1. PICK k \in cursor[p] .. log[p] : have[p] = 1 .. k
      BY DEF Link, Prefix
    <3>2. k \in cursor'[p] .. log'[p]
      BY <1>0, <3>1 DEF TypesAt
    <3> QED
      BY <1>0, <3>1, <3>2 DEF Link, Prefix
  <2>3. GateAhead(p)'
    BY <1>0 DEF TypesAt, Sub, Link, GateAhead
  <2>4. serve[p].pos \in Nat /\ Len(serve[p].batch) \in Nat
    BY DEF TypesAt, Serve
  <2>6. Streaming(p) => serve[p].pos + Len(serve[p].batch) <= log'[p]
    BY <1>0, <2>4 DEF TypesAt, Link, Adjacent
  <2>5. Adjacent(p)'
    BY <1>0, <2>6 DEF Link, Adjacent, Streaming, Taken
  <2> QED
    BY <2>1, <2>2, <2>3, <2>5 DEF Link
<1> QED
  BY <1>1, <1>2, <1>3, <1>4, OneLink

\* The responder answers a Hello once.
LEMMA ReadHelloSafe ==
  ASSUME IInv, NEW p \in Peer, ReadHello(p)
  PROVE  IInv'
<1>t. TypesAt(p) /\ Link(p) /\ JoinTypes
  BY TypesHere
<1> USE <1>t
<1>a. sub[p].at = "hello" /\ up[p] = <<Hello>> /\ down[p] = <<>>
  BY DEF ReadHello, Link, Phases, Streaming
<1>b. Tail(up[p]) = <<>> /\ Append(down[p], HelloAck) = <<HelloAck>>
  BY <1>a
<1>0. /\ serve'[p] = [serve[p] EXCEPT !.at = "gate"]
      /\ sub'[p] = sub[p] /\ up'[p] = <<>> /\ down'[p] = <<HelloAck>>
      /\ cursor'[p] = cursor[p] /\ have'[p] = have[p] /\ Quiet(p)
  BY <1>b DEF IInv, ReadHello, Types, Quiet, join
<1>1. Only(p)
  BY DEF IInv, ReadHello, Types, Only, join
<1>2. TypesAt(p)'
  <2>1. serve'[p] \in Serve
    BY <1>0 DEF TypesAt, Serve
  <2> QED
    BY <1>0, <2>1, FrameTypes DEF TypesAt, Quiet
<1>3. JoinTypes'
  BY DEF ReadHello, JoinTypes, join
<1>4. Link(p)'
  <2>0. serve'[p].at = "gate"
    BY <1>0 DEF TypesAt, Serve
  <2>1. Phases(p)' /\ Dialled(p)'
    BY <1>0, <1>a, <2>0 DEF Link, Phases, Dialled, Quiet
  <2>2. Prefix(p)' /\ GateAhead(p)'
    BY <1>0, <1>a DEF Link, Prefix, GateAhead, Quiet
  <2>3. AcksBehind(p)' /\ Adjacent(p)'
    BY <1>0, <1>a, <2>0 DEF Link, AcksBehind, Quiet, Adjacent, Streaming
  <2> QED
    BY <2>1, <2>2, <2>3 DEF Link
<1> QED
  BY <1>1, <1>2, <1>3, <1>4, OneLink

\* The push loop starts at the resume point it was asked for.
LEMMA ReadSubscribeOpsSafe ==
  ASSUME IInv, NEW p \in Peer, ReadSubscribeOps(p)
  PROVE  IInv'
<1>t. TypesAt(p) /\ Link(p) /\ JoinTypes
  BY TypesHere
<1> USE <1>t
<1>a. sub[p].at = "live" /\ up[p] = <<SubscribeOps(cursor[p])>> /\ down[p] = <<>>
  BY DEF ReadSubscribeOps, Link, Phases, Streaming
<1>b. Tail(up[p]) = <<>> /\ Head(up[p]) = SubscribeOps(cursor[p])
  BY <1>a
<1>c. Head(up[p]).seq = cursor[p]
  BY <1>b, FrameTypes DEF TypesAt
<1>0. /\ serve'[p] = [at |-> "query", pos |-> cursor[p], batch |-> <<>>,
                      sent |-> cursor[p], seen |-> 0]
      /\ sub'[p] = sub[p] /\ up'[p] = <<>> /\ down'[p] = <<>>
      /\ cursor'[p] = cursor[p] /\ have'[p] = have[p] /\ Quiet(p)
  BY <1>a, <1>b, <1>c DEF IInv, ReadSubscribeOps, Types, Quiet, join, Unconnected
<1>1. Only(p)
  BY DEF IInv, ReadSubscribeOps, Types, Only, join
<1>2. TypesAt(p)'
  <2>1. cursor[p] \in Nat /\ <<>> \in Seq(Nat)
    BY DEF TypesAt
  <2>2. serve'[p] \in Serve
    BY <1>0, <2>1 DEF Serve
  <2> QED
    BY <1>0, <2>2 DEF TypesAt, Quiet
<1>3. JoinTypes'
  BY DEF ReadSubscribeOps, JoinTypes, join
<1>4. Link(p)'
  <2>1. Phases(p)' /\ Dialled(p)'
    BY <1>0, <1>a DEF Link, Phases, Dialled, Quiet, Streaming
  <2>2. Prefix(p)' /\ GateAhead(p)'
    BY <1>0, <1>a DEF Link, Prefix, GateAhead, Quiet
  <2>3. AcksBehind(p)'
    BY <1>0, <1>a DEF Link, AcksBehind, Quiet
  <2>4. cursor[p] <= log[p]
    BY DEF Link, Prefix, TypesAt
  <2>5. Adjacent(p)'
    BY <1>0, <1>a, <2>4 DEF TypesAt, Adjacent, Streaming, Taken, Quiet
  <2> QED
    BY <2>1, <2>2, <2>3, <2>5 DEF Link
<1> QED
  BY <1>1, <1>2, <1>3, <1>4, OneLink

\* ops_since returns consecutive ops of the log, at least one when there is one.
LEMMA OpsSinceIsAscending ==
  ASSUME NEW p \in Peer, log[p] \in Nat, NEW n \in Nat, n <= log[p]
  PROVE  /\ OpsSince(p, n) \in Seq(Nat)
         /\ \A i \in 1 .. Len(OpsSince(p, n)) : OpsSince(p, n)[i] = n + i
         /\ n + Len(OpsSince(p, n)) <= log[p]
         /\ OpsSince(p, n) = <<>> => n = log[p]
<1>1. DEFINE some == IF log[p] > n + PushBatch THEN PushBatch
                     ELSE IF log[p] > n THEN log[p] - n ELSE 0
<1>2. some \in Nat /\ n + some <= log[p] /\ (some = 0 => n = log[p])
  BY StreamAssumption
<1>3. OpsSince(p, n) = [i \in 1 .. some |-> n + i]
  BY DEF OpsSince
<1>4. ASSUME NEW m \in Nat
      PROVE  [i \in 1 .. m |-> n + i] \in Seq(Nat) /\ Len([i \in 1 .. m |-> n + i]) = m
  OBVIOUS
<1> HIDE DEF some
<1>5. OpsSince(p, n) \in Seq(Nat) /\ Len(OpsSince(p, n)) = some
  BY <1>2, <1>3, <1>4
<1> QED
  BY <1>2, <1>3, <1>5

\* ops_since returns the batch that continues the position.
LEMMA QueryOpsSafe ==
  ASSUME IInv, NEW p \in Peer, QueryOps(p)
  PROVE  IInv'
<1>t. TypesAt(p) /\ Link(p) /\ JoinTypes
  BY TypesHere
<1> USE <1>t
<1> DEFINE ops == OpsSince(p, serve[p].pos)
           st == IF ops = <<>> THEN "sleep" ELSE "write"
<1>a. Streaming(p) /\ sub[p].at \in {"live", "op", "ack"}
  BY DEF QueryOps, Streaming, Link, Phases
<1>b. serve[p].pos \in Nat /\ log[p] \in Nat /\ serve[p].pos <= log[p]
  BY <1>a DEF TypesAt, Serve, Link, Adjacent
<1>c. /\ ops \in Seq(Nat) /\ serve[p].pos + Len(ops) <= log[p]
      /\ \A i \in 1 .. Len(ops) : ops[i] = serve[p].pos + i
  BY <1>b, OpsSinceIsAscending
<1>d. serve'[p] = [serve[p] EXCEPT !.batch = ops, !.at = st]
  BY DEF IInv, QueryOps, Types
<1>e. st \in {"sleep", "write"} /\ (st = "write" <=> ops # <<>>)
  OBVIOUS
<1> HIDE DEF ops, st
<1>f. /\ serve'[p] \in Serve /\ serve'[p].at = st /\ serve'[p].batch = ops
      /\ serve'[p].pos = serve[p].pos /\ serve'[p].sent = serve[p].sent
  <2>1. serve[p] \in Serve
    BY DEF TypesAt
  <2> QED
    BY <1>c, <1>d, <1>e, <2>1 DEF Serve
<1>0. /\ sub'[p] = sub[p] /\ up'[p] = up[p] /\ down'[p] = down[p]
      /\ cursor'[p] = cursor[p] /\ have'[p] = have[p] /\ Quiet(p)
  BY DEF IInv, QueryOps, Types, Quiet, join
<1>1. Only(p)
  BY DEF IInv, QueryOps, Types, Only, join
<1>2. TypesAt(p)'
  BY <1>0, <1>f DEF TypesAt, Quiet
<1>3. JoinTypes'
  BY DEF QueryOps, JoinTypes, join
<1>4. Link(p)'
  <2>1. Phases(p)' /\ Dialled(p)'
    BY <1>0, <1>a, <1>e, <1>f DEF Link, Phases, Dialled, Quiet, Streaming
  <2>2. Prefix(p)' /\ GateAhead(p)' /\ AcksBehind(p)'
    BY <1>0 DEF Link, Prefix, GateAhead, AcksBehind, Quiet
  <2>3. Taken(p)' = Taken(p)
    BY <1>0 DEF Taken
  <2>4. Adjacent(p)'
    BY <1>0, <1>a, <1>c, <1>e, <1>f, <2>3 DEF Link, Adjacent, Quiet, Streaming
  <2> QED
    BY <2>1, <2>2, <2>4 DEF Link
<1> QED
  BY <1>1, <1>2, <1>3, <1>4, OneLink

\* A push moves one op from batch to wire and sent_frontier with it.
LEMMA PushSafe ==
  ASSUME IInv, NEW p \in Peer, Push(p)
  PROVE  IInv'
<1>t. TypesAt(p) /\ Link(p) /\ JoinTypes
  BY TypesHere
<1> USE <1>t
<1> DEFINE b == serve[p].batch
           n == Head(b)
           rest == Tail(b)
           st == IF Len(b) = 1 THEN "query" ELSE "write"
           d == Append(down[p], OplogPush(n))
<1>a. /\ Streaming(p) /\ sub[p].at \in {"live", "op", "ack"}
      /\ b \in Seq(Nat) /\ b # <<>>
  BY DEF Push, Streaming, Link, Phases, Adjacent, TypesAt, Serve
<1>b. /\ n \in Nat /\ n = b[1] /\ Len(b) \in Nat /\ 1 \in 1 .. Len(b)
      /\ rest \in Seq(Nat) /\ Len(rest) = Len(b) - 1
      /\ \A i \in 1 .. Len(b) - 1 : rest[i] = b[i + 1]
  BY <1>a, HeadTailProperties
<1>c. OplogPush(n) \in Frame /\ OplogPush(n).seq = n
  BY <1>b, FrameTypes
<1>d. /\ d \in Seq(Frame) /\ Len(d) = Len(down[p]) + 1
      /\ \A i \in 1 .. Len(down[p]) : d[i] = down[p][i]
      /\ d[Len(down[p]) + 1] = OplogPush(n)
      /\ Len(down[p]) \in Nat
  BY <1>c, AppendProperties DEF TypesAt
<1>e. /\ serve'[p] = [serve[p] EXCEPT !.pos = n, !.sent = n, !.batch = rest, !.at = st]
      /\ down'[p] = d
  BY DEF IInv, Push, Types
<1>f. st \in {"query", "write"} /\ (st = "write" <=> rest # <<>>)
  <2>1. rest = <<>> <=> Len(rest) = 0
    BY <1>b, EmptySeq
  <2> QED
    BY <1>b, <2>1
<1>g. /\ Taken(p) \in Nat /\ serve[p].pos = Taken(p) + Len(down[p])
      /\ \A i \in 1 .. Len(b) : b[i] = serve[p].pos + i
      /\ \A i \in 1 .. Len(down[p]) : down[p][i].seq = Taken(p) + i
      /\ serve[p].pos + Len(b) <= log[p] /\ log[p] \in Nat
  BY <1>a DEF Link, Adjacent, Taken, TypesAt
<1>0. /\ sub'[p] = sub[p] /\ up'[p] = up[p]
      /\ cursor'[p] = cursor[p] /\ have'[p] = have[p] /\ Quiet(p)
  BY DEF IInv, Push, Types, Quiet, join
<1>1. Only(p)
  BY DEF IInv, Push, Types, Only, join
<1> HIDE DEF rest, st, d, n
<1>h. n = (Taken(p) + Len(down[p])) + 1
  BY <1>b, <1>g
<1>i. /\ serve'[p] \in Serve /\ serve'[p].at = st /\ serve'[p].batch = rest
      /\ serve'[p].pos = n /\ serve'[p].sent = n
  <2>1. serve[p] \in Serve
    BY DEF TypesAt
  <2> QED
    BY <1>b, <1>e, <1>f, <2>1 DEF Serve
<1>2. TypesAt(p)'
  BY <1>0, <1>d, <1>e, <1>i DEF TypesAt, Quiet
<1>3. JoinTypes'
  BY DEF Push, JoinTypes, join
<1>4. Link(p)'
  <2>1. Phases(p)' /\ Dialled(p)'
    BY <1>0, <1>a, <1>f, <1>i DEF Link, Phases, Dialled, Quiet, Streaming
  <2>2. Prefix(p)' /\ GateAhead(p)' /\ AcksBehind(p)'
    BY <1>0 DEF Link, Prefix, GateAhead, AcksBehind, Quiet
  <2>3. Taken(p)' = Taken(p)
    BY <1>0 DEF Taken
  <2>a. /\ Len(down[p]) \in Nat /\ Len(d) = Len(down[p]) + 1
        /\ Len(b) \in Nat /\ Len(rest) = Len(b) - 1 /\ Taken(p) \in Nat /\ log[p] \in Nat
        /\ n \in Nat
    BY <1>b, <1>d, <1>g
  <2>b. serve[p].pos + Len(b) <= log[p] /\ serve[p].pos = Taken(p) + Len(down[p])
    BY <1>g
  <2>4. \A i \in 1 .. Len(d) : d[i].seq = Taken(p) + i
    <3>1. \A i \in 1 .. Len(down[p]) : d[i].seq = Taken(p) + i
      BY <1>d, <1>g
    <3>2. d[Len(down[p]) + 1].seq = Taken(p) + (Len(down[p]) + 1)
      BY <1>c, <1>d, <1>h, <2>a
    <3>3. Len(down[p]) \in Nat /\ Len(d) = Len(down[p]) + 1
      BY <2>a
    <3> QED
      BY <3>1, <3>2, <3>3
  <2>5. \A i \in 1 .. Len(rest) : rest[i] = n + i
    <3>1. \A i \in 1 .. Len(b) - 1 : b[i + 1] = serve[p].pos + (i + 1)
      BY <1>b, <1>g
    <3>2. ASSUME NEW i \in 1 .. Len(b) - 1 PROVE rest[i] = n + i
      <4>1. rest[i] = serve[p].pos + (i + 1)
        BY <1>b, <3>1
      <4>2. n = serve[p].pos + 1 /\ serve[p].pos \in Nat /\ i \in Nat
        BY <1>h, <2>a, <2>b
      <4> QED
        BY <4>1, <4>2
    <3> QED
      BY <1>b, <3>2
  <2>6. n = Taken(p) + Len(d) /\ n + Len(rest) <= log[p]
    <3> HIDE DEF b
    <3> QED
      BY <1>h, <2>a, <2>b
  <2>7. Adjacent(p)'
    BY <1>0, <1>a, <1>e, <1>f, <1>i, <2>3, <2>4, <2>5, <2>6
    DEF Link, Adjacent, Quiet, Streaming
  <2> QED
    BY <2>1, <2>2, <2>7 DEF Link
<1> QED
  BY <1>1, <1>2, <1>3, <1>4, OneLink

\* A change of the watch channel sends the push loop back to its query.
LEMMA WakePushSafe ==
  ASSUME IInv, NEW p \in Peer, WakePush(p)
  PROVE  IInv'
<1>t. TypesAt(p) /\ Link(p) /\ JoinTypes
  BY TypesHere
<1> USE <1>t
<1>a. /\ Streaming(p) /\ sub[p].at \in {"live", "op", "ack"} /\ serve[p].batch = <<>>
      /\ serve'[p] = [serve[p] EXCEPT !.at = "query", !.seen = log[p]]
  BY DEF IInv, WakePush, Types, Streaming, Link, Phases, Adjacent
<1>b. /\ serve'[p] \in Serve /\ serve'[p].at = "query" /\ serve'[p].batch = <<>>
      /\ serve'[p].pos = serve[p].pos /\ serve'[p].sent = serve[p].sent
  <2>1. serve[p] \in Serve /\ log[p] \in Nat
    BY DEF TypesAt
  <2> QED
    BY <1>a, <2>1 DEF Serve
<1>0. /\ sub'[p] = sub[p] /\ up'[p] = up[p] /\ down'[p] = down[p]
      /\ cursor'[p] = cursor[p] /\ have'[p] = have[p] /\ Quiet(p)
  BY DEF IInv, WakePush, Types, Quiet, join
<1>1. Only(p)
  BY DEF IInv, WakePush, Types, Only, join
<1>2. TypesAt(p)'
  BY <1>0, <1>b DEF TypesAt, Quiet
<1>3. JoinTypes'
  BY DEF WakePush, JoinTypes, join
<1>4. Link(p)'
  <2>1. Phases(p)' /\ Dialled(p)'
    BY <1>0, <1>a, <1>b DEF Link, Phases, Dialled, Quiet, Streaming
  <2>2. Prefix(p)' /\ GateAhead(p)' /\ AcksBehind(p)'
    BY <1>0 DEF Link, Prefix, GateAhead, AcksBehind, Quiet
  <2>3. Adjacent(p)'
    BY <1>0, <1>a, <1>b DEF Link, Adjacent, Quiet, Streaming, Taken
  <2> QED
    BY <2>1, <2>2, <2>3 DEF Link
<1> QED
  BY <1>1, <1>2, <1>3, <1>4, OneLink

\* An ack that is read is at or below the durable cursor, and so it is below
\* sent_frontier and keeps last_acked_seq there too.
LEMMA AckIsHonest ==
  ASSUME IInv, NEW p \in Peer, NEW n \in Nat, n <= cursor[p]
  PROVE  /\ Larger(acked[p], n) \in Nat /\ Larger(acked[p], n) <= cursor[p]
         /\ Streaming(p) => n <= serve[p].sent
<1>1. TypesAt(p) /\ Link(p)
  BY TypesHere
<1>2. Larger(acked[p], n) \in Nat /\ Larger(acked[p], n) <= cursor[p]
  BY <1>1 DEF TypesAt, Link, Prefix, Larger
<1>3. ASSUME Streaming(p) PROVE n <= serve[p].sent
  <2>1. serve[p].sent = Taken(p) + Len(down[p]) /\ Len(down[p]) \in Nat
    BY <1>1, <1>3 DEF Link, Adjacent, TypesAt
  <2>2. cursor[p] \in Nat /\ Taken(p) \in Nat /\ cursor[p] <= Taken(p)
    BY <1>1 DEF TypesAt, Taken
  <2> QED
    BY <2>1, <2>2
<1> QED
  BY <1>2, <1>3

\* An ack that is read was sent behind the cursor.
LEMMA AbsorbAckSafe ==
  ASSUME IInv, NEW p \in Peer, AbsorbAck(p)
  PROVE  /\ IInv'
         /\ Head(up[p]).seq \in Nat /\ Head(up[p]).seq <= cursor[p]
         /\ acked' = [acked EXCEPT ![p] = Larger(@, Head(up[p]).seq)]
         /\ UNCHANGED <<log, cursor, have, expected>>
<1>t. TypesAt(p) /\ Link(p) /\ JoinTypes
  BY TypesHere
<1> USE <1>t
<1> DEFINE n == Head(up[p]).seq
<1>a. Streaming(p) /\ up[p] # <<>>
  BY DEF AbsorbAck, Streaming
<1>b. /\ Head(up[p]) = up[p][1] /\ 1 \in 1 .. Len(up[p]) /\ Head(up[p]) \in Frame
      /\ Tail(up[p]) \in Seq(Frame) /\ Len(Tail(up[p])) = Len(up[p]) - 1
      /\ \A i \in 1 .. Len(up[p]) - 1 : Tail(up[p])[i] = up[p][i + 1]
      /\ Len(up[p]) \in Nat
  BY <1>a, HeadTailProperties DEF TypesAt
<1>c. n \in Nat /\ n <= cursor[p]
  BY <1>b DEF Frame, Link, AcksBehind
<1>d. n <= serve[p].sent /\ Larger(acked[p], n) \in Nat /\ Larger(acked[p], n) <= cursor[p]
  BY <1>a, <1>c, AckIsHonest
<1>e. /\ acked' = [acked EXCEPT ![p] = Larger(@, n)]
      /\ up' = [up EXCEPT ![p] = Tail(@)]
      /\ UNCHANGED <<sub, serve, down, late, join>>
      /\ UNCHANGED <<log, cursor, have, faults, changes>>
  BY <1>d DEF AbsorbAck, AdvanceAck
<1> HIDE DEF n
<1>1. Only(p)
  BY <1>e DEF IInv, Types, Only, join
<1>2. acked'[p] = Larger(acked[p], n) /\ up'[p] = Tail(up[p])
  BY <1>e DEF IInv, Types
<1>3. TypesAt(p)'
  BY <1>b, <1>d, <1>e, <1>2 DEF TypesAt
<1>4. JoinTypes'
  BY <1>e DEF JoinTypes, join
<1>5. Link(p)'
  <2>1. Phases(p)' /\ Dialled(p)'
    BY <1>a, <1>e DEF Link, Phases, Dialled, Streaming, join
  <2>2. Prefix(p)' /\ GateAhead(p)'
    BY <1>d, <1>e, <1>2 DEF Link, Prefix, GateAhead
  <2>3. \A i \in 1 .. Len(up'[p]) : up'[p][i].seq <= cursor'[p]
    BY <1>b, <1>e, <1>2 DEF Link, AcksBehind
  <2>4. AcksBehind(p)'
    BY <1>e, <2>3 DEF Link, AcksBehind
  <2>5. Adjacent(p)'
    BY <1>e DEF Link, Adjacent, Streaming, Taken
  <2> QED
    BY <2>1, <2>2, <2>4, <2>5 DEF Link
<1>6. expected' = expected
  BY <1>e DEF join
<1> QED
  BY <1>c, <1>e, <1>1, <1>3, <1>4, <1>5, <1>6, OneLink DEF n

\* So was one of a connection that is gone.
LEMMA LateAckSafe ==
  ASSUME IInv, NEW p \in Peer, LateAck(p)
  PROVE  /\ IInv'
         /\ \E n \in Nat : /\ n <= cursor[p]
                           /\ acked' = [acked EXCEPT ![p] = Larger(@, n)]
         /\ UNCHANGED <<log, cursor, have, expected>>
<1>t. TypesAt(p) /\ Link(p) /\ JoinTypes
  BY TypesHere
<1> USE <1>t
<1> DEFINE n(c) == c.acks[1].seq
           left(c) == IF Len(c.acks) = 1 THEN {} ELSE {[c EXCEPT !.acks = Tail(@)]}
<1>a. PICK c \in late[p] :
        /\ acked' = [acked EXCEPT ![p] = Larger(@, n(c))]
        /\ late' = [late EXCEPT ![p] = (@ \ {c}) \cup left(c)]
        /\ UNCHANGED <<log, cursor, have, sub, serve, up, down, join, faults, changes>>
  BY DEF LateAck, AdvanceAck
<1>b. /\ c \in Late /\ c.acks \in Seq(Frame) /\ c.acks # <<>>
      /\ \A i \in 1 .. Len(c.acks) : c.acks[i].seq <= cursor[p]
  BY DEF TypesAt, Late, Link, AcksBehind
<1>c. /\ Len(c.acks) \in Nat /\ 1 \in 1 .. Len(c.acks) /\ c.acks[1] \in Frame
      /\ Tail(c.acks) \in Seq(Frame) /\ Len(Tail(c.acks)) = Len(c.acks) - 1
      /\ \A i \in 1 .. Len(c.acks) - 1 : Tail(c.acks)[i] = c.acks[i + 1]
  BY <1>b, HeadTailProperties
<1>d. n(c) \in Nat /\ n(c) <= cursor[p]
  BY <1>b, <1>c DEF Frame
<1>e. Larger(acked[p], n(c)) \in Nat /\ Larger(acked[p], n(c)) <= cursor[p]
  BY <1>d, AckIsHonest
<1>f. ASSUME NEW x \in left(c)
      PROVE  /\ x \in Late /\ x.acks # <<>>
             /\ \A i \in 1 .. Len(x.acks) : x.acks[i].seq <= cursor[p]
  <2>1. Len(c.acks) # 1 /\ x = [c EXCEPT !.acks = Tail(@)]
    OBVIOUS
  <2>2. x \in Late /\ x.acks = Tail(c.acks)
    BY <1>b, <1>c, <2>1 DEF Late
  <2>3. x.acks # <<>>
    <3>1. Len(Tail(c.acks)) # 0
      BY <1>c, <2>1
    <3> QED
      BY <2>2, <3>1, EmptySeq
  <2>4. \A i \in 1 .. Len(c.acks) - 1 : c.acks[i + 1].seq <= cursor[p]
    BY <1>b, <1>c
  <2> QED
    BY <1>c, <2>2, <2>3, <2>4
<1> HIDE DEF n, left
<1>1. Only(p)
  BY <1>a DEF IInv, Types, Only, join
<1>2. acked'[p] = Larger(acked[p], n(c)) /\ late'[p] = (late[p] \ {c}) \cup left(c)
  BY <1>a DEF IInv, Types
<1>3. TypesAt(p)'
  BY <1>a, <1>e, <1>f, <1>2 DEF TypesAt
<1>4. JoinTypes'
  BY <1>a DEF JoinTypes, join
<1>5. Link(p)'
  <2>1. Phases(p)' /\ Dialled(p)'
    BY <1>a DEF Link, Phases, Dialled, Streaming, join
  <2>2. Prefix(p)' /\ GateAhead(p)'
    BY <1>a, <1>e, <1>2 DEF Link, Prefix, GateAhead
  <2>3. AcksBehind(p)'
    BY <1>a, <1>f, <1>2 DEF Link, AcksBehind
  <2>4. Adjacent(p)'
    BY <1>a DEF Link, Adjacent, Streaming, Taken
  <2> QED
    BY <2>1, <2>2, <2>3, <2>4 DEF Link
<1>6. expected' = expected
  BY <1>a DEF join
<1> QED
  BY <1>a, <1>d, <1>1, <1>3, <1>4, <1>5, <1>6, OneLink

\* Late acks may be lost.
LEMMA ForgetSafe ==
  ASSUME IInv, NEW p \in Peer, Forget(p)
  PROVE  IInv' /\ expected' = expected
<1>t. TypesAt(p) /\ Link(p) /\ JoinTypes
  BY TypesHere
<1> USE <1>t
<1>a. PICK c \in late[p] :
        /\ late' = [late EXCEPT ![p] = @ \ {c}]
        /\ UNCHANGED <<log, acked, cursor, have, sub, serve, up, down, join, faults,
                       changes>>
  BY DEF Forget
<1>1. Only(p) /\ late'[p] = late[p] \ {c}
  BY <1>a DEF IInv, Types, Only, join
<1>2. TypesAt(p)'
  BY <1>a, <1>1 DEF TypesAt
<1>3. JoinTypes' /\ expected' = expected
  BY <1>a DEF JoinTypes, join
<1>4. Link(p)'
  <2>1. Phases(p)' /\ Dialled(p)' /\ Prefix(p)' /\ GateAhead(p)'
    BY <1>a DEF Link, Phases, Dialled, Streaming, join, Prefix, GateAhead
  <2>2. AcksBehind(p)'
    BY <1>a, <1>1 DEF Link, AcksBehind
  <2>3. Adjacent(p)'
    BY <1>a DEF Link, Adjacent, Streaming, Taken
  <2> QED
    BY <2>1, <2>2, <2>3 DEF Link
<1> QED
  BY <1>1, <1>2, <1>3, <1>4, OneLink

-----------------------------------------------------------------------------
(* Lost connections and the roster *)

\* A dial that fails only tells the join tracker.
LEMMA DialFailsSafe ==
  ASSUME IInv, NEW p \in Peer, DialFails(p)
  PROVE  IInv' /\ UNCHANGED <<log, acked, have, expected>>
<1>t. TypesAt(p) /\ Link(p) /\ JoinTypes
  BY TypesHere
<1> USE <1>t
<1>0. faults' \in Nat /\ changes' \in Nat
  BY DEF DialFails, JoinTypes
<1>1. expected' = expected /\ JoinTypes'
  BY <1>0, NoteUnreachableTypes DEF DialFails
<1>2. Types'
  BY DEF DialFails, wire, IInv, Types
<1>3. ASSUME NEW q \in Peer PROVE Link(q)'
  BY <1>1, UntouchedKept DEF DialFails, wire, IInv, Untouched
<1> QED
  BY <1>1, <1>2, <1>3 DEF IInv, DialFails

\* What a lost connection leaves behind are acks of a stream.
LEMMA LeftoverIsLate ==
  ASSUME IInv, NEW p \in Peer, NEW c \in Leftover(p)
  PROVE  /\ c \in Late /\ c.acks # <<>>
         /\ \A i \in 1 .. Len(c.acks) : c.acks[i].seq <= cursor[p]
<1>t. TypesAt(p) /\ Link(p) /\ JoinTypes
  BY TypesHere
<1> USE <1>t
<1>1. c = [acks |-> up[p], sent |-> serve[p].sent] /\ up[p] # <<>>
  BY DEF Leftover
<1>2. serve[p].sent \in Nat
  BY DEF TypesAt, Serve
<1> QED
  BY <1>1, <1>2 DEF Late, TypesAt, Link, AcksBehind

\* Connections may be lost together; what is durable stays.
LEMMA HangupSafe ==
  ASSUME IInv, NEW P \in SUBSET Peer, Hangup(P), JoinTypes',
         UNCHANGED <<log, acked, cursor, have>>,
         \A q \in Peer \ P : q \in expected => q \in expected'
  PROVE  IInv'
<1>1. Types'
  <2>1. sub' \in [Peer -> Sub]
    BY DEF IInv, Types, Hangup, Backoff, Sub
  <2>2. serve' \in [Peer -> Serve]
    BY DEF IInv, Types, Hangup, Unconnected, Serve
  <2>3. up' \in [Peer -> Seq(Frame)] /\ down' \in [Peer -> Seq(Frame)]
    BY DEF IInv, Types, Hangup
  <2>4. late' \in [Peer -> SUBSET Late]
    BY LeftoverIsLate DEF IInv, Types, Hangup
  <2> QED
    BY <2>1, <2>2, <2>3, <2>4 DEF IInv, Types
<1>2. ASSUME NEW q \in Peer, q \notin P PROVE Link(q)'
  <2>1. Untouched(q)
    BY <1>2 DEF IInv, Types, Hangup, Untouched
  <2> QED
    BY <2>1, UntouchedKept DEF IInv
<1>3. ASSUME NEW q \in P PROVE Link(q)'
  <2>t. TypesAt(q) /\ Link(q) /\ JoinTypes
    BY TypesHere
  <2> USE <2>t
  <2>1. /\ sub'[q] = Backoff /\ serve'[q] = Unconnected
        /\ up'[q] = <<>> /\ down'[q] = <<>> /\ late'[q] = late[q] \cup Leftover(q)
    BY DEF Hangup
  <2>2. Phases(q)' /\ Dialled(q)' /\ GateAhead(q)' /\ Adjacent(q)'
    BY <2>1 DEF Phases, Dialled, GateAhead, Adjacent, Streaming, Backoff, Unconnected,
                TypesAt
  <2>3. Prefix(q)'
    BY DEF Link, Prefix
  <2>4. AcksBehind(q)'
    BY <2>1, LeftoverIsLate DEF Link, AcksBehind
  <2> QED
    BY <2>2, <2>3, <2>4 DEF Link
<1> QED
  BY <1>1, <1>2, <1>3 DEF IInv

\* A lost connection leaves its acks behind.
LEMMA LoseSafe ==
  ASSUME IInv, NEW p \in Peer, Lose(p)
  PROVE  IInv' /\ UNCHANGED <<log, acked, have, expected>>
<1>t. TypesAt(p) /\ Link(p) /\ JoinTypes
  BY TypesHere
<1> USE <1>t
<1>0. faults' \in Nat /\ changes' \in Nat
  BY DEF Lose, JoinTypes
<1>1. expected' = expected /\ JoinTypes'
  <2>1. CASE NoteUnreachable(p)
    BY <1>0, <2>1, NoteUnreachableTypes
  <2>2. CASE UNCHANGED join
    BY <1>0, <2>2 DEF JoinTypes, join
  <2> QED
    BY <2>1, <2>2 DEF Lose
<1> QED
  BY <1>1, HangupSafe DEF Lose

\* After a kill the durable cursor and what was applied remain.
LEMMA CrashSafe ==
  ASSUME IInv, Crash
  PROVE  IInv' /\ UNCHANGED <<log, acked, have, expected>>
<1>1. JoinTypes'
  BY DEF IInv, JoinTypes, Crash, Started, Lifecycle
<1> QED
  BY <1>1, HangupSafe DEF Crash

\* A roster change closes the connections of those who left.
LEMMA SetExpectedSafe ==
  ASSUME IInv, NEW E \in SUBSET Peer, SetExpected(E)
  PROVE  IInv' /\ UNCHANGED <<log, acked, have>> /\ expected' = E
<1>1. JoinTypes' /\ expected' = E
  <2>1. faults' \in Nat /\ changes' \in Nat
    BY DEF IInv, JoinTypes, SetExpected
  <2> QED
    BY <2>1, RecomputeTypes DEF IInv, JoinTypes, SetExpected
<1>2. \A q \in Peer \ (expected \ E) : q \in expected => q \in expected'
  BY <1>1
<1>3. expected \ E \in SUBSET Peer
  BY DEF IInv, JoinTypes
<1> QED
  BY <1>1, <1>2, <1>3, HangupSafe DEF SetExpected

-----------------------------------------------------------------------------
(* The invariant *)

\* Every step keeps the invariant.
LEMMA NextSafe ==
  ASSUME IInv, [Next]_vars
  PROVE  IInv'
<1>1. CASE UNCHANGED vars
  <2>1. Types' /\ JoinTypes'
    BY <1>1 DEF IInv, vars, wire, join, Types, JoinTypes
  <2>2. ASSUME NEW q \in Peer PROVE Link(q)'
    BY <1>1, UntouchedKept DEF IInv, vars, wire, join, Untouched
  <2> QED
    BY <2>1, <2>2 DEF IInv
<1>2. ASSUME NEW p \in Peer, Subscriber(p) PROVE IInv'
  BY <1>2, DialSafe, ReadHelloAckSafe, OpenGateSafe, PullDoneSafe, AdvanceRecvCursorSafe,
     SubscribeSafe, ReadOpSafe, ProcessRemoteOpSafe, WriteAckSafe DEF Subscriber
<1>3. ASSUME NEW p \in Peer, Accepted(p) \/ PushLoop(p) \/ AppendOp(p) PROVE IInv'
  BY <1>3, ReadHelloSafe, ReadSubscribeOpsSafe, QueryOpsSafe, PushSafe, WakePushSafe,
     AppendOpSafe DEF Accepted, PushLoop
<1>4. ASSUME NEW p \in Peer, \/ AbsorbAck(p) \/ LateAck(p) \/ Forget(p)
                             \/ DialFails(p) \/ Lose(p)
      PROVE  IInv'
  BY <1>4, AbsorbAckSafe, LateAckSafe, ForgetSafe, DialFailsSafe, LoseSafe
<1>5. ASSUME Crash \/ \E E \in SUBSET Peer : SetExpected(E) PROVE IInv'
  BY <1>5, CrashSafe, SetExpectedSafe
<1> QED
  BY <1>1, <1>2, <1>3, <1>4, <1>5 DEF Next

\* The two ends of every connection, and the durable state of both nodes, stay
\* tied together through every step of subscription_io, inbound_io and supervise.
THEOREM Invariance == Spec => []IInv
<1>1. Init => IInv
  BY InitSafe
<1>2. IInv /\ [Next]_vars => IInv'
  BY NextSafe
<1> QED
  BY <1>1, <1>2, PTL DEF Spec

\* No variable leaves its type, and neither what the subscriber has nor its
\* cursor is ever ahead of the peer's log.
THEOREM TypeCorrect == Spec => []TypeOK
<1>1. ASSUME IInv PROVE TypeOK
  <2>1. ASSUME NEW p \in Peer
        PROVE  /\ have[p] \subseteq 1 .. log[p] /\ cursor[p] <= log[p]
               /\ \A c \in late[p] : c.acks \in Seq(Frame) /\ c.sent \in Nat
    <3>1. TypesAt(p) /\ Link(p) /\ JoinTypes
      BY <1>1, TypesHere
    <3>2. PICK k \in cursor[p] .. log[p] : have[p] = 1 .. k
      BY <3>1 DEF Link, Prefix
    <3> QED
      BY <3>1, <3>2 DEF TypesAt, Late
  <2> QED
    BY <1>1, <2>1 DEF IInv, Types, JoinTypes, TypeOK
<1> QED
  BY <1>1, Invariance, PTL

\* inbound_io never drops a subscriber for an ack beyond what was pushed: every
\* ack on its way tells of the durable cursor or less, and on an open stream
\* sent_frontier is never behind it.
THEOREM AcksAccepted == Spec => []HonestAcksAccepted
<1>1. ASSUME IInv PROVE HonestAcksAccepted
  <2>1. ASSUME NEW p \in Peer, Streaming(p), NEW i \in 1 .. Len(up[p])
        PROVE  up[p][i].seq <= serve[p].sent
    <3>1. TypesAt(p) /\ Link(p) /\ JoinTypes
      BY <1>1, TypesHere
    <3>2. up[p][i] \in Frame
      BY <3>1, ElementOfSeq DEF TypesAt
    <3>3. up[p][i].seq \in Nat /\ up[p][i].seq <= cursor[p]
      BY <3>1, <3>2 DEF Frame, Link, AcksBehind
    <3> QED
      BY <2>1, <3>1, <3>3, AckIsHonest, <1>1
  <2> QED
    BY <2>1 DEF HonestAcksAccepted, Streaming
<1> QED
  BY <1>1, Invariance, PTL

\* s lists the ops right after n.
After(s, n) == s \in Seq(Nat) /\ \A i \in 1 .. Len(s) : s[i] = n + i

\* Counting on from a stretch of the log.
LEMMA AfterConcat ==
  ASSUME NEW n \in Nat, NEW s, NEW t, After(s, n), After(t, n + Len(s))
  PROVE  After(s \o t, n) /\ Len(s \o t) = Len(s) + Len(t)
<1>1. s \in Seq(Nat) /\ t \in Seq(Nat) /\ Len(s) \in Nat /\ Len(t) \in Nat
  BY DEF After
<1>2. /\ s \o t \in Seq(Nat) /\ Len(s \o t) = Len(s) + Len(t)
      /\ \A i \in 1 .. Len(s) + Len(t) :
           (s \o t)[i] = IF i <= Len(s) THEN s[i] ELSE t[i - Len(s)]
  BY <1>1, ConcatProperties
<1>3. ASSUME NEW i \in 1 .. Len(s) + Len(t) PROVE (s \o t)[i] = n + i
  <2>1. CASE i <= Len(s)
    BY <1>1, <1>2, <2>1 DEF After
  <2>2. CASE ~(i <= Len(s))
    <3>1. i - Len(s) \in 1 .. Len(t)
      BY <1>1, <2>2
    <3>2. t[i - Len(s)] = n + Len(s) + (i - Len(s))
      BY <3>1 DEF After
    <3> QED
      BY <1>1, <1>2, <2>2, <3>2
  <2> QED
    BY <2>1, <2>2
<1> QED
  BY <1>2, <1>3 DEF After

\* What is on its way to the subscriber (the op in hand, the pushes in flight,
\* the batch the server is writing) are the ops right after the durable cursor,
\* whatever was resumed, redialled, crashed or cut short before: new_cursor
\* hands the gate over to the stream without a gap and without a repetition.
THEOREM HandoffIsSeamless == Spec => []Seamless
<1>1. ASSUME IInv PROVE Seamless
  <2>1. ASSUME NEW p \in Peer, Streaming(p)
        PROVE  \A i \in 1 .. Len(Flight(p)) : Flight(p)[i] = cursor[p] + i
    <3> DEFINE hand == IF sub[p].at = "op" THEN <<sub[p].op>> ELSE <<>>
               sent == [i \in 1 .. Len(down[p]) |-> down[p][i].seq]
    <3>t. TypesAt(p) /\ Link(p) /\ JoinTypes
      BY <1>1, TypesHere
    <3>n. cursor[p] \in Nat /\ Taken(p) \in Nat /\ Len(down[p]) \in Nat
      BY <3>t DEF TypesAt, Taken
    <3>1. After(hand, cursor[p]) /\ cursor[p] + Len(hand) = Taken(p)
      <4>1. CASE sub[p].at = "op"
        <5>1. hand = <<cursor[p] + 1>>
          BY <3>t, <4>1 DEF Link, Adjacent
        <5>2. Len(<<cursor[p] + 1>>) = 1 /\ <<cursor[p] + 1>> \in Seq(Nat)
              /\ <<cursor[p] + 1>>[1] = cursor[p] + 1
          BY <3>n
        <5> QED
          BY <3>n, <4>1, <5>1, <5>2 DEF After, Taken
      <4>2. CASE sub[p].at # "op"
        BY <3>n, <4>2 DEF After, Taken
      <4> QED
        BY <4>1, <4>2
    <3>2. After(sent, Taken(p)) /\ Len(sent) = Len(down[p])
      <4>1. \A i \in 1 .. Len(down[p]) : down[p][i].seq = Taken(p) + i
        BY <2>1, <3>t DEF Link, Adjacent
      <4>2. sent \in [1 .. Len(down[p]) -> Nat]
        BY <3>n, <4>1
      <4>3. sent \in Seq(Nat) /\ Len(sent) = Len(down[p])
        BY <3>n, <4>2
      <4> QED
        BY <4>1, <4>3 DEF After
    <3>3. After(serve[p].batch, Taken(p) + Len(down[p]))
      BY <2>1, <3>t DEF Link, Adjacent, After, TypesAt, Serve
    <3> HIDE DEF hand, sent
    <3>4. After(hand \o sent, cursor[p]) /\ Len(hand \o sent) = Len(hand) + Len(sent)
      BY <3>n, <3>1, <3>2, AfterConcat
    <3>5. cursor[p] + Len(hand \o sent) = Taken(p) + Len(down[p])
      <4>1. Len(hand) \in Nat
        BY <3>1 DEF After
      <4> QED
        BY <3>n, <3>1, <3>2, <3>4, <4>1
    <3>6. After((hand \o sent) \o serve[p].batch, cursor[p])
      BY <3>n, <3>3, <3>4, <3>5, AfterConcat
    <3>7. Flight(p) = (hand \o sent) \o serve[p].batch
      BY DEF Flight, hand, sent
    <3> QED
      BY <3>6, <3>7 DEF After
  <2> QED
    BY <2>1 DEF Seamless, Streaming
<1> QED
  BY <1>1, Invariance, PTL

-----------------------------------------------------------------------------
(* The stream implements Delivery *)

\* A step that Delivery does not see.
LEMMA Unseen ==
  ASSUME UNCHANGED <<log, acked, have, expected>>
  PROVE  UNCHANGED Promise!vars
BY DEF Promise!vars

\* A pull makes the subscriber's what the gate's snapshot holds, or nothing new.
LEMMA PullDelivers ==
  ASSUME IInv, NEW p \in Peer, PullDone(p)
  PROVE  [Promise!Next]_(Promise!vars)
<1>t. TypesAt(p) /\ Link(p) /\ JoinTypes
  BY TypesHere
<1> DEFINE f == sub[p].frontier
<1>1. /\ sub[p].at = "pull" /\ UNCHANGED <<log, acked, expected>>
      /\ have' = [have EXCEPT ![p] = @ \cup 1 .. f]
  BY DEF PullDone, join
<1>2. /\ f \in Nat /\ f <= log[p] /\ have[p] \subseteq 1 .. f /\ log[p] \in Nat
      /\ p \in expected \ Dead
  BY <1>t, <1>1 DEF TypesAt, Sub, Link, GateAhead, Dialled
<1>3. have' = [have EXCEPT ![p] = 1 .. f]
  BY <1>1, <1>2
<1>4. PICK k \in Nat : have[p] = 1 .. k
  BY <1>t DEF TypesAt, Link, Prefix
<1> HIDE DEF f
<1>5. CASE f \in have[p] \/ f = 0
  <2>1. have[p] = 1 .. f
    <3>1. CASE f \in have[p]
      BY <1>2, <1>4, <3>1
    <3>2. CASE f = 0
      BY <1>2, <3>2
    <3> QED
      BY <1>5, <3>1, <3>2
  <2>2. have' = have
    BY <1>3, <2>1 DEF IInv, Types
  <2> QED
    BY <1>1, <2>2, Unseen
<1>6. CASE f \notin have[p] /\ f # 0
  <2>1. f \in 1 .. log[p]
    BY <1>2, <1>6
  <2>2. Promise!Handle(p)
    BY <1>1, <1>2, <1>3, <1>6, <2>1 DEF Promise!Handle
  <2> QED
    BY <2>2 DEF Promise!Next
<1> QED
  BY <1>5, <1>6

\* process_remote_op delivers the next op.
LEMMA OpDelivers ==
  ASSUME IInv, NEW p \in Peer, ProcessRemoteOp(p)
  PROVE  Promise!Next
<1>t. TypesAt(p) /\ Link(p) /\ JoinTypes
  BY TypesHere
<1> DEFINE n == cursor[p] + 1
<1>1. n \in 1 .. log[p] /\ have[p] = 1 .. cursor[p] /\ have'[p] = 1 .. n
  BY <1>t, ProcessRemoteOpSafe DEF TypesAt
<1>2. have[p] \subseteq 1 .. n /\ n \notin have[p]
  BY <1>t, <1>1 DEF TypesAt
<1>3. sub[p].at = "op" /\ UNCHANGED <<log, acked, expected>>
  BY DEF ProcessRemoteOp, join
<1>4. p \in expected \ Dead
  BY <1>t, <1>3 DEF Link, Dialled
<1> HIDE DEF n
<1>5. have' = [have EXCEPT ![p] = 1 .. n]
  BY <1>1 DEF IInv, Types, ProcessRemoteOp
<1>6. Promise!Handle(p)
  BY <1>1, <1>2, <1>3, <1>4, <1>5 DEF Promise!Handle
<1> QED
  BY <1>6 DEF Promise!Next

\* An ack teaches the peer something it did not know, or nothing.
LEMMA AckLearns ==
  ASSUME IInv, NEW p \in Peer, NEW n \in Nat, n <= cursor[p],
         acked' = [acked EXCEPT ![p] = Larger(@, n)], UNCHANGED <<log, have, expected>>
  PROVE  [Promise!Next]_(Promise!vars)
<1>t. TypesAt(p) /\ Link(p) /\ JoinTypes
  BY TypesHere
<1>1. CASE n > acked[p]
  <2>0. Larger(acked[p], n) = n
    BY <1>t, <1>1 DEF TypesAt, Larger
  <2>1. acked' = [acked EXCEPT ![p] = n]
    BY <2>0
  <2>2. PICK k \in cursor[p] .. log[p] : have[p] = 1 .. k
    BY <1>t DEF Link, Prefix
  <2>3. n \in have[p]
    BY <1>t, <1>1, <2>2 DEF TypesAt
  <2>4. Promise!Learn(p)
    BY <1>1, <2>1, <2>3 DEF Promise!Learn
  <2> QED
    BY <2>4 DEF Promise!Next
<1>2. CASE ~(n > acked[p])
  <2>1. acked' = acked
    BY <1>t, <1>2 DEF TypesAt, Larger, IInv, Types
  <2> QED
    BY <2>1, Unseen
<1> QED
  BY <1>1, <1>2

\* Every step of Stream is a step of Delivery or a stutter.
LEMMA NextDelivers ==
  ASSUME IInv, [Next]_vars
  PROVE  [Promise!Next]_(Promise!vars)
<1>1. CASE UNCHANGED vars
  BY <1>1, Unseen DEF vars, join
<1>2. ASSUME NEW p \in Peer, Subscriber(p) PROVE [Promise!Next]_(Promise!vars)
  <2>1. CASE PullDone(p)
    BY <2>1, PullDelivers
  <2>2. CASE ProcessRemoteOp(p)
    BY <2>2, OpDelivers
  <2>3. CASE Subscribe(p)
    <3>1. UNCHANGED <<log, acked, have, expected>>
      BY <2>3, SubscribeSafe DEF Subscribe
    <3> QED
      BY <3>1, Unseen
  <2>4. CASE \/ Dial(p) \/ ReadHelloAck(p) \/ OpenGate(p) \/ AdvanceRecvCursor(p)
             \/ ReadOp(p) \/ WriteAck(p)
    <3>1. UNCHANGED <<log, acked, have, expected>>
      BY <2>4 DEF Dial, ReadHelloAck, OpenGate, AdvanceRecvCursor, ReadOp, WriteAck, join
    <3> QED
      BY <3>1, Unseen
  <2> QED
    BY <1>2, <2>1, <2>2, <2>3, <2>4 DEF Subscriber
<1>3. ASSUME NEW p \in Peer, AppendOp(p) PROVE [Promise!Next]_(Promise!vars)
  <2>1. Promise!Append(p)
    BY <1>3 DEF AppendOp, join, Promise!Append
  <2> QED
    BY <2>1 DEF Promise!Next
<1>4. ASSUME NEW p \in Peer, Accepted(p) \/ PushLoop(p)
      PROVE  [Promise!Next]_(Promise!vars)
  <2>1. UNCHANGED <<log, acked, have, expected>>
    BY <1>4 DEF Accepted, PushLoop, ReadHello, ReadSubscribeOps, QueryOps, Push, WakePush,
                join
  <2> QED
    BY <2>1, Unseen
<1>5. ASSUME NEW p \in Peer, AbsorbAck(p) \/ LateAck(p)
      PROVE  [Promise!Next]_(Promise!vars)
  <2>1. PICK n \in Nat : /\ n <= cursor[p]
                         /\ acked' = [acked EXCEPT ![p] = Larger(@, n)]
                         /\ UNCHANGED <<log, have, expected>>
    <3>1. CASE AbsorbAck(p)
      BY <3>1, AbsorbAckSafe
    <3>2. CASE LateAck(p)
      BY <3>2, LateAckSafe
    <3> QED
      BY <1>5, <3>1, <3>2
  <2> QED
    BY <2>1, AckLearns
<1>6. ASSUME NEW p \in Peer, Forget(p) \/ DialFails(p) \/ Lose(p)
      PROVE  [Promise!Next]_(Promise!vars)
  <2>1. UNCHANGED <<log, acked, have, expected>>
    <3>1. CASE Forget(p)
      BY <3>1 DEF Forget, join
    <3> QED
      BY <1>6, <3>1, DialFailsSafe, LoseSafe
  <2> QED
    BY <2>1, Unseen
<1>7. CASE Crash
  BY <1>7, CrashSafe, Unseen
<1>8. ASSUME NEW E \in SUBSET Peer, SetExpected(E) PROVE [Promise!Next]_(Promise!vars)
  <2>1. UNCHANGED <<log, acked, have>> /\ expected' \ Dead \in SUBSET Peer
    BY <1>8, SetExpectedSafe
  <2>2. Promise!Relink
    BY <2>1 DEF Promise!Relink
  <2> QED
    BY <2>2 DEF Promise!Next
<1> QED
  BY <1>1, <1>2, <1>3, <1>4, <1>5, <1>6, <1>7, <1>8 DEF Next

\* The op stream implements Delivery, but for its liveness: through every
\* interleaving of gates, streams, late acks, lost connections, crashes and
\* roster changes, an origin's ops become the subscriber's in order and without
\* a gap, none is taken back, and last_acked_seq never tells of more.
THEOREM StreamDelivers == Spec => DeliversInOrder
<1>1. Init => Promise!Init
  BY StreamAssumption DEF Init, Promise!Init
<1>2. IInv /\ [Next]_vars => [Promise!Next]_(Promise!vars)
  BY NextDelivers
<1> QED
  BY <1>1, <1>2, Invariance, PTL DEF Spec, DeliversInOrder, Promise!InOrder

=============================================================================
