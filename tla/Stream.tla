-------------------------------- MODULE Stream --------------------------------
(***************************************************************************)
(* The op stream on the wire: one subscriber, the peers it dials, and the  *)
(* node's join lifecycle (src/net.rs, src/join.rs, and the cursors of      *)
(* src/oplog.rs).  A connection carries the control frames of src/proto.rs *)
(* in both directions, in order; it may be lost at any time, and frames of *)
(* a lost connection may still arrive at the serving side.  An op is its   *)
(* origin_seq; what applying it does to rows and disk is the concern of    *)
(* Replication and Share.                                                  *)
(***************************************************************************)
EXTENDS Naturals, Sequences, FiniteSets

CONSTANTS Peer,
          Dead,        \* the peers that never answer a dial
          Boot,        \* the peers the configuration lists
          MaxSeq,      \* bound: MaxSeq[p], ops of p
          PushBatch,   \* PUSH_BATCH
          MaxFaults,   \* bound: lost connections and crashes
          MaxChanges   \* bound: changes of the roster

ASSUME StreamAssumption ==
  /\ Dead \subseteq Peer /\ Boot \subseteq Peer
  /\ MaxSeq \in [Peer -> Nat]
  /\ PushBatch \in Nat \ {0}
  /\ MaxFaults \in Nat /\ MaxChanges \in Nat

VARIABLES
  log,         \* log[p]: the last op that p has appended
  acked,       \* acked[p]: p's last_acked_seq for the subscriber
  cursor,      \* cursor[p]: the subscriber's durable recv_cursor
  have,        \* history: have[p], ops of p handled, or part of a pulled snapshot
  sub,         \* sub[p]: where subscribe_once stands
  serve,       \* serve[p]: where inbound_io stands
  up,          \* up[p]: control frames on their way to p
  down,        \* down[p]: control frames on their way to the subscriber
  late,        \* late[p]: lost connections whose acks p may still read
  expected,    \* the effective peers: those dialled, and those of JoinTracker
  completed, unreachable, lifecycle, \* JoinTracker
  saved,       \* the lifecycle in the meta table
  faults, changes

wire == <<sub, serve, up, down, late>>
join == <<expected, completed, unreachable, lifecycle, saved>>
vars == <<log, acked, cursor, have, wire, join, faults, changes>>

Larger(m, n) == IF m > n THEN m ELSE n

-----------------------------------------------------------------------------
(* State *)

Frame == [kind : {"Hello", "HelloAck", "SubscribeOps", "OplogPush", "OplogAck"},
          seq : Nat]

\* A Hello's resume is ignored by the responder.
Hello == [kind |-> "Hello", seq |-> 0]
HelloAck == [kind |-> "HelloAck", seq |-> 0]
SubscribeOps(n) == [kind |-> "SubscribeOps", seq |-> n]
OplogPush(n) == [kind |-> "OplogPush", seq |-> n]
OplogAck(n) == [kind |-> "OplogAck", seq |-> n]

(***************************************************************************)
(* The subscriber's side: in backoff, waiting for the HelloAck, about to   *)
(* open the gate's session, pulling it, about to advance the cursor, about *)
(* to subscribe, reading the stream, with an op in hand, about to ack it.  *)
(***************************************************************************)
Sub == [at : {"backoff", "hello", "gate", "pull", "advance", "subscribe",
              "live", "op", "ack"},
        resume : Nat, frontier : Nat, op : Nat]

Backoff == [at |-> "backoff", resume |-> 0, frontier |-> 0, op |-> 0]

(***************************************************************************)
(* The serving side: not connected, waiting for the Hello, for             *)
(* SubscribeOps, about to query the log, writing the batch it read, asleep *)
(* until the watched value changes.  sent is sent_frontier.                *)
(***************************************************************************)
Serve == [at : {"none", "hello", "gate", "query", "write", "sleep"},
          pos : Nat, batch : Seq(Nat), sent : Nat, seen : Nat]

Unconnected == [at |-> "none", pos |-> 0, batch |-> <<>>, sent |-> 0, seen |-> 0]

Lifecycle == {"Joining", "Syncing", "Active"}

\* JoinTracker::new, then restore.
Started(E, stored) == IF E = {} \/ stored = "Active" THEN "Active" ELSE "Joining"

Init ==
  /\ log = [p \in Peer |-> 0] /\ acked = log /\ cursor = log
  /\ have = [p \in Peer |-> {}]
  /\ sub = [p \in Peer |-> Backoff]
  /\ serve = [p \in Peer |-> Unconnected]
  /\ up = [p \in Peer |-> <<>>] /\ down = up
  /\ late = [p \in Peer |-> {}]
  /\ expected = Boot /\ completed = {} /\ unreachable = {}
  /\ lifecycle = Started(Boot, "Joining") /\ saved = "Joining"
  /\ faults = 0 /\ changes = 0

-----------------------------------------------------------------------------
(* JoinTracker *)

\* Mutant: the peers are looked at one by one and a dead one holds the node.
BugRecompute(E, C, U) ==
  /\ expected' = E /\ completed' = C /\ unreachable' = U
  /\ lifecycle' = IF lifecycle = "Active" \/ E \subseteq C THEN "Active"
                  ELSE IF C \cup U # {} THEN "Syncing" ELSE "Joining"
  /\ saved' \in {saved, lifecycle'}

\* recompute on the given sets, and the best-effort persist.
Recompute(E, C, U) ==
  /\ expected' = E /\ completed' = C /\ unreachable' = U
  /\ lifecycle' = IF lifecycle = "Active" \/ E \subseteq C \cup U THEN "Active"
                  ELSE IF C \cup U # {} THEN "Syncing" ELSE "Joining"
  /\ saved' \in IF lifecycle' = lifecycle THEN {saved} ELSE {saved, lifecycle'}

NoteGateComplete(p) ==
  Recompute(expected, completed \cup {p}, unreachable \ {p})

NoteUnreachable(p) ==
  IF p \in completed THEN UNCHANGED join
  ELSE Recompute(expected, completed, unreachable \cup {p})

-----------------------------------------------------------------------------
(* Losing a connection *)

\* What p may still read of a connection that is gone.
Leftover(p) ==
  IF serve[p].at \in {"query", "write", "sleep"} /\ up[p] # <<>>
  THEN {[acks |-> up[p], sent |-> serve[p].sent]} ELSE {}

\* The connections to the peers P are gone.
Hangup(P) ==
  /\ sub' = [p \in Peer |-> IF p \in P THEN Backoff ELSE sub[p]]
  /\ serve' = [p \in Peer |-> IF p \in P THEN Unconnected ELSE serve[p]]
  /\ up' = [p \in Peer |-> IF p \in P THEN <<>> ELSE up[p]]
  /\ down' = [p \in Peer |-> IF p \in P THEN <<>> ELSE down[p]]
  /\ late' = [p \in Peer |-> IF p \in P THEN late[p] \cup Leftover(p) ELSE late[p]]

\* The network, a transient failure of an op, or the peer's end of the
\* connection: subscribe_once returns an error, or, when it was reading the
\* stream, perhaps Ok.
Lose(p) ==
  /\ faults < MaxFaults /\ faults' = faults + 1
  /\ sub[p].at # "backoff"
  /\ Hangup({p})
  /\ NoteUnreachable(p) \/ (sub[p].at = "live" /\ UNCHANGED join)
  /\ UNCHANGED <<log, acked, cursor, have, changes>>

\* kill -9 of the subscriber and its restart.
Crash ==
  /\ faults < MaxFaults /\ faults' = faults + 1
  /\ Hangup(Peer)
  /\ completed' = {} /\ unreachable' = {}
  /\ lifecycle' = Started(expected, saved)
  /\ UNCHANGED <<log, acked, cursor, have, expected, saved, changes>>

\* supervise: tasks of removed peers are aborted, then set_expected.
SetExpected(E) ==
  /\ changes < MaxChanges /\ changes' = changes + 1
  /\ E # expected
  /\ Hangup(expected \ E)
  /\ Recompute(E, completed, unreachable)
  /\ UNCHANGED <<log, acked, cursor, have, faults>>

-----------------------------------------------------------------------------
(* The subscriber *)

\* The dial fails; dial_loop backs off and tries again.
DialFails(p) ==
  /\ p \in expected /\ sub[p].at = "backoff"
  /\ NoteUnreachable(p)
  /\ UNCHANGED <<log, acked, cursor, have, wire, faults, changes>>

\* subscribe_once up to the Hello.
Dial(p) ==
  /\ p \in expected \ Dead /\ sub[p].at = "backoff"
  /\ sub' = [sub EXCEPT ![p] = [Backoff EXCEPT !.at = "hello", !.resume = cursor[p]]]
  /\ serve' = [serve EXCEPT ![p] = [Unconnected EXCEPT !.at = "hello"]]
  /\ up' = [up EXCEPT ![p] = <<Hello>>]
  /\ UNCHANGED <<log, acked, cursor, have, down, late, join, faults, changes>>

Goto(p, st) == sub' = [sub EXCEPT ![p].at = st]

ReadHelloAck(p) ==
  /\ sub[p].at = "hello" /\ down[p] # <<>>
  /\ Goto(p, "gate")
  /\ down' = [down EXCEPT ![p] = Tail(@)]
  /\ UNCHANGED <<log, acked, cursor, have, serve, up, late, join, faults, changes>>

\* reconcile_with: the responder's snapshot, rows and frontier in one read ...
OpenGate(p) ==
  /\ sub[p].at = "gate"
  /\ sub' = [sub EXCEPT ![p].at = "pull", ![p].frontier = log[p]]
  /\ UNCHANGED <<log, acked, cursor, have, serve, up, down, late, join, faults,
                 changes>>

\* ... is pulled leaf by leaf.
PullDone(p) ==
  /\ sub[p].at = "pull"
  /\ Goto(p, "advance")
  /\ have' = [have EXCEPT ![p] = @ \cup 1 .. sub[p].frontier]
  /\ UNCHANGED <<log, acked, cursor, serve, up, down, late, join, faults, changes>>

NewCursor(p) == Larger(sub[p].frontier, sub[p].resume)

\* advance_recv_cursor.
AdvanceRecvCursor(p) ==
  /\ sub[p].at = "advance"
  /\ Goto(p, "subscribe")
  /\ cursor' = [cursor EXCEPT ![p] = Larger(@, NewCursor(p))]
  /\ UNCHANGED <<log, acked, have, serve, up, down, late, join, faults, changes>>

\* Mutant: the resume point of the Hello is sent again.
BugSubscribe(p) ==
  /\ sub[p].at = "subscribe"
  /\ Goto(p, "live")
  /\ up' = [up EXCEPT ![p] = Append(@, SubscribeOps(sub[p].resume))]
  /\ NoteGateComplete(p)
  /\ UNCHANGED <<log, acked, cursor, have, serve, down, late, faults, changes>>

Subscribe(p) ==
  /\ sub[p].at = "subscribe"
  /\ Goto(p, "live")
  /\ up' = [up EXCEPT ![p] = Append(@, SubscribeOps(NewCursor(p)))]
  /\ NoteGateComplete(p)
  /\ UNCHANGED <<log, acked, cursor, have, serve, down, late, faults, changes>>

ReadOp(p) ==
  /\ sub[p].at = "live" /\ down[p] # <<>>
  /\ sub' = [sub EXCEPT ![p].at = "op", ![p].op = Head(down[p]).seq]
  /\ down' = [down EXCEPT ![p] = Tail(@)]
  /\ UNCHANGED <<log, acked, cursor, have, serve, up, late, join, faults, changes>>

\* process_remote_op: the op's one durable commit moves the cursor with it.
ProcessRemoteOp(p) ==
  LET n == sub[p].op
  IN  /\ sub[p].at = "op"
      /\ Goto(p, "ack")
      /\ have' = [have EXCEPT ![p] = @ \cup {n}]
      /\ cursor' = [cursor EXCEPT ![p] = Larger(@, n)]
      /\ UNCHANGED <<log, acked, serve, up, down, late, join, faults, changes>>

WriteAck(p) ==
  /\ sub[p].at = "ack"
  /\ sub' = [sub EXCEPT ![p].at = "live", ![p].op = 0]
  /\ up' = [up EXCEPT ![p] = Append(@, OplogAck(sub[p].op))]
  /\ UNCHANGED <<log, acked, cursor, have, serve, down, late, join, faults, changes>>

-----------------------------------------------------------------------------
(* The peers *)

\* append_local at p, and the watched value in the same store command.
AppendOp(p) ==
  /\ log[p] < MaxSeq[p]
  /\ log' = [log EXCEPT ![p] = @ + 1]
  /\ UNCHANGED <<acked, cursor, have, wire, join, faults, changes>>

ReadHello(p) ==
  /\ serve[p].at = "hello" /\ up[p] # <<>>
  /\ serve' = [serve EXCEPT ![p].at = "gate"]
  /\ up' = [up EXCEPT ![p] = Tail(@)]
  /\ down' = [down EXCEPT ![p] = Append(@, HelloAck)]
  /\ UNCHANGED <<log, acked, cursor, have, sub, late, join, faults, changes>>

\* The gate of inbound_io opens.  The watch receiver is a clone of one that
\* has seen nothing since the store was opened.
ReadSubscribeOps(p) ==
  LET n == Head(up[p]).seq
  IN  /\ serve[p].at = "gate" /\ up[p] # <<>>
      /\ serve' = [serve EXCEPT ![p] = [Unconnected EXCEPT
                     !.at = "query", !.pos = n, !.sent = n]]
      /\ up' = [up EXCEPT ![p] = Tail(@)]
      /\ UNCHANGED <<log, acked, cursor, have, sub, down, late, join, faults,
                     changes>>

\* Mutant: one op too many.
BugOpsSince(p, n) ==
  LET some == IF log[p] > n + PushBatch THEN PushBatch
              ELSE IF log[p] > n THEN log[p] - n + 1 ELSE 0
  IN  [i \in 1 .. some |-> n + i]

\* ops_since: the ops after n, at most PushBatch.
OpsSince(p, n) ==
  LET some == IF log[p] > n + PushBatch THEN PushBatch
              ELSE IF log[p] > n THEN log[p] - n ELSE 0
  IN  [i \in 1 .. some |-> n + i]

QueryOps(p) ==
  LET ops == OpsSince(p, serve[p].pos)
  IN  /\ serve[p].at = "query"
      /\ serve' = [serve EXCEPT ![p].batch = ops,
                                ![p].at = IF ops = <<>> THEN "sleep" ELSE "write"]
      /\ UNCHANGED <<log, acked, cursor, have, sub, up, down, late, join, faults,
                     changes>>

\* Mutant: the frontier is not published.
BugPush(p) ==
  LET n == Head(serve[p].batch)
  IN  /\ serve[p].at = "write"
      /\ down' = [down EXCEPT ![p] = Append(@, OplogPush(n))]
      /\ serve' = [serve EXCEPT ![p].pos = n, ![p].batch = Tail(@),
                     ![p].at = IF Len(serve[p].batch) = 1 THEN "query" ELSE "write"]
      /\ UNCHANGED <<log, acked, cursor, have, sub, up, late, join, faults, changes>>

\* Mutant: after the batch the loop waits for the next change.
BugSleepyPush(p) ==
  LET n == Head(serve[p].batch)
  IN  /\ serve[p].at = "write"
      /\ down' = [down EXCEPT ![p] = Append(@, OplogPush(n))]
      /\ serve' = [serve EXCEPT ![p].pos = n, ![p].sent = n, ![p].batch = Tail(@),
                     ![p].at = IF Len(serve[p].batch) = 1 THEN "sleep" ELSE "write"]
      /\ UNCHANGED <<log, acked, cursor, have, sub, up, late, join, faults, changes>>

\* The frame and sent_frontier: inbound_io polls its three loops in one task,
\* so no ack is read between the two.
Push(p) ==
  LET n == Head(serve[p].batch)
  IN  /\ serve[p].at = "write"
      /\ down' = [down EXCEPT ![p] = Append(@, OplogPush(n))]
      /\ serve' = [serve EXCEPT ![p].pos = n, ![p].sent = n, ![p].batch = Tail(@),
                     ![p].at = IF Len(serve[p].batch) = 1 THEN "query" ELSE "write"]
      /\ UNCHANGED <<log, acked, cursor, have, sub, up, late, join, faults, changes>>

\* changed() of the watch channel returns when there is an unseen value.
WakePush(p) ==
  /\ serve[p].at = "sleep" /\ serve[p].seen # log[p]
  /\ serve' = [serve EXCEPT ![p].at = "query", ![p].seen = log[p]]
  /\ UNCHANGED <<log, acked, cursor, have, sub, up, down, late, join, faults,
                 changes>>

\* Mutant: the last ack read wins.
BugAdvanceAck(p, n) == acked' = [acked EXCEPT ![p] = n]

\* advance_ack.
AdvanceAck(p, n) == acked' = [acked EXCEPT ![p] = Larger(@, n)]

\* absorb_acks: an ack beyond what was pushed ends the connection.
AbsorbAck(p) ==
  LET n == Head(up[p]).seq
  IN  /\ serve[p].at \in {"query", "write", "sleep"} /\ up[p] # <<>>
      /\ IF n <= serve[p].sent
         THEN /\ AdvanceAck(p, n)
              /\ up' = [up EXCEPT ![p] = Tail(@)]
              /\ UNCHANGED <<sub, serve, down, late, join>>
         ELSE /\ Hangup({p}) /\ NoteUnreachable(p)
              /\ UNCHANGED acked
      /\ UNCHANGED <<log, cursor, have, faults, changes>>

\* absorb_acks of a connection whose loss p has not noticed yet.
LateAck(p) ==
  \E c \in late[p] :
    /\ c.acks[1].seq <= c.sent
    /\ AdvanceAck(p, c.acks[1].seq)
    /\ late' = [late EXCEPT ![p] = (@ \ {c}) \cup
                  (IF Len(c.acks) = 1 THEN {} ELSE {[c EXCEPT !.acks = Tail(@)]})]
    /\ UNCHANGED <<log, cursor, have, sub, serve, up, down, join, faults, changes>>

\* p notices the loss.
Forget(p) ==
  \E c \in late[p] :
    /\ late' = [late EXCEPT ![p] = @ \ {c}]
    /\ UNCHANGED <<log, acked, cursor, have, sub, serve, up, down, join, faults,
                   changes>>

-----------------------------------------------------------------------------
(* Specification *)

Subscriber(p) ==
  \/ Dial(p) \/ ReadHelloAck(p) \/ OpenGate(p) \/ PullDone(p)
  \/ AdvanceRecvCursor(p) \/ Subscribe(p) \/ ReadOp(p) \/ ProcessRemoteOp(p)
  \/ WriteAck(p)

PushLoop(p) == QueryOps(p) \/ Push(p) \/ WakePush(p)

Accepted(p) == ReadHello(p) \/ ReadSubscribeOps(p)

Next ==
  \/ \E p \in Peer :
       \/ AppendOp(p) \/ Subscriber(p) \/ DialFails(p) \/ Lose(p)
       \/ Accepted(p) \/ PushLoop(p) \/ AbsorbAck(p) \/ LateAck(p) \/ Forget(p)
  \/ Crash
  \/ \E E \in SUBSET Peer : SetExpected(E)

(***************************************************************************)
(* dial_loop never gives up, and a subscription, the push loop and the ack *)
(* loop carry on while the connection is there.  Nothing obliges users to  *)
(* write, operators to act or connections to break.                        *)
(***************************************************************************)
Fairness ==
  /\ \A p \in Peer : /\ WF_vars(Subscriber(p)) /\ WF_vars(Accepted(p))
                    /\ WF_vars(PushLoop(p)) /\ WF_vars(AbsorbAck(p))
  /\ \A p \in Dead : WF_vars(DialFails(p))

Spec == Init /\ [][Next]_vars /\ Fairness

-----------------------------------------------------------------------------
(* Properties *)

\* Every variable has its type, and neither side is ahead of the peer's log
\* (ops_since, recv_cursor).
TypeOK ==
  /\ log \in [Peer -> Nat] /\ acked \in [Peer -> Nat] /\ cursor \in [Peer -> Nat]
  /\ \A p \in Peer : have[p] \subseteq 1 .. log[p] /\ cursor[p] <= log[p]
  /\ sub \in [Peer -> Sub] /\ serve \in [Peer -> Serve]
  /\ up \in [Peer -> Seq(Frame)] /\ down \in [Peer -> Seq(Frame)]
  /\ \A p \in Peer : \A c \in late[p] : c.acks \in Seq(Frame) /\ c.sent \in Nat
  /\ expected \subseteq Peer /\ completed \subseteq Peer /\ unreachable \subseteq Peer
  /\ lifecycle \in Lifecycle /\ saved \in Lifecycle
  /\ faults \in Nat /\ changes \in Nat

\* A subscriber that keeps to the protocol is never dropped for its acks:
\* sent_frontier, set up from the resume point and raised with every frame,
\* stays at or above every ack on its way, whatever was resumed or redialled.
HonestAcksAccepted ==
  \A p \in Peer :
    serve[p].at \in {"query", "write", "sleep"} =>
      \A i \in 1 .. Len(up[p]) : up[p][i].seq <= serve[p].sent

\* The op in hand, the pushes in flight and the batch being written.
Flight(p) ==
  (IF sub[p].at = "op" THEN <<sub[p].op>> ELSE <<>>)
    \o [i \in 1 .. Len(down[p]) |-> down[p][i].seq] \o serve[p].batch

\* The handoff from the gate to the stream is seamless (new_cursor): what is on
\* its way are the ops right after the durable cursor, none missing and none
\* streamed again.
Seamless ==
  \A p \in Peer :
    serve[p].at \in {"query", "write", "sleep"} =>
      \A i \in 1 .. Len(Flight(p)) : Flight(p)[i] = cursor[p] + i

\* What the subscriber has is Delivery's got, whom it dials its linked.
Promise == INSTANCE Delivery WITH Origin <- Peer, got <- have,
                                  linked <- expected \ Dead

\* What the subscriber has of a peer only grows, in order and without a gap,
\* across gates, redials, crashes and roster changes, and the peer never
\* believes more than that: subscription_io and inbound_io implement Delivery.
DeliversInOrder == Promise!InOrder

\* While the subscriber is meant to be connected to a peer that answers, the
\* peer's ops keep coming until it has them all: no push loop stays asleep over
\* an op, and no lost connection is left lost.
EveryOpArrives == Promise!GoesOn

\* The node is promoted in the end, whoever is dead, added or removed and
\* wherever it was killed: no expected peer holds it in Joining or Syncing.
BecomesActive == <>[](lifecycle = "Active")

\* Active is what join.rs says it is: every expected peer that is reachable
\* has completed its initial gate.
ActiveMeansGated ==
  lifecycle = "Active" => \A p \in expected : p \in completed \/ sub[p].at = "backoff"

=============================================================================
