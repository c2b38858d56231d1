------------------------------- MODULE MCStream -------------------------------
(* Small instances of Stream for TLC. *)
EXTENDS Stream

CONSTANTS p1, p2

ThreeOps == [p \in Peer |-> IF p = p1 THEN 3 ELSE 0]
=============================================================================
