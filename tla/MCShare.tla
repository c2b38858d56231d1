------------------------------- MODULE MCShare -------------------------------
(***************************************************************************)
(* Share for TLC.  Odd values have no attribute, even ones have one; two   *)
(* values in a row share their content.                                    *)
(***************************************************************************)
EXTENDS Share, TLC

MCHashOf(v) == (v + 1) \div 2

MCXattr(v) == IF v % 2 = 0 THEN {"x"} ELSE {}

\* Copies are not placed: see Share.
MCCopyPathFor(p, v) == p

MCId == {Local, Remote} \cup Path

\* Every path holds the file 1.
MCBase == [p \in Path |-> 1]

\* The paths are alike.
Symmetry == Permutations(Path)

\* At most one of each.
OneEach == [c \in {"user", "peer", "leaf", "fault"} |-> 1]

\* The peer changes something twice.
TwoByPeer == [OneEach EXCEPT !["peer"] = 2, !["leaf"] = 0]

\* No session.
NoLeaf == [OneEach EXCEPT !["leaf"] = 0]

=============================================================================
