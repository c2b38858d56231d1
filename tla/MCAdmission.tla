----------------------------- MODULE MCAdmission -----------------------------
(***************************************************************************)
(* Admission on small instances.                                           *)
(***************************************************************************)
EXTENDS Admission

CONSTANTS t1, t2, t3, t4

NeedOne == [t \in Transfer |-> 1]

=============================================================================
