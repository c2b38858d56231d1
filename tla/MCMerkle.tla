------------------------------- MODULE MCMerkle -------------------------------
(* Small trees for TLC. *)
EXTENDS Merkle

\* Two levels and three, and a row where there is a directory too.
Paths == {<<1>>, <<1, 1>>, <<1, 2>>, <<2>>, <<3, 1, 1>>}

\* The row at <<2>> only comes and goes.
MCIndex == {t \in UNION {[S -> {1, 2}] : S \in SUBSET Paths} :
              <<2>> \in DOMAIN t => t[<<2>>] = 1}
=============================================================================
