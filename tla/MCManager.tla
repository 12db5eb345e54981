----------------------------- MODULE MCManager -----------------------------
(***************************************************************************)
(* Manager on small instances: a session takes the default timeout or none *)
(* at all, and the calls of Create are interchangeable.                    *)
(***************************************************************************)
EXTENDS Manager, TLC

MCTimeout == {-1, 0}
SessSymmetry == Permutations(Sess)
=============================================================================
