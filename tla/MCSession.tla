----------------------------- MODULE MCSession -----------------------------
(***************************************************************************)
(* Session on small instances.  The subscribers are interchangeable.       *)
(***************************************************************************)
EXTENDS Session, TLC

SubSymmetry == Permutations(Sub)
=============================================================================
