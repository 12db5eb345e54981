-------------------------- MODULE MCMobileTerminal --------------------------
(***************************************************************************)
(* MobileTerminal on a small instance.                                     *)
(***************************************************************************)
EXTENDS MobileTerminal
=============================================================================
