-------------------------- MODULE MCCongestionControl --------------------------
(***************************************************************************)
(* Symmetry for TLC: the calls are interchangeable.                         *)
(***************************************************************************)
EXTENDS CongestionControl, TLC

CallSymmetry == Permutations(Clients)
================================================================================
