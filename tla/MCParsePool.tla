----------------------------- MODULE MCParsePool -----------------------------
(***************************************************************************)
(* ParsePool for TLC: three files and two workers, so that a file waits     *)
(* while both workers are busy and one worker is lost while the other goes  *)
(* on.                                                                     *)
(***************************************************************************)
EXTENDS ParsePool, TLC

CONSTANTS t1, t2, t3, w1, w2

MCTasks   == {t1, t2, t3}
MCWorkers == {w1, w2}
Symmetry  == Permutations(MCTasks) \cup Permutations(MCWorkers)
================================================================================
