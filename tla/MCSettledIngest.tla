---------------------------- MODULE MCSettledIngest ----------------------------
(***************************************************************************)
(* The repositories for which the two properties of a settled repository    *)
(* are proved: TLC evaluates the hypotheses of the theorems before it       *)
(* checks what they say.                                                    *)
(***************************************************************************)
EXTENDS MCIncrementalIngest

ASSUME SettledAssumption == CompleteWhere /\ GhostFreeWhere
================================================================================
