----------------------------- MODULE MCExtraction -----------------------------
(***************************************************************************)
(* A small repository for TLC.                                              *)
(*                                                                         *)
(* Functions 1 and 2 share a class, and 1 has passed its gate.  Function 3  *)
(* comes with the second call of their file and meets function 4 of the     *)
(* second file in the pool.  Function 5 is resolved without a model.        *)
(***************************************************************************)
EXTENDS InterruptedExtraction

MCChunksOf == << << {1, 2}, {3} >>, << {4} >>, << {5} >> >>
MCClassOf  == <<"A", "A", "B", "C", "D">>
MCKeyOf    == <<"p", "p", "q", "q", "p">>
================================================================================
