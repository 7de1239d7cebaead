-------------------------- MODULE MCIncrementalIngest --------------------------
(***************************************************************************)
(* Repositories for TLC: two sources and a manifest.  Body "q" never does   *)
(* I/O, "g" passes the gates and is turned down by the LLM.                 *)
(***************************************************************************)
EXTENDS IncrementalIngest, TLC

MCBodies == {"x", "y", "q", "g"}
MCGated  == {"x", "y", "g"}
MCIO     == {"x", "y"}
MCDefs ==
    [ a1 |-> [f |-> "x", g |-> "x"],  a2 |-> [f |-> "y", g |-> "x"],
      a3 |-> [f |-> "q", h |-> "x"],  aD |-> [f |-> "x"],
      b1 |-> [k |-> "x"],             b2 |-> [k |-> "y", h |-> "x"],
      b3 |-> [k |-> "y"],             bG |-> [k |-> "g"],
      m1 |-> <<>> ]
MCContents == DOMAIN MCDefs
MCFuncs    == {"f", "g", "h", "k"}

MCCheckout == [a |-> "a1", b |-> "b1", m |-> "m1"]

\* Edits that give every rewritten file something to extract.
Rewrites == [a |-> {"a1", "a2", "a3"}, b |-> {"b1", "b3", "absent"}, m |-> {"m1", "absent"}]
\* Edits that move h from one source to the other, revert, remove functions, or
\* bring a function the LLM turns down.
MovesCheckout == [a |-> "a1", b |-> "b2", m |-> "m1"]
Moves == [a |-> {"a1", "a3"}, b |-> {"b2", "bG", "absent"}, m |-> {"m1"}]
\* A file that only loses a function, and a file that changes.
Removes == [a |-> {"a1", "aD"}, b |-> {"b1"}, m |-> {"m1"}]
Changes == [a |-> {"a1", "a2"}, b |-> {"b1", "b3"}, m |-> {"m1"}]
================================================================================
