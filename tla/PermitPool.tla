------------------------------ MODULE PermitPool ------------------------------
(***************************************************************************)
(* What a client of the LLM concurrency limiter may rely on, without the   *)
(* policy that chooses the capacity: permits are handed out only while     *)
(* fewer than "capacity" are out, a client holds at most one, and a client *)
(* that waits gets its permit from the pool or leaves the line on its own. *)
(* A capacity that shrinks revokes nothing: the pool then hands out no     *)
(* permit until enough of them have come back.                             *)
(***************************************************************************)
EXTENDS Naturals, FiniteSets

CONSTANT Clients

VARIABLES capacity, holding, waiting

vars == <<capacity, holding, waiting>>

Idle(c) == c \notin holding \cup waiting

\* The clients in "lucky" leave the line with a permit, "kept" stay holders.
HandOut(kept, lucky, room) ==
    /\ lucky # {} => Cardinality(kept \cup lucky) <= room
    /\ holding' = kept \cup lucky
    /\ waiting' = waiting \ lucky

Init ==
    /\ capacity \in Nat \ {0}
    /\ holding = {}
    /\ waiting = {}

Take(c) ==
    /\ Idle(c)
    /\ Cardinality(holding) < capacity
    /\ holding' = holding \cup {c}
    /\ UNCHANGED <<capacity, waiting>>

Wait(c) ==
    /\ Idle(c)
    /\ waiting' = waiting \cup {c}
    /\ UNCHANGED <<capacity, holding>>

GiveUp(c) ==
    /\ c \in waiting
    /\ waiting' = waiting \ {c}
    /\ UNCHANGED <<capacity, holding>>

GiveBack(c) ==
    /\ c \in holding
    /\ \E lucky \in SUBSET waiting : HandOut(holding \ {c}, lucky, capacity)
    /\ UNCHANGED capacity

\* The policy picks a new capacity (or the same one) and admits waiters to it.
Resize ==
    /\ capacity' \in Nat \ {0}
    /\ \E lucky \in SUBSET waiting : HandOut(holding, lucky, capacity')

Next ==
    \/ \E c \in Clients : Take(c) \/ Wait(c) \/ GiveUp(c) \/ GiveBack(c)
    \/ Resize

Spec == Init /\ [][Next]_vars
===============================================================================
