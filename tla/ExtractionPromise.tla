-------------------------- MODULE ExtractionPromise --------------------------
(***************************************************************************)
(* What the incremental pipeline relies on when it hands the functions of a *)
(* repository to the semantic extraction: a function that is taken up gets  *)
(* one outcome and keeps it, a deferred one gets one more try, and a        *)
(* repository counts as clean only when every function was either analysed  *)
(* or turned down.  How functions share calls, which calls fail and how     *)
(* often they are made again is not said.                                   *)
(***************************************************************************)
CONSTANT Tasks

VARIABLES
    task,    \* per function: where it stands
    end      \* how the extraction of the repository ended, or "none"

vars == <<task, end>>

Good    == {"success", "rejected"}
Pending == {"open", "again"}

Init ==
    /\ task = [t \in Tasks |-> "idle"]
    /\ end = "none"

\* Where a function may get to in one step.
Onward ==
    [idle     |-> {"idle", "open"} \cup Good,
     open     |-> {"open", "failed", "deferred"} \cup Good,
     deferred |-> {"deferred", "again"},
     again    |-> {"again", "failed", "dropped"} \cup Good,
     success  |-> {"success"},
     rejected |-> {"rejected"},
     failed   |-> {"failed"},
     dropped  |-> {"dropped"}]

Move ==
    /\ task' \in [Tasks -> DOMAIN Onward]
    /\ \A t \in Tasks : task'[t] \in Onward[task[t]]
    /\ UNCHANGED end

\* The extraction ends with nothing under way.
Finish ==
    /\ end = "none"
    /\ \A t \in Tasks : task[t] \notin Pending \cup {"deferred"}
    /\ end' = IF \A t \in Tasks : task[t] \in Good THEN "clean" ELSE "errors"
    /\ UNCHANGED task

\* Or it breaks off.
BreakOff == end = "none" /\ end' = "broken" /\ UNCHANGED task

Next == Move \/ Finish \/ BreakOff

Spec == Init /\ [][Next]_vars

\* Functions that were taken up all get their outcomes, unless the extraction breaks off.
Settles == (\E t \in Tasks : task[t] \in Pending) ~> (\A t \in Tasks : task[t] \notin Pending) \/ end = "broken"

Promise == Spec /\ Settles
================================================================================
