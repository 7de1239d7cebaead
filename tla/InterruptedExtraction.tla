------------------------- MODULE InterruptedExtraction -------------------------
(***************************************************************************)
(* The ShutdownController (src/src/utils/shutdown.ts) over the semantic      *)
(* extraction of the analyze command (src/src/cli/commands/analyze/code.ts). *)
(* A signal keeps files and chunks from being started and starts the         *)
(* cleanup hooks; calls that are under way are not told.  The command, whose *)
(* extraction breaks off or ends, goes its own way out beside the hooks.     *)
(* Whoever gets to process.exit() first ends the process, and with it        *)
(* everything that is still under way.                                      *)
(***************************************************************************)
EXTENDS SemanticExtraction

CONSTANTS
    Hooks,        \* the cleanup hooks the command registers
    MaxSignals    \* bound on the SIGINTs and SIGTERMs of one behaviour

ASSUME ShutdownAssumption == IsFiniteSet(Hooks) /\ MaxSignals \in Nat

VARIABLES
    signalCount,  \* this.signalCount
    hook,         \* per hook: "off" (not registered), "registered", "running", "over"
    command,      \* the command: "starting", "working", "leaving" (its finally block)
    exit          \* the exit code, or "none"

shutdown == <<signalCount, hook, command, exit>>
allVars  == <<vars, shutdown>>

Running == exit = "none"

InitAll ==
    /\ Init
    /\ signalCount = 0
    /\ hook = [h \in Hooks |-> "off"]
    /\ command = "starting"
    /\ exit = "none"

--------------------------------------------------------------------------------
\* The command registers its hooks and starts its steps.
Register ==
    /\ Running /\ command = "starting"
    /\ hook' = [h \in Hooks |-> "registered"]
    /\ command' = "working"
    /\ UNCHANGED <<vars, signalCount, exit>>

\* The extraction is over; the finally block unregisters the hooks, which stops none that
\* is running.
Leave ==
    /\ Running /\ command = "working"
    /\ loop \in {"done", "broken"}
    /\ command' = "leaving"
    /\ hook' = [h \in Hooks |-> IF hook[h] = "registered" THEN "off" ELSE hook[h]]
    /\ UNCHANGED <<vars, signalCount, exit>>

\* closeNeo4j() and the last flushes of the finally block are done; process.exit().
Close ==
    /\ Running /\ command = "leaving"
    /\ exit' = IF loop = "broken" THEN "1" ELSE "0"
    /\ UNCHANGED <<vars, signalCount, hook, command>>

--------------------------------------------------------------------------------
\* runHooks(): every hook that is registered starts; nothing to wait for if there is none.
Started == [h \in Hooks |-> IF hook[h] = "registered" THEN "running" ELSE hook[h]]

\* The first signal.
Interrupt ==
    /\ Running /\ signalCount = 0 /\ MaxSignals > 0
    /\ signalCount' = 1
    /\ Abort
    /\ hook' = Started
    /\ UNCHANGED <<command, exit>>

\* Any later one.
ForceExit ==
    /\ Running /\ signalCount \in 1..(MaxSignals - 1)
    /\ signalCount' = signalCount + 1
    /\ exit' = "130"
    /\ UNCHANGED <<vars, hook, command>>

\* A hook settles, throws, or its timer fires and it is not waited for any longer.
HookEnds(h) ==
    /\ Running /\ hook[h] = "running"
    /\ hook' = [hook EXCEPT ![h] = "over"]
    /\ UNCHANGED <<vars, signalCount, command, exit>>

\* Promise.all() of the hooks; at once if there is none.
\* Promise.all() of no hooks does not resolve.
Mutant_HooksOver_NotIfNone ==
    (\A h \in Hooks : hook[h] # "running") /\ \E h \in Hooks : hook[h] = "over"
HooksOver == \A h \in Hooks : hook[h] # "running"

\* The first signal's process.exit(), once the hooks are over.
GracefulExit ==
    /\ Running /\ signalCount = 1
    /\ HooksOver
    /\ exit' = "130"
    /\ UNCHANGED <<vars, signalCount, hook, command>>

--------------------------------------------------------------------------------
\* The extraction goes on as long as there is a process.
Alive(A)   == Running /\ command # "starting" /\ UNCHANGED shutdown /\ A
Timer(k)   == Alive(Flush(k))
CallOf(t)  == Alive(Ends(t))
Loop       == Alive(LoopStep)
Refused(t) == Alive(\E w \in trips : t = w.members[1] /\ Unauthorized(w))

NextAll ==
    \/ \E k \in Keys : Timer(k)
    \/ \E t \in Tasks : CallOf(t) \/ Refused(t)
    \/ Loop
    \/ Register \/ Leave \/ Close
    \/ Interrupt \/ ForceExit \/ GracefulExit
    \/ \E h \in Hooks : HookEnds(h)

SpecAll == InitAll /\ [][NextAll]_allVars

\* Timers fire, calls end by their timeouts at the latest, and the loop runs: it is enough
\* that one of them does.  Nothing obliges a hook to settle, but its timer fires.
Fairness ==
    /\ WF_allVars(Register) /\ WF_allVars(Loop)
    /\ WF_allVars(\E k \in Keys : Timer(k))
    /\ WF_allVars(\E t \in Tasks : CallOf(t))
    /\ WF_allVars(GracefulExit)
    /\ \A h \in Hooks : WF_allVars(HookEnds(h))

FairSpecAll == SpecAll /\ Fairness

--------------------------------------------------------------------------------
\* With the functions and the end of the loop read off this state, the extraction does
\* what the incremental pipeline relies on, whichever calls fail and whenever a signal
\* comes: one outcome for each function that is taken up, one more try for a deferred one,
\* and no clean end with anything open, failed, dropped or never taken up.
Ended ==
    IF loop = "done" THEN IF errors THEN "errors" ELSE "clean"
    ELSE IF loop = "broken" \/ ~Running THEN "broken" ELSE "none"
Promised == INSTANCE ExtractionPromise WITH
                task <- [t \in Tasks |-> Standing(t)], end <- Ended
KeepsPromise == Promised!Promise

\* A process that got a signal ends, although its hooks and its provider may hang.
SignalEndsProcess == signalCount > 0 ~> ~Running
================================================================================
