----------------------------- MODULE MCQueuedCalls -----------------------------
(***************************************************************************)
(* The calls with a history variable: which of them have stood in the       *)
(* queue for a permit in their present attempt.                             *)
(***************************************************************************)
EXTENDS MCCongestionControl

VARIABLE queued     \* the calls that have been in line since they last started

queuedVars == <<vars, queued>>

Recall == queued' = {c \in Clients : Sem!InLine(c)' \/ (c \in queued /\ pc'[c] # "start")}

QueuedInit == Init /\ queued = {}
QueuedNext == Next /\ Recall
QueuedSpec == QueuedInit /\ [][QueuedNext]_queuedVars

\* congestion-control.ts (215-218) says that a dead endpoint fails fast, and that queued
\* calls do not rediscover it one by one: with the connection circuit open, a call that
\* had to queue for its permit reaches the endpoint only as a probe.
QueuedCallsFailFast ==
    [][ \A c \in queued :
            ConnOpen /\ pc[c] = "acquire" /\ pc'[c] = "call" => c \in probing ]_queuedVars
================================================================================
