------------------------------- MODULE Memory -------------------------------
(***************************************************************************)
(* The memory of the bot - versioned items and core blocks, written by the *)
(* same processes - and the check-ins of the maintenance workers, which    *)
(* also run the memory jobs.  The three share no state; they share the     *)
(* processes and the bound on what these do.                               *)
(***************************************************************************)
EXTENDS MemoryItems, CoreMemory, Heartbeat

vars == <<itemVars, coreVars, heartbeatVars>>

MemoryTypeOK == ItemsTypeOK /\ CoreTypeOK /\ HeartbeatTypeOK

Init == ItemsInit /\ CoreInit /\ HeartbeatInit

\* Bound: jobs and notes together.  Check-ins touch nothing the others read,
\* so they are explored apart from them.
WithinBound == jobs' + notes' <= MaxJobs /\ (beats' = 0 \/ jobs' + notes' = 0)

\* A process is in one transaction at a time.
OneTransaction == \A p \in Proc \cap Editor : step'[p] = "idle" \/ editing'[p] = NoBlock

CoreStep ==
    /\ CoreNext
    /\ UNCHANGED <<itemVars, heartbeatVars>>
    /\ OneTransaction /\ WithinBound

ItemStep ==
    /\ ItemsNext
    /\ UNCHANGED <<coreVars, heartbeatVars>>
    /\ OneTransaction /\ WithinBound

HeartbeatStep ==
    /\ HeartbeatNext
    /\ UNCHANGED <<itemVars, coreVars>>
    /\ WithinBound

Next == CoreStep \/ ItemStep \/ HeartbeatStep

Spec == Init /\ [][Next]_vars
=============================================================================
