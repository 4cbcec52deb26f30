---------------------------- MODULE ReleaseSwitch ----------------------------
(***************************************************************************)
(* What installing promises: releases are added and never taken away, the  *)
(* active one is always an installed one, and what runs was active when it *)
(* was started.  ServerInstall implements it, Deployment builds on it.     *)
(***************************************************************************)
CONSTANT Versions

VARIABLES
    installed,  \* releases that are completely in place
    active,     \* the one the next process is started from, or "none"
    running     \* releases that processes of the server were started from

switchVars == <<installed, active, running>>

SwitchInit == installed = {} /\ active = "none" /\ running = {}

Add(v) ==
    /\ installed' = installed \cup {v}
    /\ UNCHANGED <<active, running>>

SwitchTo(v) ==
    /\ v \in installed
    /\ active' = v
    /\ UNCHANGED <<installed, running>>

(* Processes end, or are started from the active release. *)
Processes ==
    /\ running' \in SUBSET (running \cup ({active} \cap installed))
    /\ UNCHANGED <<installed, active>>

SwitchNext == (\E v \in Versions : Add(v) \/ SwitchTo(v)) \/ Processes

SwitchSpec == SwitchInit /\ [][SwitchNext]_switchVars
==============================================================================
