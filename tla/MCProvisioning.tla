--------------------------- MODULE MCProvisioning ---------------------------
(***************************************************************************)
(* How a board comes to run the server: the delivery (Deployment), the     *)
(* installer (ServerInstall) and what each boot prepares (BoardBoot).      *)
(* They share no variable, nor do the three parts of a boot, so that each  *)
(* property depends on the steps of one part, and on the reboots.  A       *)
(* behaviour here takes the steps of the part it chooses at first.         *)
(***************************************************************************)
EXTENDS BoardBoot, Deployment, ServerInstall, TLC

CONSTANTS f1, f2, r1, r2, unit, operator, e1, e2, vendor

VARIABLE part

(* Two files, so that an overlay can be half done; two releases, for an    *)
(* update and a way back; the unit beside an operator's own run.           *)
MCFiles == {f1, f2}
MCReleases == {r1, r2}
MCAppliers == {unit, operator}
MCOurs == {e1, e2}
MCBootEdids == {vendor}
MCSymmetry == Permutations(MCReleases)

boot == <<codecVars, edidVars, inputVars>>

MCInit ==
    /\ Init /\ DeployInit /\ InstallInit
    /\ part \in {"codec", "edid", "input", "delivery", "install"}

BootStep ==
    /\ \/ part = "codec" /\ CodecStep
       \/ part = "edid" /\ EdidStep
       \/ part = "input" /\ InputStep
       \/ part \in {"codec", "edid", "input"} /\ Reboot
    /\ UNCHANGED <<deployVars, installVars>>

MCNext ==
    /\ \/ BootStep
       \/ part = "delivery" /\ DeployNext /\ UNCHANGED <<boot, installVars>>
       \/ part = "install" /\ InstallNext /\ UNCHANGED <<boot, deployVars>>
    /\ UNCHANGED part

MCSpec == MCInit /\ [][MCNext]_<<boot, deployVars, installVars, part>>
==============================================================================
