----------------------------- MODULE Deployment -----------------------------
(***************************************************************************)
(* From a checkout to a running server: the Sunshine overlay in every      *)
(* detail (SourceOverlay), the build, packaging, and the abstract release  *)
(* switch that ServerInstall is shown to implement.  The question is       *)
(* whether a server that was built from a half-patched checkout can ever   *)
(* run.                                                                    *)
(***************************************************************************)
EXTENDS SourceOverlay

CONSTANTS
    Releases,
    Naming      \* CMakeLists.txt: whose patch names the binary rkmoon-kvm

VARIABLES
    artifact,   \* the built rkmoon-kvm: "none", or what it was built from
    packed,     \* the server in the package of each release
    installed, active, running

Installer == INSTANCE ReleaseSwitch WITH Versions <- Releases

ASSUME DeploymentAssumption == "none" \notin Releases /\ Naming \in Files

releaseVars == <<artifact, packed, installed, active, running>>
deployVars == <<overlayVars, releaseVars>>

DeployInit ==
    /\ OverlayInit
    /\ artifact = "none" /\ packed = [v \in Releases |-> "none"]
    /\ Installer!SwitchInit

Patched(f) == file[f] \in {"new", "tuned"}

(* build.sh sunshine: the test for the payload stands for the whole        *)
(* overlay; the result has the files of the checkout in it as they are.    *)
(* Without the patch that names it, no rkmoon-kvm is built and an earlier  *)
(* one stays.                                                              *)
Build ==
    /\ tool = "sunshine" /\ payload /\ head = "pin"
    /\ artifact' = IF ~Patched(Naming) THEN artifact
                   ELSE IF \A f \in Files : Patched(f) THEN "patched" ELSE "mixed"
    /\ UNCHANGED <<overlayVars, packed, installed, active, running>>

(* package_server.py refuses a version that exists. *)
Package(v) ==
    /\ artifact # "none" /\ packed[v] = "none"
    /\ packed' = [packed EXCEPT ![v] = artifact]
    /\ UNCHANGED <<overlayVars, artifact, installed, active, running>>

Install(v) ==
    /\ packed[v] # "none" /\ v \notin installed
    /\ Installer!Add(v)
    /\ UNCHANGED <<overlayVars, artifact, packed>>

MakeCurrent(v) == Installer!SwitchTo(v) /\ UNCHANGED <<overlayVars, artifact, packed>>

RunServer == Installer!Processes /\ UNCHANGED <<overlayVars, artifact, packed>>

DeployNext ==
    \/ OverlayNext /\ UNCHANGED releaseVars
    \/ Build \/ RunServer
    \/ \E v \in Releases : Package(v) \/ Install(v) \/ MakeCurrent(v)

DeploySpec == DeployInit /\ [][DeployNext]_deployVars

(* Every running server has the whole overlay in it: a checkout that an    *)
(* interrupted, failed or killed overlay left half patched never becomes a *)
(* release (apply_sunshine.py moves the payload last, build.sh asks for    *)
(* it).                                                                    *)
RunsPatchedServer == \A v \in running : packed[v] = "patched"
==============================================================================
