---------------------------- MODULE ServerInstall ----------------------------
(***************************************************************************)
(* package_server.py and install_server.py: a release is assembled with    *)
(* its manifest last, copied to /opt/rkmoon/releases, verified, and made   *)
(* current with one rename; configuration and identity are created when    *)
(* they do not exist.  Either program may be killed, or fail, at any step  *)
(* and be run again, for the same or another version, while the server     *)
(* runs, restarts and starts workers from whatever is current.             *)
(***************************************************************************)
CONSTANT Versions

ASSUME InstallAssumption == "none" \notin Versions

VARIABLES
    pkg,      \* the package of each version: "none", "partial", "whole"
    packing,  \* the version package_server.py is working on, or "none"
    rel,      \* /opt/rkmoon/releases/VERSION
    current,  \* what /opt/rkmoon/current points to, or "none"
    config,   \* /etc/rkmoon/runtime.json
    ident,    \* the server's identity in /var/lib/rkmoon
    units,    \* the release the unit files are from, "mixed" in between
    ipc,      \* what install_server.py is about to do
    target,   \* the version it installs or activates
    root,     \* run.py: the release it was started from
    sun,      \* rkmoon-kvm: likewise
    worker    \* rkmoon-worker of a video session: likewise

server == <<root, sun, worker>>
installVars == <<pkg, packing, rel, current, config, ident, units, ipc, target, root, sun, worker>>

MaybeVersion == Versions \cup {"none"}
Steps == {"idle", "copy", "verify", "activate", "config", "configwrite", "identity",
          "identitywrite", "units", "unitswrite", "start"}

InstallType ==
    /\ pkg \in [Versions -> {"none", "partial", "whole"}]
    /\ rel \in [Versions -> {"none", "partial", "whole"}]
    /\ packing \in MaybeVersion /\ current \in MaybeVersion
    /\ config \in {"none", "torn", "default", "edited"}
    /\ ident \in {"none", "torn", "carried", "own"}
    /\ units \in Versions \cup {"none", "mixed"}
    /\ ipc \in Steps /\ target \in MaybeVersion
    /\ ipc # "idle" => target \in Versions
    /\ root \in MaybeVersion /\ sun \in MaybeVersion /\ worker \in MaybeVersion

InstallInit ==
    /\ pkg = [v \in Versions |-> "none"] /\ packing = "none"
    /\ rel = [v \in Versions |-> "none"] /\ current = "none"
    /\ config = "none" /\ ident = "none" /\ units = "none"
    /\ ipc = "idle" /\ target = "none"
    /\ root = "none" /\ sun = "none" /\ worker = "none"

(***************************************************************************)
(* package_server.py: refuses an existing directory; the manifest is       *)
(* written when all files are there.                                       *)
(***************************************************************************)
PackBegin(v) ==
    /\ packing = "none" /\ pkg[v] = "none"
    /\ packing' = v /\ pkg' = [pkg EXCEPT ![v] = "partial"]
    /\ UNCHANGED <<rel, current, config, ident, units, ipc, target, server>>

PackEnd ==
    /\ packing # "none"
    /\ packing' = "none" /\ pkg' = [pkg EXCEPT ![packing] = "whole"]
    /\ UNCHANGED <<rel, current, config, ident, units, ipc, target, server>>

PackKilled ==
    /\ packing # "none"
    /\ packing' = "none"
    /\ UNCHANGED <<pkg, rel, current, config, ident, units, ipc, target, server>>

(***************************************************************************)
(* install_server.py.                                                      *)
(***************************************************************************)
(* --release: the package is verified first; a directory that exists is    *)
(* taken for the installed release.                                        *)
Release(v) ==
    /\ ipc = "idle" /\ pkg[v] = "whole"
    /\ target' = v
    /\ IF rel[v] = "none"
         THEN ipc' = "copy" /\ rel' = [rel EXCEPT ![v] = "partial"]
         ELSE ipc' = "verify" /\ rel' = rel
    /\ UNCHANGED <<pkg, packing, current, config, ident, units, server>>

CopyDone ==
    /\ ipc = "copy"
    /\ rel' = [rel EXCEPT ![target] = "whole"] /\ ipc' = "verify"
    /\ UNCHANGED <<pkg, packing, current, config, ident, units, target, server>>

(* --activate *)
Rollback(v) ==
    /\ ipc = "idle"
    /\ target' = v /\ ipc' = "verify"
    /\ UNCHANGED <<pkg, packing, rel, current, config, ident, units, server>>

(* Mutant of Verify: a release that exists is not verified again. *)
VerifyNothing ==
    /\ ipc = "verify" /\ rel[target] # "none"
    /\ ipc' = "activate"
    /\ UNCHANGED <<pkg, packing, rel, current, config, ident, units, target, server>>

(* Checksums of what is in place; a failure is an Abort. *)
Verify ==
    /\ ipc = "verify" /\ rel[target] = "whole"
    /\ ipc' = "activate"
    /\ UNCHANGED <<pkg, packing, rel, current, config, ident, units, target, server>>

(* A temporary link is made, whatever is left of an earlier one removed,   *)
(* and renamed over the current one.                                       *)
Activate ==
    /\ ipc = "activate"
    /\ current' = target /\ ipc' = "config"
    /\ UNCHANGED <<pkg, packing, rel, config, ident, units, target, server>>

(* Mutant of Configure: the configuration is always written. *)
ConfigureAlways ==
    /\ ipc = "config"
    /\ config' = "torn" /\ ipc' = "configwrite"
    /\ UNCHANGED <<pkg, packing, rel, current, ident, units, target, server>>

(* write_text creates the file and then fills it. *)
Configure ==
    /\ ipc = "config"
    /\ IF config = "none"
         THEN config' = "torn" /\ ipc' = "configwrite"
         ELSE config' = config /\ ipc' = "identity"
    /\ UNCHANGED <<pkg, packing, rel, current, ident, units, target, server>>

ConfigWritten ==
    /\ ipc = "configwrite"
    /\ config' = "default" /\ ipc' = "identity"
    /\ UNCHANGED <<pkg, packing, rel, current, ident, units, target, server>>

(* With --migrate-state, an old identity is carried over if there is none. *)
MigrateState ==
    /\ ipc = "identity"
    /\ \/ ident = "none" /\ ident' = "torn" /\ ipc' = "identitywrite"
       \/ ident' = ident /\ ipc' = "units"
    /\ UNCHANGED <<pkg, packing, rel, current, config, units, target, server>>

StateMigrated ==
    /\ ipc = "identitywrite"
    /\ ident' = "carried" /\ ipc' = "units"
    /\ UNCHANGED <<pkg, packing, rel, current, config, units, target, server>>

InstallUnits ==
    /\ ipc = "units"
    /\ units' = "mixed" /\ ipc' = "unitswrite"
    /\ UNCHANGED <<pkg, packing, rel, current, config, ident, target, server>>

(* Without --start this is the end. *)
UnitsInstalled ==
    /\ ipc = "unitswrite"
    /\ units' = target /\ ipc' \in {"start", "idle"}
    /\ UNCHANGED <<pkg, packing, rel, current, config, ident, target, server>>

(* A configuration that is only partly there is refused by run.py. *)
Launches == current # "none" /\ config \in {"default", "edited"}

RestartServer ==
    /\ ipc = "start"
    /\ root' = IF Launches THEN current ELSE "none"
    /\ sun' = "none" /\ worker' = "none" /\ ipc' = "idle"
    /\ UNCHANGED <<pkg, packing, rel, current, config, ident, units, target>>

(* Killed, refused, or a command it runs failed. *)
Abort ==
    /\ ipc # "idle"
    /\ ipc' = "idle"
    /\ UNCHANGED <<pkg, packing, rel, current, config, ident, units, target, server>>

(***************************************************************************)
(* The running server, as far as the release it comes from goes: run.py is *)
(* started by systemd at boot, by hand or after a failure; the programs it *)
(* starts are named by paths through /opt/rkmoon/current.                  *)
(***************************************************************************)
Launch ==
    /\ root = "none" /\ units # "none" /\ Launches
    /\ root' = current
    /\ UNCHANGED <<pkg, packing, rel, current, config, ident, units, ipc, target, sun, worker>>

(* Sunshine makes an identity when it finds no readable one. *)
StartSunshine ==
    /\ root # "none" /\ sun = "none"
    /\ sun' = current
    /\ ident' = IF ident \in {"none", "torn"} THEN "own" ELSE ident
    /\ UNCHANGED <<pkg, packing, rel, current, config, units, ipc, target, root, worker>>

StartWorker ==
    /\ sun # "none" /\ worker = "none"
    /\ worker' = current
    /\ UNCHANGED <<pkg, packing, rel, current, config, ident, units, ipc, target, root, sun>>

WorkerEnds ==
    /\ worker # "none"
    /\ worker' = "none"
    /\ UNCHANGED <<pkg, packing, rel, current, config, ident, units, ipc, target, root, sun>>

ServerEnds ==
    /\ root # "none"
    /\ root' = "none" /\ sun' = "none" /\ worker' = "none"
    /\ UNCHANGED <<pkg, packing, rel, current, config, ident, units, ipc, target>>

(* The operator's own configuration. *)
EditConfig ==
    /\ config # "none" /\ ipc # "configwrite"
    /\ config' = "edited"
    /\ UNCHANGED <<pkg, packing, rel, current, ident, units, ipc, target, server>>

InstallNext ==
    \/ \E v \in Versions : PackBegin(v) \/ Release(v) \/ Rollback(v)
    \/ PackEnd \/ PackKilled
    \/ CopyDone \/ Verify \/ Activate \/ Configure \/ ConfigWritten
    \/ MigrateState \/ StateMigrated \/ InstallUnits \/ UnitsInstalled \/ RestartServer \/ Abort
    \/ Launch \/ StartSunshine \/ StartWorker \/ WorkerEnds \/ ServerEnds \/ EditConfig

InstallSpec == InstallInit /\ [][InstallNext]_installVars

(***************************************************************************)
(* Correctness.                                                            *)
(***************************************************************************)
(* The abstract release switch this module implements. *)
Switch == INSTANCE ReleaseSwitch WITH
    installed <- {v \in Versions : rel[v] = "whole"},
    active <- current,
    running <- {root, sun, worker} \ {"none"}

(* However often installations are killed and repeated, /opt/rkmoon/current *)
(* names a release that is completely in place, no process was started     *)
(* from anything else, and a release in place is never taken away under    *)
(* the processes that came from it.                                        *)
ImplementsSwitch == Switch!SwitchSpec

(* "Existing configuration and state are kept": what the operator edited   *)
(* and the identity that clients are bound to survive every installation,  *)
(* roll-back and kill.  The one exception is a server that starts for the  *)
(* first time while --migrate-state copies the old identity: the copy then *)
(* goes over the identity the server has just made.                        *)
OperatorFilesKept ==
    [][/\ config = "edited" => config' = "edited"
       /\ ident \in {"carried", "own"} /\ ipc # "identitywrite" => ident' = ident]_installVars
==============================================================================
