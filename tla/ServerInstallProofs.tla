------------------------- MODULE ServerInstallProofs -------------------------
(***************************************************************************)
(* For any set of versions: install_server.py implements the abstract      *)
(* release switch, and keeps what the operator and the server have made.   *)
(***************************************************************************)
EXTENDS ServerInstall, TLAPS

(* A release that is named, run from or about to be activated is whole. *)
WholeInv ==
    /\ current # "none" => rel[current] = "whole"
    /\ ipc = "activate" => rel[target] = "whole"
    /\ \A v \in {root, sun, worker} \ {"none"} : rel[v] = "whole"

(* The configuration is only completed by the installer that created it. *)
WritingInv == ipc = "configwrite" => config = "torn"

InstallInv == InstallType /\ WholeInv /\ WritingInv

(* Nothing is installed, configured or running at first. *)
LEMMA InstallStarts == InstallInit => InstallInv
  BY InstallAssumption DEF InstallInit, InstallInv, InstallType, WholeInv, WritingInv, MaybeVersion, Steps

(* Every step keeps the types. *)
LEMMA InstallTypeKept == InstallType /\ [InstallNext]_installVars => InstallType'
  <1> SUFFICES ASSUME InstallType, [InstallNext]_installVars PROVE InstallType'
    OBVIOUS
  <1> USE InstallAssumption DEF InstallType, MaybeVersion, Steps, server
  <1>1. ASSUME NEW v \in Versions, PackBegin(v) PROVE InstallType'
    BY <1>1 DEF PackBegin
  <1>2. ASSUME NEW v \in Versions, Release(v) PROVE InstallType'
    BY <1>2 DEF Release
  <1>3. ASSUME NEW v \in Versions, Rollback(v) PROVE InstallType'
    BY <1>3 DEF Rollback
  <1>4. CASE PackEnd \/ PackKilled
    BY <1>4 DEF PackEnd, PackKilled
  <1>5. CASE CopyDone
    BY <1>5 DEF CopyDone
  <1>6. CASE Verify \/ Activate \/ Abort
    BY <1>6 DEF Verify, Activate, Abort
  <1>7. CASE Configure \/ ConfigWritten \/ EditConfig
    BY <1>7 DEF Configure, ConfigWritten, EditConfig
  <1>8. CASE MigrateState \/ StateMigrated
    BY <1>8 DEF MigrateState, StateMigrated
  <1>9. CASE InstallUnits \/ UnitsInstalled
    BY <1>9 DEF InstallUnits, UnitsInstalled
  <1>10. CASE RestartServer \/ Launch
    BY <1>10 DEF RestartServer, Launch
  <1>11. CASE StartSunshine \/ StartWorker
    BY <1>11 DEF StartSunshine, StartWorker
  <1>12. CASE WorkerEnds \/ ServerEnds
    BY <1>12 DEF WorkerEnds, ServerEnds
  <1>13. CASE UNCHANGED installVars
    BY <1>13 DEF installVars
  <1> QED
    BY <1>1, <1>2, <1>3, <1>4, <1>5, <1>6, <1>7, <1>8, <1>9, <1>10, <1>11, <1>12, <1>13 DEF InstallNext

(* A whole release stays whole: directories are only created or completed. *)
LEMMA WholeStays ==
    ASSUME InstallType, [InstallNext]_installVars, NEW v \in Versions, rel[v] = "whole"
    PROVE rel'[v] = "whole"
  <1>1. ASSUME NEW w \in Versions, Release(w) PROVE rel'[v] = "whole"
    BY <1>1 DEF Release, InstallType
  <1>2. CASE CopyDone
    BY <1>2 DEF CopyDone, InstallType
  <1>3. rel' = rel \/ CopyDone \/ \E w \in Versions : Release(w)
    BY DEF InstallNext, installVars, PackBegin, Rollback, PackEnd, PackKilled, Verify, Activate, Configure,
           ConfigWritten, MigrateState, StateMigrated, InstallUnits, UnitsInstalled,
           RestartServer, Abort, Launch, StartSunshine, StartWorker, WorkerEnds, ServerEnds,
           EditConfig
  <1> QED
    BY <1>1, <1>2, <1>3

(* Every step keeps the inductive invariant. *)
LEMMA InstallStep == InstallInv /\ [InstallNext]_installVars => InstallInv'
  <1> SUFFICES ASSUME InstallInv, [InstallNext]_installVars PROVE InstallInv'
    OBVIOUS
  <1>1. InstallType'
    BY InstallTypeKept DEF InstallInv
  <1>2. WritingInv'
    BY DEF InstallInv, WritingInv, InstallNext, installVars, server, PackBegin, Release, Rollback, PackEnd,
           PackKilled, CopyDone, Verify, Activate, Configure, ConfigWritten, MigrateState,
           StateMigrated, InstallUnits, UnitsInstalled, RestartServer, Abort, Launch,
           StartSunshine, StartWorker, WorkerEnds, ServerEnds, EditConfig
  <1>3. \A v \in Versions : rel[v] = "whole" => rel'[v] = "whole"
    BY WholeStays DEF InstallInv
  <1>4. current' # "none" => rel'[current'] = "whole"
    <2>1. CASE Activate
      BY <2>1 DEF Activate, InstallInv, WholeInv
    <2>2. CASE ~Activate
      <3>1. current' = current
        BY <2>2 DEF InstallNext, installVars, PackBegin, Release, Rollback, PackEnd, PackKilled, CopyDone,
               Verify, Configure, ConfigWritten, MigrateState, StateMigrated, InstallUnits,
               UnitsInstalled, RestartServer, Abort, Launch, StartSunshine, StartWorker,
               WorkerEnds, ServerEnds, EditConfig
      <3> QED
        BY <3>1, <1>3 DEF InstallInv, InstallType, WholeInv, MaybeVersion
    <2> QED
      BY <2>1, <2>2
  <1>5. ipc' = "activate" => rel'[target'] = "whole"
    <2>1. CASE Verify
      BY <2>1 DEF Verify
    <2>2. CASE ~Verify
      <3>1. ipc' = "activate" => ipc = "activate" /\ target' = target
        BY <2>2 DEF InstallNext, installVars, server, PackBegin, Release, Rollback, PackEnd, PackKilled,
               CopyDone, Activate, Configure, ConfigWritten, MigrateState, StateMigrated,
               InstallUnits, UnitsInstalled, RestartServer, Abort, Launch, StartSunshine,
               StartWorker, WorkerEnds, ServerEnds, EditConfig
      <3> QED
        BY <3>1, <1>3 DEF InstallInv, InstallType, WholeInv
    <2> QED
      BY <2>1, <2>2
  <1>6. \A v \in {root', sun', worker'} \ {"none"} : rel'[v] = "whole"
    <2>1. {root', sun', worker'} \subseteq {root, sun, worker, current, "none"}
      BY DEF InstallNext, installVars, server, PackBegin, Release, Rollback, PackEnd, PackKilled, CopyDone,
             Verify, Activate, Configure, ConfigWritten, MigrateState, StateMigrated,
             InstallUnits, UnitsInstalled, RestartServer, Abort, Launch, StartSunshine,
             StartWorker, WorkerEnds, ServerEnds, EditConfig
    <2> QED
      BY <2>1, <1>3, InstallAssumption DEF InstallInv, InstallType, WholeInv, MaybeVersion
  <1> QED
    BY <1>1, <1>2, <1>4, <1>5, <1>6 DEF InstallInv, WholeInv

(* Type correctness of the installer and of what it leaves on the disk. *)
THEOREM InstallTypes == InstallSpec => []InstallType
  <1>1. InstallInv => InstallType
    BY DEF InstallInv
  <1> QED
    BY InstallStarts, InstallStep, <1>1, PTL DEF InstallSpec

(***************************************************************************)
(* The refinement.                                                         *)
(***************************************************************************)
Running == {root, sun, worker} \ {"none"}
Installed == {v \in Versions : rel[v] = "whole"}

(* Every step of the installer and of the server is one step of the        *)
(* abstract switch, or none.                                               *)
LEMMA SwitchStep ==
    InstallInv /\ [InstallNext]_installVars => [Switch!SwitchNext]_(Switch!switchVars)
  <1> SUFFICES ASSUME InstallInv, [InstallNext]_installVars
               PROVE [Switch!SwitchNext]_(Switch!switchVars)
    OBVIOUS
  <1> USE DEF Switch!switchVars
  <1>1. CASE CopyDone
    <2>1. target \in Versions
      BY <1>1 DEF CopyDone, InstallInv, InstallType
    <2>2. PICK t \in Versions : t = target
      BY <2>1
    <2>3. Installed' = Installed \cup {t}
      BY <1>1, <2>2 DEF CopyDone, InstallInv, InstallType, Installed
    <2>4. Switch!Add(t)
      BY <1>1, <2>3 DEF CopyDone, Switch!Add, server, Installed
    <2> QED
      BY <2>4 DEF Switch!SwitchNext
  <1>2. CASE Activate
    <2>1. target \in Versions /\ target \in Installed
      BY <1>2 DEF Activate, InstallInv, InstallType, WholeInv, Installed
    <2>2. Switch!SwitchTo(target)
      BY <1>2, <2>1 DEF Activate, Switch!SwitchTo, server, Installed
    <2> QED
      BY <2>1, <2>2 DEF Switch!SwitchNext
  <1>3. ASSUME NEW v \in Versions, Release(v) PROVE UNCHANGED Switch!switchVars
    <2>1. Installed' = Installed
      BY <1>3 DEF Release, InstallInv, InstallType, Installed
    <2> QED
      BY <1>3, <2>1 DEF Release, server, Installed
  <1>4. CASE RestartServer \/ Launch \/ StartSunshine \/ StartWorker \/ WorkerEnds \/ ServerEnds
    <2>1. rel' = rel /\ current' = current
      BY <1>4 DEF RestartServer, Launch, StartSunshine, StartWorker, WorkerEnds, ServerEnds
    <2>2. current = "none" \/ current \in Installed
      BY DEF InstallInv, WholeInv, InstallType, MaybeVersion, Installed
    <2>3. {root', sun', worker'} \subseteq {root, sun, worker, current, "none"}
      BY <1>4 DEF RestartServer, Launch, StartSunshine, StartWorker, WorkerEnds, ServerEnds
    <2>4. Running' \subseteq Running \cup ({current} \cap Installed)
      BY <2>2, <2>3 DEF Running
    <2>5. Switch!Processes
      BY <2>1, <2>4 DEF Switch!Processes, Running, Installed
    <2> QED
      BY <2>5 DEF Switch!SwitchNext
  <1>5. ASSUME rel' = rel, current' = current, UNCHANGED server
        PROVE UNCHANGED Switch!switchVars
    BY <1>5 DEF server
  <1>6. \/ CopyDone \/ Activate \/ \E v \in Versions : Release(v)
        \/ RestartServer \/ Launch \/ StartSunshine \/ StartWorker \/ WorkerEnds \/ ServerEnds
        \/ rel' = rel /\ current' = current /\ UNCHANGED server
    BY DEF InstallNext, installVars, server, PackBegin, Rollback, PackEnd, PackKilled, Verify, Configure,
           ConfigWritten, MigrateState, StateMigrated, InstallUnits, UnitsInstalled, Abort,
           EditConfig
  <1> QED
    BY <1>1, <1>2, <1>3, <1>4, <1>5, <1>6

(* However often installations are killed, repeated and rolled back, what  *)
(* is current is a whole release, nothing runs from anything else, and no  *)
(* release is taken away: install_server.py implements the release switch. *)
THEOREM InstallIsSwitch == InstallSpec => ImplementsSwitch
  <1>1. InstallInit => Switch!SwitchInit
    BY DEF InstallInit, Switch!SwitchInit
  <1> QED
    BY <1>1, InstallStarts, InstallStep, SwitchStep, PTL DEF InstallSpec, ImplementsSwitch, Switch!SwitchSpec

(* An edited configuration, and an identity that was there when the        *)
(* installer looked for one, survive every installation and roll-back.     *)
THEOREM InstallKeepsFiles == InstallSpec => OperatorFilesKept
  <1>1. InstallInv /\ [InstallNext]_installVars =>
          [/\ config = "edited" => config' = "edited"
           /\ ident \in {"carried", "own"} /\ ipc # "identitywrite" => ident' = ident]_installVars
    BY DEF InstallInv, WritingInv, InstallNext, installVars, server, PackBegin, Release, Rollback, PackEnd,
           PackKilled, CopyDone, Verify, Activate, Configure, ConfigWritten, MigrateState,
           StateMigrated, InstallUnits, UnitsInstalled, RestartServer, Abort, Launch,
           StartSunshine, StartWorker, WorkerEnds, ServerEnds, EditConfig
  <1> QED
    BY <1>1, InstallStarts, InstallStep, PTL DEF InstallSpec, OperatorFilesKept
==============================================================================
