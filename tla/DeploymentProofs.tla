-------------------------- MODULE DeploymentProofs --------------------------
(***************************************************************************)
(* For any number of patched files and any set of releases: the overlay    *)
(* tools never touch local work, restore what they found when they give    *)
(* up, and a half-patched checkout never becomes a running server.         *)
(***************************************************************************)
EXTENDS Deployment, TLAPS

Patching == {"write", "replace", "move", "end", "undo", "clear"}

(* A directory without a checkout has no files. *)
EmptyInv == head \in {"none", "empty"} => file = Unwritten /\ ~payload

(* The overlay only ever begins on pinned files, which it then remembers:  *)
(* from there on none of them is the owner's.                              *)
CleanInv ==
    opc \in Patching =>
        /\ head = "pin" /\ before = Pinned
        /\ \A f \in Files : file[f] \notin Owned

(* How far the writing, and the way back, have come. *)
ProgressInv ==
    /\ opc \in {"write", "replace", "move", "end"} =>
          anchored /\ \A f \in Files \ todo : file[f] = "new"
    /\ opc \in {"move", "end"} => todo = {}
    /\ opc = "move" => tool = "sunshine"
    /\ opc \in {"undo", "clear"} => \A f \in Files \ todo : file[f] = before[f]
    /\ opc = "clear" => todo = {}

OverlayInv == OverlayType /\ EmptyInv /\ CleanInv /\ ProgressInv

(* No directory, no files and no tool that runs. *)
LEMMA OverlayStarts == OverlayInit => OverlayInv
  BY DEF OverlayInit, OverlayInv, OverlayType, EmptyInv, CleanInv, ProgressInv, Patching, Unwritten,
         Owned

(* What the tools accept to write over: pinned files and anchors in place. *)
LEMMA AcceptsPinned ==
    ASSUME OverlayType, Accepts(TRUE)
    PROVE anchored /\ head = "pin" /\ file = Pinned /\ left = {} /\ (tool = "sunshine" => ~payload)
  <1>1. anchored
    BY DEF Accepts, SunshineAccepts, MoonlightAccepts, MakeChanges
  <1> QED
    BY <1>1 DEF Accepts, SunshineAccepts, MoonlightAccepts, Clean, OverlayType

(* Every step of the overlay keeps its inductive invariant. *)
LEMMA OverlayStep == OverlayInv /\ [OverlayNext]_overlayVars => OverlayInv'
  <1> SUFFICES ASSUME OverlayInv, [OverlayNext]_overlayVars PROVE OverlayInv'
    OBVIOUS
  <1> USE DEF OverlayInv, OverlayType, EmptyInv, CleanInv, ProgressInv, Patching, source, Owned
  <1>1. CASE FetchStart
    BY <1>1 DEF FetchStart
  <1>2. CASE FetchCheckout \/ FetchSubmodules
    BY <1>2 DEF FetchCheckout, FetchSubmodules, Pinned
  <1>3. ASSUME NEW apply \in BOOLEAN, Refuse(apply) PROVE OverlayInv'
    BY <1>3 DEF Refuse
  <1>4. CASE CheckOnly
    BY <1>4 DEF CheckOnly
  <1>4a. CASE Applied
    BY <1>4a DEF Applied
  <1>5. CASE Begin
    <2>1. anchored /\ head = "pin" /\ file = Pinned
      BY <1>5, AcceptsPinned DEF Begin
    <2> QED
      BY <1>5, <2>1 DEF Begin, Pinned
  <1>6. ASSUME NEW f \in Files, WriteNew(f) PROVE OverlayInv'
    BY <1>6 DEF WriteNew
  <1>7. ASSUME NEW f \in Files, Replace(f) PROVE OverlayInv'
    <2>1. anchored /\ MakeChanges[f] = "new"
      BY <1>7 DEF Replace, MakeChanges
    <2>2. file' = [file EXCEPT ![f] = "new"]
      BY <1>7, <2>1 DEF Replace
    <2>3. opc' \in {"write", "move", "end"}
          /\ (opc' \in {"move", "end"} => todo' = {})
          /\ (opc' = "move" => tool = "sunshine")
      BY <1>7 DEF Replace, AfterReplace
    <2> QED
      BY <1>7, <2>1, <2>2, <2>3 DEF Replace
  <1>8. CASE MovePayload \/ RemovePayload
    BY <1>8 DEF MovePayload, RemovePayload
  <1>9. CASE Fail
    BY <1>9, OverlayAssumption DEF Fail
  <1>10. ASSUME NEW f \in Files, Undo(f) PROVE OverlayInv'
    BY <1>10 DEF Undo, Pinned
  <1>11. ASSUME NEW f \in Files, UndoFails(f) PROVE OverlayInv'
    BY <1>11 DEF UndoFails
  <1>12. CASE Kill
    BY <1>12 DEF Kill
  <1>13. ASSUME NEW f \in Files, Edit(f) PROVE OverlayInv'
    BY <1>13 DEF Edit
  <1>14. ASSUME NEW commit \in {"pin", "other"}, Reset(commit) PROVE OverlayInv'
    BY <1>14 DEF Reset, Pinned
  <1>15. CASE Delete
    BY <1>15 DEF Delete, Unwritten
  <1>16. CASE UNCHANGED overlayVars
    BY <1>16 DEF overlayVars
  <1> QED
    BY <1>1, <1>2, <1>3, <1>4, <1>4a, <1>5, <1>6, <1>7, <1>8, <1>9, <1>10, <1>11, <1>12,
       <1>13, <1>14, <1>15, <1>16 DEF OverlayNext

(* The deployment's other steps leave the checkout alone. *)
LEMMA DeploymentIsOverlay == [DeployNext]_deployVars => [OverlayNext]_overlayVars
  BY DEF DeployNext, deployVars, Build, RunServer, Package, Install, MakeCurrent

(* Type correctness of the checkout and the tools that work on it. *)
THEOREM OverlayTypes == DeploySpec => []OverlayType
  <1>1. OverlayInv => OverlayType
    BY DEF OverlayInv
  <1>2. DeployInit => OverlayInit
    BY DEF DeployInit
  <1> QED
    BY OverlayStarts, OverlayStep, DeploymentIsOverlay, <1>1, <1>2, PTL DEF DeploySpec

(* No step of a tool changes a file its owner has edited, for any number   *)
(* of files and whatever was interrupted before.                           *)
THEOREM LocalWorkSafe == DeploySpec => LocalWorkKept
  <1>1. ASSUME OverlayInv, [OverlayNext]_overlayVars
        PROVE [opc # "idle" \/ opc' # "idle" =>
                  \A f \in Files : file[f] \in Owned => file'[f] = file[f]]_overlayVars
    <2>1. CASE opc \in Patching
      BY <1>1, <2>1 DEF OverlayInv, CleanInv
    <2>2. CASE opc = "fetch"
      BY <1>1, <2>2, OverlayAssumption DEF OverlayInv, EmptyInv, Unwritten, Owned, OverlayNext,
             overlayVars, FetchStart,
             FetchCheckout, FetchSubmodules, Refuse, CheckOnly, Begin, WriteNew, Replace,
             MovePayload, Applied, Fail, Undo, RemovePayload, UndoFails, Kill, Edit, Reset, Delete
    <2>3. CASE opc = "idle"
      BY <1>1, <2>3, OverlayAssumption DEF OverlayNext, overlayVars, source, FetchStart,
             FetchCheckout, FetchSubmodules, Refuse, CheckOnly, Begin, WriteNew, Replace,
             MovePayload, Applied, Fail, Undo, RemovePayload, UndoFails, Kill, Edit, Reset, Delete
    <2> QED
      BY <1>1, <2>1, <2>2, <2>3 DEF OverlayInv, OverlayType, Patching
  <1>2. DeployInit => OverlayInit
    BY DEF DeployInit
  <1> QED
    BY OverlayStarts, OverlayStep, DeploymentIsOverlay, <1>1, <1>2, PTL DEF DeploySpec, LocalWorkKept

(* An overlay that gives up and can write the originals again leaves every *)
(* file as it found it.                                                    *)
THEOREM RefusalRestores == DeploySpec => RefusedRestores
  <1>1. ASSUME OverlayInv, [OverlayNext]_overlayVars
        PROVE [opc = "clear" /\ opc' = "idle" /\ result' = "refused" =>
                  file' = before]_overlayVars
    <2> SUFFICES ASSUME opc = "clear", opc' = "idle", result' = "refused", OverlayNext
                 PROVE file' = before
      BY <1>1
    <2>1. RemovePayload
      BY OverlayAssumption DEF OverlayNext, FetchStart, FetchCheckout, FetchSubmodules, Refuse,
             CheckOnly, Begin, WriteNew, Replace, MovePayload, Applied, Fail, Undo, UndoFails,
             Kill, Edit, Reset, Delete
    <2>2. \A f \in Files : file[f] = before[f]
      BY <1>1 DEF OverlayInv, ProgressInv
    <2>3. file = before
      BY <1>1, <2>2 DEF OverlayInv, OverlayType
    <2> QED
      BY <2>1, <2>3 DEF RemovePayload
  <1>2. DeployInit => OverlayInit
    BY DEF DeployInit
  <1> QED
    BY OverlayStarts, OverlayStep, DeploymentIsOverlay, <1>1, <1>2, PTL DEF DeploySpec, RefusedRestores

(***************************************************************************)
(* A payload comes with the whole overlay, or, in a checkout that its      *)
(* owner reset without cleaning it, without the patch that names the       *)
(* binary: what is built is patched.  An exception after the rename of the *)
(* payload ("end") would break this: its way back unpatches files while    *)
(* the payload is still there.                                             *)
(***************************************************************************)
PayloadInv ==
    /\ payload => tool = "sunshine"
    /\ payload => (\A f \in Files : Patched(f)) \/ ~Patched(Naming)
    /\ opc \in Patching \ {"end"} => ~payload

ReleaseInv ==
    /\ artifact \in {"none", "patched"}
    /\ packed \in [Releases -> {"none", "patched"}]
    /\ \A v \in installed \cup running : v \in Releases /\ packed[v] = "patched"

(* Every step of the overlay keeps the payload a sign of all its files,    *)
(* when nothing interrupts it after the payload is in place.               *)
LEMMA PayloadStep ==
    ASSUME FailPoints \subseteq {"write", "replace", "move"},
           OverlayInv, PayloadInv, [OverlayNext]_overlayVars
    PROVE PayloadInv'
  <1> USE DeploymentAssumption
      DEF PayloadInv, OverlayInv, OverlayType, Patching, Patched, Owned, source
  <1>1. CASE FetchStart \/ FetchSubmodules
    BY <1>1 DEF FetchStart, FetchSubmodules
  <1>1a. CASE CheckOnly
    BY <1>1a DEF CheckOnly
  <1>1b. CASE Applied
    BY <1>1b DEF Applied
  <1>2. CASE FetchCheckout
    BY <1>2 DEF FetchCheckout, EmptyInv, Pinned
  <1>3. ASSUME NEW apply \in BOOLEAN, Refuse(apply) PROVE PayloadInv'
    BY <1>3 DEF Refuse
  <1>4. CASE Begin
    BY <1>4, AcceptsPinned DEF Begin
  <1>5. ASSUME NEW f \in Files, WriteNew(f) PROVE PayloadInv'
    BY <1>5 DEF WriteNew
  <1>6. ASSUME NEW f \in Files, Replace(f) PROVE PayloadInv'
    BY <1>6 DEF Replace
  <1>7. CASE MovePayload
    BY <1>7 DEF MovePayload, ProgressInv
  <1>8. CASE Fail
    BY <1>8 DEF Fail
  <1>9. ASSUME NEW f \in Files, Undo(f) \/ UndoFails(f) PROVE PayloadInv'
    BY <1>9 DEF Undo, UndoFails
  <1>10. CASE RemovePayload
    <2>1. ~payload BY <1>10 DEF RemovePayload
    <2>2. payload' \in {FALSE, payload} BY <1>10 DEF RemovePayload
    <2>3. ~payload' BY <2>1, <2>2, Zenon
    <2> QED BY <1>10, <2>3 DEF RemovePayload
  <1>11. CASE Kill
    BY <1>11 DEF Kill
  <1>12. ASSUME NEW f \in Files, Edit(f) PROVE PayloadInv'
    BY <1>12 DEF Edit
  <1>13. ASSUME NEW commit \in {"pin", "other"}, Reset(commit) PROVE PayloadInv'
    BY <1>13 DEF Reset, Pinned
  <1>14. CASE Delete
    BY <1>14 DEF Delete
  <1>15. CASE UNCHANGED overlayVars
    BY <1>15 DEF overlayVars
  <1> QED
    BY <1>1, <1>1a, <1>1b, <1>2, <1>3, <1>4, <1>5, <1>6, <1>7, <1>8, <1>9, <1>10, <1>11,
       <1>12, <1>13, <1>14, <1>15 DEF OverlayNext

(* What is built, packed, installed and run is patched as a whole. *)
LEMMA ReleaseStep ==
    ASSUME OverlayInv, PayloadInv, ReleaseInv, [DeployNext]_deployVars
    PROVE ReleaseInv'
  <1>1. CASE Build
    BY <1>1 DEF Build, ReleaseInv, PayloadInv, Patched
  <1>2. ASSUME NEW v \in Releases, Package(v) PROVE ReleaseInv'
    BY <1>2 DEF Package, ReleaseInv
  <1>3. ASSUME NEW v \in Releases, Install(v) PROVE ReleaseInv'
    BY <1>3 DEF Install, Installer!Add, ReleaseInv
  <1>4. ASSUME NEW v \in Releases, MakeCurrent(v) PROVE ReleaseInv'
    BY <1>4 DEF MakeCurrent, Installer!SwitchTo, ReleaseInv
  <1>5. CASE RunServer
    BY <1>5 DEF RunServer, Installer!Processes, ReleaseInv
  <1>6. CASE UNCHANGED releaseVars
    BY <1>6 DEF releaseVars, ReleaseInv
  <1> QED
    BY <1>1, <1>2, <1>3, <1>4, <1>5, <1>6 DEF DeployNext, deployVars

(* A server that runs has the whole overlay in it, whatever was killed,    *)
(* refused, edited or packaged on the way, unless an exception hits the    *)
(* overlay between the rename of its payload and its end.                  *)
THEOREM OnlyPatchedServers ==
    ASSUME FailPoints \subseteq {"write", "replace", "move"}
    PROVE DeploySpec => []RunsPatchedServer
  <1> DEFINE Inv == OverlayInv /\ PayloadInv /\ ReleaseInv
  <1>1. DeployInit => Inv
    <2>1. DeployInit => OverlayInv
      BY OverlayStarts DEF DeployInit
    <2> QED
      BY <2>1 DEF DeployInit, OverlayInit, PayloadInv, ReleaseInv, Patching, Installer!SwitchInit
  <1>2. Inv /\ [DeployNext]_deployVars => Inv'
    BY OverlayStep, PayloadStep, ReleaseStep, DeploymentIsOverlay
  <1>3. Inv => RunsPatchedServer
    BY DEF ReleaseInv, RunsPatchedServer
  <1> QED
    BY <1>1, <1>2, <1>3, PTL DEF DeploySpec
==============================================================================
