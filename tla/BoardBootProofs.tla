--------------------------- MODULE BoardBootProofs ---------------------------
(***************************************************************************)
(* For any number of processes and releases, and all three parts side by   *)
(* side: the codec comes back, the backup is the receiver's own EDID, and  *)
(* the daemon serves the rkmoon gadget's nodes.                            *)
(***************************************************************************)
EXTENDS BoardBoot, TLAPS

(***************************************************************************)
(* The gadget.  The configuration names the gadget's nodes as long as the  *)
(* unit is active, and a gadget whose start goes on is complete.           *)
(***************************************************************************)
NodesInv ==
    /\ gunit = "active" => whole /\ nodes = own /\ gpc = "idle" /\ setup = "done"
    /\ gpc # "idle" => setup = "done" /\ daemon = "none" /\ gunit # "active"
    /\ gpc \in {"resolve", "rewrite", "written"} => whole
    /\ whole => own # "none"
    /\ daemon # "none" => gunit = "active" /\ daemon = nodes

InputInv == InputType /\ NodesInv

(* Nothing is installed and no gadget is there. *)
LEMMA InputStarts == InputInit => InputInv
  BY DEF InputInit, InputInv, InputType, NodesInv, Minors

(* Every step of the input backend keeps its inductive invariant. *)
LEMMA InputStepKeeps == InputInv /\ InputNext => InputInv'
  <1> SUFFICES ASSUME InputInv, InputNext PROVE InputInv'
    OBVIOUS
  <1> USE DEF InputInv, InputType, NodesInv, Minors, Readable, other
  <1>1. CASE InstallFiles \/ InstallConfig \/ InstallInputUnits
    BY <1>1 DEF InstallFiles, InstallConfig, InstallInputUnits
  <1>2. CASE RemoveInstallation
    BY <1>2 DEF RemoveInstallation
  <1>3. CASE StartGadget
    BY <1>3 DEF StartGadget
  <1>4. CASE CreateGadget
    BY <1>4 DEF CreateGadget
  <1>5. CASE ResolveNodes
    BY <1>5 DEF ResolveNodes
  <1>6. CASE RewriteConfig \/ ConfigRewritten
    BY <1>6 DEF RewriteConfig, ConfigRewritten
  <1>7. CASE StartKilled
    BY <1>7 DEF StartKilled
  <1>8. CASE StopGadget \/ StopByHand
    BY <1>8 DEF StopGadget, StopByHand
  <1>9. CASE Serve
    BY <1>9 DEF Serve
  <1>10. CASE DaemonEnds
    BY <1>10 DEF DaemonEnds
  <1>11. CASE ForeignCreate
    BY <1>11 DEF ForeignCreate
  <1>12. CASE ForeignBind
    BY <1>12 DEF ForeignBind
  <1>13. CASE ForeignUnbind
    BY <1>13, ZenonT(30) DEF ForeignUnbind
  <1>14. CASE ForeignRemove
    BY <1>14 DEF ForeignRemove
  <1> QED
    BY <1>1, <1>2, <1>3, <1>4, <1>5, <1>6, <1>7, <1>8, <1>9, <1>10, <1>11, <1>12, <1>13, <1>14
    DEF InputNext

(* A reboot removes the gadget and stops the daemon; the files stay. *)
LEMMA InputReboots == InputInv /\ InputBooted => InputInv'
  BY DEF InputInv, InputType, NodesInv, Minors, InputBooted

(***************************************************************************)
(* The EDID.  A process that is past the look for a backup knows that one  *)
(* has been created, unless it is the one to create it; and what such a    *)
(* process saw is the receiver's own.                                      *)
(***************************************************************************)
OwnEdids == BootEdids \cap Ours = {} /\ "invalid" \notin BootEdids

BackupInv ==
    /\ backup \in {"none", "torn"} \cup BootEdids
    /\ edid \in Ours => backup # "none"
    /\ \A p \in Appliers :
          /\ epc[p] # "idle" => wanted[p] \in Ours
          /\ epc[p] \in {"look", "create"} /\ backup = "none" => seen[p] \in BootEdids
          /\ epc[p] = "fill" => seen[p] \in BootEdids
          /\ epc[p] \in {"fill", "set", "verify"} => backup # "none"

EdidInv == EdidType /\ BackupInv

(* The receiver starts with its own EDID and no backup. *)
LEMMA EdidStarts == ASSUME OwnEdids PROVE EdidInit => EdidInv
  BY EdidAssumption DEF OwnEdids, EdidInit, EdidInv, EdidType, BackupInv

(* Every step of every process keeps the inductive invariant. *)
LEMMA EdidStepKeeps == ASSUME OwnEdids PROVE EdidInv /\ EdidNext => EdidInv'
  <1> SUFFICES ASSUME EdidInv, NEW p \in Appliers,
                      \/ \E e \in Ours : ReadEdid(p, e)
                      \/ LookForBackup(p) \/ CreateBackup(p) \/ FillBackup(p)
                      \/ SetEdid(p) \/ VerifyEdid(p) \/ EdidFails(p)
               PROVE EdidInv'
    BY DEF EdidNext
  <1> USE EdidAssumption DEF OwnEdids, EdidInv, EdidType, BackupInv
  <1>1. ASSUME NEW e \in Ours, ReadEdid(p, e) PROVE EdidInv'
    BY <1>1 DEF ReadEdid
  <1>2. CASE LookForBackup(p)
    BY <1>2 DEF LookForBackup
  <1>3. CASE CreateBackup(p)
    BY <1>3 DEF CreateBackup
  <1>4. CASE FillBackup(p)
    BY <1>4 DEF FillBackup
  <1>5. CASE SetEdid(p)
    BY <1>5 DEF SetEdid
  <1>6. CASE VerifyEdid(p) \/ EdidFails(p)
    BY <1>6 DEF VerifyEdid, EdidFails
  <1> QED
    BY <1>1, <1>2, <1>3, <1>4, <1>5, <1>6

(* A reboot gives the receiver its own EDID and keeps the backup. *)
LEMMA EdidReboots == ASSUME OwnEdids PROVE EdidInv /\ EdidBooted => EdidInv'
  BY EdidAssumption DEF OwnEdids, EdidInv, EdidType, BackupInv, EdidBooted

(***************************************************************************)
(* The codec.  Going forward, the position says what is done and what the  *)
(* kernel has; on a way back without a failed write, it says what is       *)
(* restored already.                                                       *)
(***************************************************************************)
(* A vendor driver is never bound under the override. *)
OverrideInv == sound.driver = "old" => sound.override = "clear"

(* The order in which steps are taken. *)
StepsInv ==
    /\ "bind" \in steps => "override" \in steps
    /\ "override" \in steps => "codec" \in steps
    /\ "codec" \in steps => "machine" \in steps
    /\ "module" \in steps => "machine" \in steps /\ found = "out"

ModuleInv ==
    /\ "module" \in steps => sound.module = "in"
    /\ "module" \notin steps => sound.module = found

DriverInv ==
    /\ "bind" \in steps => sound.driver = "new"
    /\ "codec" \in steps /\ "bind" \notin steps => sound.driver = "none"
    /\ "codec" \notin steps => sound.driver = "old"

SetInv == "override" \notin steps => sound.override = "clear"

ForwardInv ==
    /\ cpos = 1 => "machine" \notin steps
    /\ cpos # 1 => "machine" \in steps
    /\ cpos \in 2 .. 6 => sound.machine = "free"
    /\ cpos \in 3 .. 7 => sound.module = "in"
    /\ "codec" \in steps <=> cpos \in 4 .. 7
    /\ "override" \in steps <=> cpos \in 5 .. 7
    /\ "bind" \in steps <=> cpos \in 6 .. 7

BackInv ==
    /\ cpos \in 1 .. 6 => ModuleInv
    /\ cpos = 7 => sound.module = found
    /\ cpos \in 2 .. 5 /\ "machine" \in steps => sound.machine = "free"
    /\ cpos \in 1 .. 2 => DriverInv
    /\ cpos \in 3 .. 4 /\ "codec" \in steps => sound.driver = "none"
    /\ cpos \in 3 .. 4 /\ "codec" \notin steps => sound.driver = "old"
    /\ cpos \in 1 .. 3 => SetInv
    /\ cpos \in 4 .. 7 => sound.override = "clear"
    /\ cpos \in 5 .. 7 => sound.driver = "old"
    /\ cpos \in 6 .. 7 => sound.machine = "bound"

CodecInv ==
    /\ CodecType /\ OverrideInv
    /\ cphase # "idle" => StepsInv
    /\ cphase = "forward" => ForwardInv /\ ModuleInv /\ DriverInv /\ SetInv
    /\ cphase = "back" => BackInv

(* The vendor's driver, before any run. *)
LEMMA CodecStarts == CodecInit => CodecInv
  BY DEF CodecInit, CodecInv, CodecType, OverrideInv, Vendor, Sounds

(* The vendor's driver, after a reboot. *)
LEMMA CodecReboots == CodecBooted => CodecInv'
  BY DEF CodecBooted, CodecInv, CodecType, OverrideInv, Vendor, Sounds

(* What a write to one of the sound devices changes and what it leaves. *)
LEMMA WriteMachine ==
    ASSUME NEW s \in Sounds, NEW x \in {"bound", "free"},
           NEW t, t = [s EXCEPT !.machine = x]
    PROVE /\ t \in Sounds /\ t.machine = x
          /\ t.driver = s.driver /\ t.override = s.override /\ t.module = s.module
  BY DEF Sounds

LEMMA WriteDriver ==
    ASSUME NEW s \in Sounds, NEW x \in {"old", "new", "none"},
           NEW t, t = [s EXCEPT !.driver = x]
    PROVE /\ t \in Sounds /\ t.driver = x
          /\ t.machine = s.machine /\ t.override = s.override /\ t.module = s.module
  BY DEF Sounds

LEMMA WriteOverride ==
    ASSUME NEW s \in Sounds, NEW x \in {"set", "clear"},
           NEW t, t = [s EXCEPT !.override = x]
    PROVE /\ t \in Sounds /\ t.override = x
          /\ t.machine = s.machine /\ t.driver = s.driver /\ t.module = s.module
  BY DEF Sounds

LEMMA WriteModule ==
    ASSUME NEW s \in Sounds, NEW x \in {"in", "out"},
           NEW t, t = [s EXCEPT !.module = x]
    PROVE /\ t \in Sounds /\ t.module = x
          /\ t.machine = s.machine /\ t.driver = s.driver /\ t.override = s.override
  BY DEF Sounds

(* The steps forward, one by one. *)
LEMMA BindStepKeeps == CodecInv /\ BindStep => CodecInv'
  <1> SUFFICES ASSUME CodecInv, BindStep PROVE CodecInv'
    OBVIOUS
  <1>a. /\ sound \in Sounds /\ steps \subseteq StepNames /\ found \in {"in", "out"}
        /\ cpos \in 1 .. 6 /\ cphase = "forward"
        /\ cresult \in {"none", "ready", "refused", "undone", "killed"}
    BY DEF CodecInv, CodecType, BindStep
  <1>b. OverrideInv /\ StepsInv /\ ForwardInv /\ ModuleInv /\ DriverInv /\ SetInv
    BY <1>a DEF CodecInv
  <1>1. CASE cpos = 1
    <2>1. Forward[cpos] = "machine"
      BY <1>1 DEF Forward
    <2>2. cphase' = cphase /\ cpos' = 2 /\ found' = found /\ cresult' = cresult
      BY <1>1 DEF BindStep
    <2>3. sound' = [sound EXCEPT !.machine = "free"] /\ steps' = steps \cup {"machine"}
      BY <2>1 DEF BindStep, Takes, Done
    <2>4. sound' \in Sounds /\ sound'.machine = "free"
          /\ sound'.driver = sound.driver /\ sound'.override = sound.override /\ sound'.module = sound.module
      BY <1>a, <2>3, WriteMachine
    <2>5. steps' \subseteq StepNames
      BY <1>a, <2>3 DEF StepNames
    <2>6. OverrideInv' /\ StepsInv' /\ ForwardInv' /\ ModuleInv' /\ DriverInv' /\ SetInv'
      BY <1>a, <1>b, <1>1, <2>2, <2>3, <2>4 DEF OverrideInv, StepsInv, ForwardInv, ModuleInv,
         DriverInv, SetInv
    <2> QED
      BY <1>a, <2>2, <2>4, <2>5, <2>6 DEF CodecInv, CodecType
  <1>2. CASE cpos = 2
    <2>1. Forward[cpos] = "module"
      BY <1>2 DEF Forward
    <2>2. cphase' = cphase /\ cpos' = 3 /\ found' = found /\ cresult' = cresult
      BY <1>2 DEF BindStep
    <2>3. CASE sound' = sound /\ steps' = steps /\ sound.module = "in"
      BY <1>a, <1>b, <1>2, <2>2, <2>3 DEF CodecInv, CodecType, OverrideInv, StepsInv,
         ForwardInv, ModuleInv, DriverInv, SetInv
    <2>4. CASE /\ sound' = [sound EXCEPT !.module = "in"] /\ sound.module = "out"
               /\ steps' = steps \cup {"module"}
      <3>1. sound' \in Sounds /\ sound'.module = "in"
            /\ sound'.machine = sound.machine /\ sound'.driver = sound.driver /\ sound'.override = sound.override
        BY <1>a, <2>4, WriteModule
      <3>2. steps' \subseteq StepNames
        BY <1>a, <2>4 DEF StepNames
      <3>3. OverrideInv' /\ StepsInv' /\ ForwardInv' /\ ModuleInv' /\ DriverInv' /\ SetInv'
        BY <1>a, <1>b, <1>2, <2>2, <2>4, <3>1 DEF OverrideInv, StepsInv, ForwardInv, ModuleInv,
           DriverInv, SetInv
      <3> QED
        BY <1>a, <2>2, <3>1, <3>2, <3>3 DEF CodecInv, CodecType
    <2> QED
      BY <2>1, <2>3, <2>4 DEF BindStep, Takes, Done
  <1>3. CASE cpos = 3
    <2>1. Forward[cpos] = "codec"
      BY <1>3 DEF Forward
    <2>2. cphase' = cphase /\ cpos' = 4 /\ found' = found /\ cresult' = cresult
      BY <1>3 DEF BindStep
    <2>3. sound' = [sound EXCEPT !.driver = "none"] /\ steps' = steps \cup {"codec"}
      BY <2>1 DEF BindStep, Takes, Done
    <2>4. sound' \in Sounds /\ sound'.driver = "none"
          /\ sound'.machine = sound.machine /\ sound'.override = sound.override /\ sound'.module = sound.module
      BY <1>a, <2>3, WriteDriver
    <2>5. steps' \subseteq StepNames
      BY <1>a, <2>3 DEF StepNames
    <2>6. OverrideInv' /\ StepsInv' /\ ForwardInv' /\ ModuleInv' /\ DriverInv' /\ SetInv'
      BY <1>a, <1>b, <1>3, <2>2, <2>3, <2>4 DEF OverrideInv, StepsInv, ForwardInv, ModuleInv,
         DriverInv, SetInv
    <2> QED
      BY <1>a, <2>2, <2>4, <2>5, <2>6 DEF CodecInv, CodecType
  <1>4. CASE cpos = 4
    <2>1. Forward[cpos] = "override"
      BY <1>4 DEF Forward
    <2>2. cphase' = cphase /\ cpos' = 5 /\ found' = found /\ cresult' = cresult
      BY <1>4 DEF BindStep
    <2>3. sound' = [sound EXCEPT !.override = "set"] /\ steps' = steps \cup {"override"}
      BY <2>1 DEF BindStep, Takes, Done
    <2>4. sound' \in Sounds /\ sound'.override = "set"
          /\ sound'.machine = sound.machine /\ sound'.driver = sound.driver /\ sound'.module = sound.module
      BY <1>a, <2>3, WriteOverride
    <2>5. steps' \subseteq StepNames
      BY <1>a, <2>3 DEF StepNames
    <2>6. OverrideInv' /\ StepsInv' /\ ForwardInv' /\ ModuleInv' /\ DriverInv' /\ SetInv'
      BY <1>a, <1>b, <1>4, <2>2, <2>3, <2>4 DEF OverrideInv, StepsInv, ForwardInv, ModuleInv,
         DriverInv, SetInv
    <2> QED
      BY <1>a, <2>2, <2>4, <2>5, <2>6 DEF CodecInv, CodecType
  <1>5. CASE cpos = 5
    <2>1. Forward[cpos] = "bind"
      BY <1>5 DEF Forward
    <2>2. cphase' = cphase /\ cpos' = 6 /\ found' = found /\ cresult' = cresult
      BY <1>5 DEF BindStep
    <2>3. sound' = [sound EXCEPT !.driver = "new"] /\ steps' = steps \cup {"bind"}
      BY <2>1 DEF BindStep, Takes, Done
    <2>4. sound' \in Sounds /\ sound'.driver = "new"
          /\ sound'.machine = sound.machine /\ sound'.override = sound.override /\ sound'.module = sound.module
      BY <1>a, <2>3, WriteDriver
    <2>5. steps' \subseteq StepNames
      BY <1>a, <2>3 DEF StepNames
    <2>6. OverrideInv' /\ StepsInv' /\ ForwardInv' /\ ModuleInv' /\ DriverInv' /\ SetInv'
      BY <1>a, <1>b, <1>5, <2>2, <2>3, <2>4 DEF OverrideInv, StepsInv, ForwardInv, ModuleInv,
         DriverInv, SetInv
    <2> QED
      BY <1>a, <2>2, <2>4, <2>5, <2>6 DEF CodecInv, CodecType
  <1>6. CASE cpos = 6
    <2>1. Forward[cpos] = "card"
      BY <1>6 DEF Forward
    <2>2. cphase' = cphase /\ cpos' = 7 /\ found' = found /\ cresult' = cresult
      BY <1>6 DEF BindStep
    <2>3. sound' = [sound EXCEPT !.machine = "bound"] /\ steps' = steps \cup {"card"}
      BY <2>1 DEF BindStep, Takes, Done
    <2>4. sound' \in Sounds /\ sound'.machine = "bound"
          /\ sound'.driver = sound.driver /\ sound'.override = sound.override /\ sound'.module = sound.module
      BY <1>a, <2>3, WriteMachine
    <2>5. steps' \subseteq StepNames
      BY <1>a, <2>3 DEF StepNames
    <2>6. OverrideInv' /\ StepsInv' /\ ForwardInv' /\ ModuleInv' /\ DriverInv' /\ SetInv'
      BY <1>a, <1>b, <1>6, <2>2, <2>3, <2>4 DEF OverrideInv, StepsInv, ForwardInv, ModuleInv,
         DriverInv, SetInv
    <2> QED
      BY <1>a, <2>2, <2>4, <2>5, <2>6 DEF CodecInv, CodecType
  <1> QED
    BY <1>a, <1>1, <1>2, <1>3, <1>4, <1>5, <1>6

(* The attempts of the way back, one by one. *)
LEMMA AttemptBackKeeps == CodecInv /\ AttemptBack => CodecInv'
  <1> SUFFICES ASSUME CodecInv, AttemptBack PROVE CodecInv'
    OBVIOUS
  <1>a. /\ sound \in Sounds /\ steps \subseteq StepNames /\ found \in {"in", "out"}
        /\ cpos \in 1 .. 6 /\ cphase \in {"back", "flawed"}
        /\ cresult \in {"none", "ready", "refused", "undone", "killed"}
    BY DEF CodecInv, CodecType, AttemptBack
  <1>b. OverrideInv /\ StepsInv /\ (cphase = "back" => BackInv)
    BY <1>a DEF CodecInv
  <1>1. CASE cpos = 1
    <2> DEFINE tried == "machine" \in steps /\ sound.machine = "bound"
    <2>1. Back[cpos] = "machine"
      BY <1>1 DEF Back
    <2>2. cpos' = 2 /\ steps' = steps /\ found' = found /\ cresult' = cresult
      BY <1>1 DEF AttemptBack
    <2>3. \/ tried /\ sound' = [sound EXCEPT !.machine = "free"] /\ cphase' = cphase
          \/ sound' = sound /\ cphase' = "flawed"
          \/ ~tried /\ sound' = sound /\ cphase' = cphase
      BY <2>1 DEF AttemptBack, TakesBack, Undone
    <2>4. CASE sound' = sound /\ cphase' = "flawed"
      BY <1>a, <1>b, <2>2, <2>4 DEF CodecInv, CodecType, OverrideInv, StepsInv
    <2>5. CASE ~tried /\ sound' = sound /\ cphase' = cphase
      <3>1. cphase = "back" => BackInv'
        BY <1>a, <1>b, <1>1, <2>2, <2>5 DEF OverrideInv, StepsInv, BackInv, ModuleInv,
           DriverInv, SetInv, Sounds
      <3> QED
        BY <1>a, <1>b, <2>2, <2>5, <3>1 DEF CodecInv, CodecType, OverrideInv, StepsInv
    <2>6. CASE tried /\ sound' = [sound EXCEPT !.machine = "free"] /\ cphase' = cphase
      <3>1. sound' \in Sounds /\ sound'.machine = "free"
            /\ sound'.driver = sound.driver /\ sound'.override = sound.override /\ sound'.module = sound.module
        BY <1>a, <2>6, WriteMachine
      <3>2. OverrideInv' /\ StepsInv'
        BY <1>a, <1>b, <2>2, <2>6, <3>1 DEF OverrideInv, StepsInv
      <3>3. cphase = "back" => BackInv'
        BY <1>a, <1>b, <1>1, <2>2, <2>6, <3>1 DEF StepsInv, BackInv, ModuleInv, DriverInv, SetInv
      <3> QED
        BY <1>a, <2>2, <2>6, <3>1, <3>2, <3>3 DEF CodecInv, CodecType
    <2> QED
      BY <2>3, <2>4, <2>5, <2>6
  <1>2. CASE cpos = 2
    <2> DEFINE tried == "bind" \in steps /\ sound.driver = "new"
    <2>1. Back[cpos] = "bind"
      BY <1>2 DEF Back
    <2>2. cpos' = 3 /\ steps' = steps /\ found' = found /\ cresult' = cresult
      BY <1>2 DEF AttemptBack
    <2>3. \/ tried /\ sound' = [sound EXCEPT !.driver = "none"] /\ cphase' = cphase
          \/ sound' = sound /\ cphase' = "flawed"
          \/ ~tried /\ sound' = sound /\ cphase' = cphase
      BY <2>1 DEF AttemptBack, TakesBack, Undone
    <2>4. CASE sound' = sound /\ cphase' = "flawed"
      BY <1>a, <1>b, <2>2, <2>4 DEF CodecInv, CodecType, OverrideInv, StepsInv
    <2>5. CASE ~tried /\ sound' = sound /\ cphase' = cphase
      <3>1. cphase = "back" => BackInv'
        BY <1>a, <1>b, <1>2, <2>2, <2>5 DEF OverrideInv, StepsInv, BackInv, ModuleInv,
           DriverInv, SetInv, Sounds
      <3> QED
        BY <1>a, <1>b, <2>2, <2>5, <3>1 DEF CodecInv, CodecType, OverrideInv, StepsInv
    <2>6. CASE tried /\ sound' = [sound EXCEPT !.driver = "none"] /\ cphase' = cphase
      <3>1. sound' \in Sounds /\ sound'.driver = "none"
            /\ sound'.machine = sound.machine /\ sound'.override = sound.override /\ sound'.module = sound.module
        BY <1>a, <2>6, WriteDriver
      <3>2. OverrideInv' /\ StepsInv'
        BY <1>a, <1>b, <2>2, <2>6, <3>1 DEF OverrideInv, StepsInv
      <3>3. cphase = "back" => BackInv'
        BY <1>a, <1>b, <1>2, <2>2, <2>6, <3>1 DEF StepsInv, BackInv, ModuleInv, DriverInv, SetInv
      <3> QED
        BY <1>a, <2>2, <2>6, <3>1, <3>2, <3>3 DEF CodecInv, CodecType
    <2> QED
      BY <2>3, <2>4, <2>5, <2>6
  <1>3. CASE cpos = 3
    <2> DEFINE tried == "override" \in steps
    <2>1. Back[cpos] = "override"
      BY <1>3 DEF Back
    <2>2. cpos' = 4 /\ steps' = steps /\ found' = found /\ cresult' = cresult
      BY <1>3 DEF AttemptBack
    <2>3. \/ tried /\ sound' = [sound EXCEPT !.override = "clear"] /\ cphase' = cphase
          \/ sound' = sound /\ cphase' = "flawed"
          \/ ~tried /\ sound' = sound /\ cphase' = cphase
      BY <2>1 DEF AttemptBack, TakesBack, Undone
    <2>4. CASE sound' = sound /\ cphase' = "flawed"
      BY <1>a, <1>b, <2>2, <2>4 DEF CodecInv, CodecType, OverrideInv, StepsInv
    <2>5. CASE ~tried /\ sound' = sound /\ cphase' = cphase
      <3>1. cphase = "back" => BackInv'
        BY <1>a, <1>b, <1>3, <2>2, <2>5 DEF OverrideInv, StepsInv, BackInv, ModuleInv,
           DriverInv, SetInv, Sounds
      <3> QED
        BY <1>a, <1>b, <2>2, <2>5, <3>1 DEF CodecInv, CodecType, OverrideInv, StepsInv
    <2>6. CASE tried /\ sound' = [sound EXCEPT !.override = "clear"] /\ cphase' = cphase
      <3>1. sound' \in Sounds /\ sound'.override = "clear"
            /\ sound'.machine = sound.machine /\ sound'.driver = sound.driver /\ sound'.module = sound.module
        BY <1>a, <2>6, WriteOverride
      <3>2. OverrideInv' /\ StepsInv'
        BY <1>a, <1>b, <2>2, <2>6, <3>1 DEF OverrideInv, StepsInv
      <3>3. cphase = "back" => BackInv'
        BY <1>a, <1>b, <1>3, <2>2, <2>6, <3>1 DEF StepsInv, BackInv, ModuleInv, DriverInv, SetInv
      <3> QED
        BY <1>a, <2>2, <2>6, <3>1, <3>2, <3>3 DEF CodecInv, CodecType
    <2> QED
      BY <2>3, <2>4, <2>5, <2>6
  <1>4. CASE cpos = 4
    <2> DEFINE tried == "codec" \in steps /\ sound.driver = "none" /\ sound.override = "clear"
    <2>1. Back[cpos] = "codec"
      BY <1>4 DEF Back
    <2>2. cpos' = 5 /\ steps' = steps /\ found' = found /\ cresult' = cresult
      BY <1>4 DEF AttemptBack
    <2>3. \/ tried /\ sound' = [sound EXCEPT !.driver = "old"] /\ cphase' = cphase
          \/ sound' = sound /\ cphase' = "flawed"
          \/ ~tried /\ sound' = sound /\ cphase' = cphase
      BY <2>1 DEF AttemptBack, TakesBack, Undone
    <2>4. CASE sound' = sound /\ cphase' = "flawed"
      BY <1>a, <1>b, <2>2, <2>4 DEF CodecInv, CodecType, OverrideInv, StepsInv
    <2>5. CASE ~tried /\ sound' = sound /\ cphase' = cphase
      <3>1. cphase = "back" => BackInv'
        BY <1>a, <1>b, <1>4, <2>2, <2>5 DEF OverrideInv, StepsInv, BackInv, ModuleInv,
           DriverInv, SetInv, Sounds
      <3> QED
        BY <1>a, <1>b, <2>2, <2>5, <3>1 DEF CodecInv, CodecType, OverrideInv, StepsInv
    <2>6. CASE tried /\ sound' = [sound EXCEPT !.driver = "old"] /\ cphase' = cphase
      <3>1. sound' \in Sounds /\ sound'.driver = "old"
            /\ sound'.machine = sound.machine /\ sound'.override = sound.override /\ sound'.module = sound.module
        BY <1>a, <2>6, WriteDriver
      <3>2. OverrideInv' /\ StepsInv'
        BY <1>a, <1>b, <2>2, <2>6, <3>1 DEF OverrideInv, StepsInv
      <3>3. cphase = "back" => BackInv'
        BY <1>a, <1>b, <1>4, <2>2, <2>6, <3>1 DEF StepsInv, BackInv, ModuleInv, DriverInv, SetInv
      <3> QED
        BY <1>a, <2>2, <2>6, <3>1, <3>2, <3>3 DEF CodecInv, CodecType
    <2> QED
      BY <2>3, <2>4, <2>5, <2>6
  <1>5. CASE cpos = 5
    <2> DEFINE tried == sound.machine = "free" /\ sound.driver # "none"
    <2>1. Back[cpos] = "card"
      BY <1>5 DEF Back
    <2>2. cpos' = 6 /\ steps' = steps /\ found' = found /\ cresult' = cresult
      BY <1>5 DEF AttemptBack
    <2>3. \/ tried /\ sound' = [sound EXCEPT !.machine = "bound"] /\ cphase' = cphase
          \/ sound' = sound /\ cphase' = "flawed"
          \/ ~tried /\ sound' = sound /\ cphase' = cphase
      BY <2>1 DEF AttemptBack, TakesBack, Undone
    <2>4. CASE sound' = sound /\ cphase' = "flawed"
      BY <1>a, <1>b, <2>2, <2>4 DEF CodecInv, CodecType, OverrideInv, StepsInv
    <2>5. CASE ~tried /\ sound' = sound /\ cphase' = cphase
      <3>1. cphase = "back" => BackInv'
        BY <1>a, <1>b, <1>5, <2>2, <2>5 DEF OverrideInv, StepsInv, BackInv, ModuleInv,
           DriverInv, SetInv, Sounds
      <3> QED
        BY <1>a, <1>b, <2>2, <2>5, <3>1 DEF CodecInv, CodecType, OverrideInv, StepsInv
    <2>6. CASE tried /\ sound' = [sound EXCEPT !.machine = "bound"] /\ cphase' = cphase
      <3>1. sound' \in Sounds /\ sound'.machine = "bound"
            /\ sound'.driver = sound.driver /\ sound'.override = sound.override /\ sound'.module = sound.module
        BY <1>a, <2>6, WriteMachine
      <3>2. OverrideInv' /\ StepsInv'
        BY <1>a, <1>b, <2>2, <2>6, <3>1 DEF OverrideInv, StepsInv
      <3>3. cphase = "back" => BackInv'
        BY <1>a, <1>b, <1>5, <2>2, <2>6, <3>1 DEF StepsInv, BackInv, ModuleInv, DriverInv, SetInv
      <3> QED
        BY <1>a, <2>2, <2>6, <3>1, <3>2, <3>3 DEF CodecInv, CodecType
    <2> QED
      BY <2>3, <2>4, <2>5, <2>6
  <1>6. CASE cpos = 6
    <2> DEFINE tried == "module" \in steps /\ sound.module = "in" /\ sound.driver # "new"
    <2>1. Back[cpos] = "module"
      BY <1>6 DEF Back
    <2>2. cpos' = 7 /\ steps' = steps /\ found' = found /\ cresult' = cresult
      BY <1>6 DEF AttemptBack
    <2>3. \/ tried /\ sound' = [sound EXCEPT !.module = "out"] /\ cphase' = cphase
          \/ sound' = sound /\ cphase' = "flawed"
          \/ ~tried /\ sound' = sound /\ cphase' = cphase
      BY <2>1 DEF AttemptBack, TakesBack, Undone
    <2>4. CASE sound' = sound /\ cphase' = "flawed"
      BY <1>a, <1>b, <2>2, <2>4 DEF CodecInv, CodecType, OverrideInv, StepsInv
    <2>5. CASE ~tried /\ sound' = sound /\ cphase' = cphase
      <3>1. cphase = "back" => BackInv'
        BY <1>a, <1>b, <1>6, <2>2, <2>5 DEF OverrideInv, StepsInv, BackInv, ModuleInv,
           DriverInv, SetInv, Sounds
      <3> QED
        BY <1>a, <1>b, <2>2, <2>5, <3>1 DEF CodecInv, CodecType, OverrideInv, StepsInv
    <2>6. CASE tried /\ sound' = [sound EXCEPT !.module = "out"] /\ cphase' = cphase
      <3>1. sound' \in Sounds /\ sound'.module = "out"
            /\ sound'.machine = sound.machine /\ sound'.driver = sound.driver /\ sound'.override = sound.override
        BY <1>a, <2>6, WriteModule
      <3>2. OverrideInv' /\ StepsInv'
        BY <1>a, <1>b, <2>2, <2>6, <3>1 DEF OverrideInv, StepsInv
      <3>3. cphase = "back" => BackInv'
        BY <1>a, <1>b, <1>6, <2>2, <2>6, <3>1 DEF StepsInv, BackInv, ModuleInv, DriverInv, SetInv
      <3> QED
        BY <1>a, <2>2, <2>6, <3>1, <3>2, <3>3 DEF CodecInv, CodecType
    <2> QED
      BY <2>3, <2>4, <2>5, <2>6
  <1> QED
    BY <1>a, <1>1, <1>2, <1>3, <1>4, <1>5, <1>6

(* Every step of the tool keeps its inductive invariant. *)
LEMMA CodecStepKeeps == CodecInv /\ CodecNext => CodecInv'
  <1> SUFFICES ASSUME CodecInv, CodecNext PROVE CodecInv'
    OBVIOUS
  <1> USE DEF CodecInv, CodecType, OverrideInv
  <1>1. CASE BindRefused
    BY <1>1 DEF BindRefused
  <1>2. CASE BindBegins
    <2>1. sound.module \in {"in", "out"}
      BY DEF Sounds
    <2> QED
      BY <1>2, <2>1 DEF BindBegins, StepsInv, ForwardInv, ModuleInv, DriverInv, SetInv
  <1>3. CASE BindReady
    BY <1>3 DEF BindReady
  <1>4. CASE BindFails
    <2>1. /\ ModuleInv /\ DriverInv /\ SetInv /\ StepsInv
          /\ cpos' = 1 /\ sound' = sound /\ steps' = steps /\ found' = found
      BY <1>4 DEF BindFails
    <2>2. StepsInv' /\ BackInv'
      BY <2>1 DEF StepsInv, ModuleInv, DriverInv, SetInv, BackInv
    <2> QED
      BY <1>4, <2>2 DEF BindFails
  <1>5. CASE BindRolledBack
    BY <1>5 DEF BindRolledBack
  <1>6. CASE BindKilled
    BY <1>6 DEF BindKilled
  <1> QED
    BY <1>1, <1>2, <1>3, <1>4, <1>5, <1>6, BindStepKeeps, AttemptBackKeeps DEF CodecNext

(***************************************************************************)
(* The board.                                                              *)
(***************************************************************************)
(* Each part keeps its invariant through the steps of all three, and       *)
(* through a reboot in the middle of them.                                 *)
LEMMA CodecHolds == CodecInv /\ [Next]_vars => CodecInv'
  <1>1. ASSUME CodecInv, UNCHANGED codecVars PROVE CodecInv'
    BY <1>1 DEF CodecInv, CodecType, OverrideInv, StepsInv, ForwardInv, ModuleInv, DriverInv,
           SetInv, BackInv, codecVars
  <1> QED
    BY <1>1, CodecStepKeeps, CodecReboots DEF Next, vars, CodecStep, EdidStep, InputStep, Reboot

LEMMA EdidHolds == ASSUME OwnEdids PROVE EdidInv /\ [Next]_vars => EdidInv'
  <1>1. ASSUME EdidInv, UNCHANGED edidVars PROVE EdidInv'
    BY <1>1 DEF EdidInv, EdidType, BackupInv, edidVars
  <1> QED
    BY <1>1, EdidStepKeeps, EdidReboots DEF Next, vars, CodecStep, EdidStep, InputStep, Reboot

LEMMA InputHolds == InputInv /\ [Next]_vars => InputInv'
  <1>1. ASSUME InputInv, UNCHANGED inputVars PROVE InputInv'
    BY <1>1 DEF InputInv, InputType, NodesInv, inputVars
  <1> QED
    BY <1>1, InputStepKeeps, InputReboots DEF Next, vars, CodecStep, EdidStep, InputStep, Reboot

(* original.bin is the receiver's own EDID, for any number of processes    *)
(* and releases, as long as the receiver boots with a valid EDID that is   *)
(* not one of RKMoon's.                                                    *)
THEOREM BackupStaysOriginal == ASSUME OwnEdids PROVE Spec => []BackupIsOriginal
  <1>1. EdidInv => BackupIsOriginal
    BY EdidAssumption DEF EdidInv, BackupInv, BackupIsOriginal, OwnEdids
  <1>2. Init => EdidInv
    BY EdidStarts DEF Init
  <1> QED
    BY EdidHolds, <1>1, <1>2, PTL DEF Spec

(* The daemon serves the rkmoon gadget's nodes in every order of boots,    *)
(* failed starts and changes of the other gadget.                          *)
THEOREM DaemonServesOwn == Spec => []ServesOwnNodes
  <1>1. InputInv => ServesOwnNodes
    BY DEF InputInv, NodesInv, ServesOwnNodes
  <1>2. Init => InputInv
    BY InputStarts DEF Init
  <1> QED
    BY InputHolds, <1>1, <1>2, PTL DEF Spec

(* A run that reports a roll-back has put the codec back, from any state   *)
(* that earlier runs, killed or not, have left.                            *)
THEOREM CodecComesBack == Spec => CodecRestored
  <1>1. CodecInv /\ [Next]_vars =>
          [cphase = "back" /\ cphase' = "idle" /\ cresult' = "undone" =>
              sound' = [Vendor EXCEPT !.module = found]]_codecVars
    <2> SUFFICES ASSUME CodecInv, [Next]_vars, cphase = "back", cphase' = "idle",
                        cresult' = "undone"
                 PROVE sound' = [Vendor EXCEPT !.module = found]
      OBVIOUS
    <2>1. BindRolledBack
      BY DEF Next, vars, CodecStep, EdidStep, InputStep, Reboot, CodecBooted, codecVars, CodecNext,
             BindRefused, BindBegins, BindStep, BindReady, BindFails, AttemptBack, BindKilled
    <2>2. cpos = 7 /\ BackInv /\ sound' = sound /\ sound \in Sounds
      BY <2>1 DEF BindRolledBack, CodecInv, CodecType
    <2> QED
      BY <2>2 DEF BackInv, Sounds, Vendor
  <1>2. Init => CodecInv
    BY CodecStarts DEF Init
  <1> QED
    BY CodecHolds, <1>1, <1>2, PTL DEF Spec, CodecRestored
==============================================================================
