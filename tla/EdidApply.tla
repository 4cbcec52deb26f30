------------------------------ MODULE EdidApply ------------------------------
(***************************************************************************)
(* edid_apply.py: the receiver's EDID is replaced by the active release's  *)
(* and the one found first is kept in a backup.  The receiver forgets its  *)
(* EDID at every boot.  The boot unit and an operator may run the tool at  *)
(* the same time, from different releases.                                 *)
(***************************************************************************)
CONSTANTS
    Appliers,   \* processes that run edid_apply.py apply
    Ours,       \* the EDIDs of the releases, all valid
    BootEdids   \* what the receiver may hold after a boot

ASSUME EdidAssumption == {"none", "torn", "invalid"} \cap (Ours \cup (BootEdids \ {"invalid"})) = {}

VARIABLES
    edid,     \* the receiver's EDID
    backup,   \* the backup file: "none", "torn" or an EDID
    epc,      \* what each process is about to do
    seen,     \* current, as each process read it
    wanted    \* wanted, likewise

edidVars == <<edid, backup, epc, seen, wanted>>

EdidType ==
    /\ edid \in Ours \cup BootEdids
    /\ backup \in {"none", "torn"} \cup Ours \cup BootEdids
    /\ epc \in [Appliers -> {"idle", "look", "create", "fill", "set", "verify"}]
    /\ seen \in [Appliers -> {"none"} \cup Ours \cup BootEdids]
    /\ wanted \in [Appliers -> {"none"} \cup Ours]

EdidInit ==
    /\ edid \in BootEdids /\ backup = "none"
    /\ epc = [p \in Appliers |-> "idle"]
    /\ seen = [p \in Appliers |-> "none"] /\ wanted = [p \in Appliers |-> "none"]

(* G_EDID and the release's file; an EDID that is in place is left alone. *)
ReadEdid(p, e) ==
    /\ epc[p] = "idle"
    /\ epc' = [epc EXCEPT ![p] = IF edid = e THEN "idle" ELSE "look"]
    /\ seen' = [seen EXCEPT ![p] = edid] /\ wanted' = [wanted EXCEPT ![p] = e]
    /\ UNCHANGED <<edid, backup>>

(* Mutant of LookForBackup: the backup is made after the EDID is set. *)
LookForBackupLate(p) ==
    /\ epc[p] = "look"
    /\ edid' = wanted[p]
    /\ epc' = [epc EXCEPT ![p] =
                  IF backup = "none" /\ seen[p] # "invalid" THEN "create" ELSE "verify"]
    /\ UNCHANGED <<backup, seen, wanted>>

(* The test that a backup is to be made, and later the exclusive open. *)
LookForBackup(p) ==
    /\ epc[p] = "look"
    /\ epc' = [epc EXCEPT ![p] =
                  IF backup = "none" /\ seen[p] # "invalid" THEN "create" ELSE "set"]
    /\ UNCHANGED <<edid, backup, seen, wanted>>

CreateBackup(p) ==
    /\ epc[p] = "create" /\ backup = "none"
    /\ backup' = "torn" /\ epc' = [epc EXCEPT ![p] = "fill"]
    /\ UNCHANGED <<edid, seen, wanted>>

FillBackup(p) ==
    /\ epc[p] = "fill"
    /\ backup' = seen[p] /\ epc' = [epc EXCEPT ![p] = "set"]
    /\ UNCHANGED <<edid, seen, wanted>>

SetEdid(p) ==
    /\ epc[p] = "set"
    /\ edid' = wanted[p] /\ epc' = [epc EXCEPT ![p] = "verify"]
    /\ UNCHANGED <<backup, seen, wanted>>

(* Success or "EDID readback mismatch". *)
VerifyEdid(p) ==
    /\ epc[p] = "verify"
    /\ epc' = [epc EXCEPT ![p] = "idle"]
    /\ UNCHANGED <<edid, backup, seen, wanted>>

(* Killed, a failed write or ioctl, or a backup made by another process    *)
(* since this one looked for it.                                           *)
EdidFails(p) ==
    /\ epc[p] # "idle"
    /\ epc' = [epc EXCEPT ![p] = "idle"]
    /\ UNCHANGED <<edid, backup, seen, wanted>>

EdidNext ==
    \E p \in Appliers :
        \/ \E e \in Ours : ReadEdid(p, e)
        \/ LookForBackup(p) \/ CreateBackup(p) \/ FillBackup(p)
        \/ SetEdid(p) \/ VerifyEdid(p) \/ EdidFails(p)

EdidBooted ==
    /\ edid' \in BootEdids /\ backup' = backup
    /\ epc' = [p \in Appliers |-> "idle"]
    /\ seen' = [p \in Appliers |-> "none"] /\ wanted' = [p \in Appliers |-> "none"]

(* original.bin is the receiver's own EDID: no order of runs of two        *)
(* releases, kills and boots puts an EDID of RKMoon there, and once one of *)
(* them is in the receiver the backup has been created.                    *)
BackupIsOriginal ==
    /\ backup \notin Ours
    /\ edid \in Ours => backup # "none"
==============================================================================
