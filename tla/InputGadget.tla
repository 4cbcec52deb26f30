----------------------------- MODULE InputGadget -----------------------------
(***************************************************************************)
(* The USB input backend: install_input.py, the gadget unit that runs      *)
(* input_runtime.py start and stop, and the daemon that serves the HID     *)
(* nodes its configuration names.  Another gadget (an earlier KVM) may be  *)
(* there, bound to the UDC or not, and holds HID minors while it is.       *)
(* The minors are one of two groups: whoever is created first gets "low".  *)
(***************************************************************************)
VARIABLES
    setup,     \* how far install_input.py has come
    nodes,     \* the HID nodes main.yaml names; "none" no file, "torn"
    foreign,   \* the minors of the other gadget, "none" if there is none
    bound,     \* the other gadget has the UDC
    own,       \* the minors of the rkmoon gadget, "none" if there is none
    whole,     \* the rkmoon gadget is complete and has the UDC
    gunit,     \* rkmoon-gadget.service: "inactive", "active", "failed"
    gpc,       \* what input_runtime.py start is about to do
    daemon     \* the nodes rkmoon-input serves, "none" when it is not running

inputVars == <<setup, nodes, foreign, bound, own, whole, gunit, gpc, daemon>>
other == <<foreign, bound>>

Minors == {"none", "low", "high"}

InputType ==
    /\ setup \in {"none", "files", "config", "done"}
    /\ nodes \in {"none", "torn", "low", "high"}
    /\ foreign \in Minors /\ own \in Minors /\ daemon \in Minors
    /\ bound \in BOOLEAN /\ whole \in BOOLEAN
    /\ gunit \in {"inactive", "active", "failed"}
    /\ gpc \in {"idle", "create", "resolve", "rewrite", "written"}

InputInit ==
    /\ setup = "none" /\ nodes = "none"
    /\ foreign \in {"none", "low"} /\ bound = FALSE
    /\ own = "none" /\ whole = FALSE
    /\ gunit = "inactive" /\ gpc = "idle" /\ daemon = "none"

(***************************************************************************)
(* install_input.py.  A run that ends early goes no further and blocks     *)
(* later ones until the operator removes what it left.                     *)
(***************************************************************************)
(* The source is prepared (pinned, idempotent) and copied; the venv made. *)
InstallFiles ==
    /\ setup = "none"
    /\ setup' = "files"
    /\ UNCHANGED <<nodes, other, own, whole, gunit, gpc, daemon>>

(* write_config names the default nodes. *)
InstallConfig ==
    /\ setup = "files" /\ nodes = "none"
    /\ \/ nodes' = "low" /\ setup' = "config"
       \/ nodes' = "torn" /\ setup' = setup
    /\ UNCHANGED <<other, own, whole, gunit, gpc, daemon>>

(* Accounts, the configuration check, then the units. *)
InstallInputUnits ==
    /\ setup = "config"
    /\ setup' = "done"
    /\ UNCHANGED <<nodes, other, own, whole, gunit, gpc, daemon>>

RemoveInstallation ==
    /\ setup # "none" /\ own = "none" /\ gunit # "active" /\ gpc = "idle"
    /\ setup' = "none" /\ nodes' = "none"
    /\ UNCHANGED <<other, own, whole, gunit, gpc, daemon>>

(***************************************************************************)
(* The gadget.                                                             *)
(***************************************************************************)
Readable == nodes \in {"low", "high"}

(* Refused: no readable configuration, the UDC is another gadget's, or an  *)
(* rkmoon gadget exists.                                                   *)
StartGadget ==
    /\ setup = "done" /\ gunit # "active" /\ gpc = "idle"
    /\ IF Readable /\ ~bound /\ own = "none"
         THEN gpc' = "create" /\ gunit' = gunit
         ELSE gpc' = gpc /\ gunit' = "failed"
    /\ UNCHANGED <<setup, nodes, other, own, whole, daemon>>

(* kvmd.apps.otg start: the minors are given when the functions are made,  *)
(* the UDC is taken last; it stops where it fails.                         *)
CreateGadget ==
    /\ gpc = "create"
    /\ own' = IF foreign = "low" THEN "high" ELSE "low"
    /\ \/ ~bound /\ whole' = TRUE /\ gpc' = "resolve" /\ gunit' = gunit
       \/ whole' = FALSE /\ gpc' = "idle" /\ gunit' = "failed"
    /\ UNCHANGED <<setup, nodes, other, daemon>>

(* The minors are read back and the nodes given to the daemon's group. *)
ResolveNodes ==
    /\ gpc = "resolve"
    /\ \/ gpc' = "rewrite" /\ gunit' = gunit
       \/ gpc' = "idle" /\ gunit' = "failed"
    /\ UNCHANGED <<setup, nodes, other, own, whole, daemon>>

(* Mutant of RewriteConfig: the configured nodes are taken as they are. *)
RewriteConfigNot ==
    /\ gpc = "rewrite"
    /\ gpc' = "idle" /\ gunit' = "active"
    /\ UNCHANGED <<setup, nodes, other, own, whole, daemon>>

(* write_text truncates the file before it fills it. *)
RewriteConfig ==
    /\ gpc = "rewrite"
    /\ nodes' = "torn" /\ gpc' = "written"
    /\ UNCHANGED <<setup, other, own, whole, gunit, daemon>>

ConfigRewritten ==
    /\ gpc = "written"
    /\ nodes' = own /\ gpc' = "idle" /\ gunit' = "active"
    /\ UNCHANGED <<setup, other, own, whole, daemon>>

(* Killed, or 30 s are over. *)
StartKilled ==
    /\ gpc # "idle"
    /\ gpc' = "idle" /\ gunit' = "failed"
    /\ UNCHANGED <<setup, nodes, other, own, whole, daemon>>

(* systemctl stop: the daemon requires the gadget and is stopped first.    *)
(* kvmd.apps.otg stop gives the UDC back and then removes the gadget; it   *)
(* stops where it fails.                                                   *)
StopGadget ==
    /\ gunit = "active"
    /\ daemon' = "none"
    /\ \/ own' = "none" /\ whole' = FALSE /\ gunit' = "inactive"
       \/ own' = own /\ whole' \in {whole, FALSE} /\ gunit' = "failed"
    /\ UNCHANGED <<setup, nodes, other, gpc>>

(* input_runtime.py stop by hand, after a start that failed: a gadget that *)
(* never got its serial number, or a torn configuration, is refused.       *)
StopByHand ==
    /\ gunit # "active" /\ gpc = "idle" /\ own # "none" /\ Readable
    /\ own' \in {"none", own} /\ whole' = FALSE
    /\ UNCHANGED <<setup, nodes, other, gunit, gpc, daemon>>

(***************************************************************************)
(* The daemon, and the other gadget.                                       *)
(***************************************************************************)
Serve ==
    /\ gunit = "active" /\ daemon = "none" /\ Readable
    /\ daemon' = nodes
    /\ UNCHANGED <<setup, nodes, other, own, whole, gunit, gpc>>

DaemonEnds ==
    /\ daemon # "none"
    /\ daemon' = "none"
    /\ UNCHANGED <<setup, nodes, other, own, whole, gunit, gpc>>

ForeignCreate ==
    /\ foreign = "none"
    /\ foreign' = IF own = "low" THEN "high" ELSE "low"
    /\ UNCHANGED <<setup, nodes, bound, own, whole, gunit, gpc, daemon>>

ForeignBind ==
    /\ foreign # "none" /\ ~bound /\ ~whole
    /\ bound' = TRUE
    /\ UNCHANGED <<setup, nodes, foreign, own, whole, gunit, gpc, daemon>>

ForeignUnbind ==
    /\ bound
    /\ bound' = FALSE
    /\ UNCHANGED <<setup, nodes, foreign, own, whole, gunit, gpc, daemon>>

ForeignRemove ==
    /\ foreign # "none" /\ ~bound
    /\ foreign' = "none"
    /\ UNCHANGED <<setup, nodes, bound, own, whole, gunit, gpc, daemon>>

InputNext ==
    \/ InstallFiles \/ InstallConfig \/ InstallInputUnits \/ RemoveInstallation
    \/ StartGadget \/ CreateGadget \/ ResolveNodes \/ RewriteConfig \/ ConfigRewritten
    \/ StartKilled \/ StopGadget \/ StopByHand \/ Serve \/ DaemonEnds
    \/ ForeignCreate \/ ForeignBind \/ ForeignUnbind \/ ForeignRemove

InputBooted ==
    /\ foreign' = "none" /\ bound' = FALSE /\ own' = "none" /\ whole' = FALSE
    /\ gunit' = "inactive" /\ gpc' = "idle" /\ daemon' = "none"
    /\ UNCHANGED <<setup, nodes>>

(* The daemon's keyboard and mice are the rkmoon gadget's, never the other *)
(* gadget's, in any order of boots, failed starts, restarts and changes of *)
(* the other gadget (which shift the minors).                              *)
ServesOwnNodes == daemon # "none" => whole /\ daemon = own
==============================================================================
