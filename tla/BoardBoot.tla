------------------------------ MODULE BoardBoot ------------------------------
(***************************************************************************)
(* What prepares the board for the server: the audio codec, the EDID and   *)
(* the USB gadget, each with its own unit, side by side.  They share the   *)
(* board: it may be rebooted whatever each is about to do.  What was       *)
(* written to a file is taken to be on the disk by then.                   *)
(***************************************************************************)
EXTENDS CodecBind, EdidApply, InputGadget

vars == <<codecVars, edidVars, inputVars>>

Init == CodecInit /\ EdidInit /\ InputInit

CodecStep == CodecNext /\ UNCHANGED <<edidVars, inputVars>>
EdidStep == EdidNext /\ UNCHANGED <<codecVars, inputVars>>
InputStep == InputNext /\ UNCHANGED <<codecVars, edidVars>>
Reboot == CodecBooted /\ EdidBooted /\ InputBooted

Next == CodecStep \/ EdidStep \/ InputStep \/ Reboot

Spec == Init /\ [][Next]_vars

(* The types of all three. *)
TypeOK == CodecType /\ EdidType /\ InputType
==============================================================================
