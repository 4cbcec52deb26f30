---------------------------- MODULE SourceOverlay ----------------------------
(***************************************************************************)
(* From a pinned upstream revision to a patched checkout: the fetch tools  *)
(* (fetch_sources.py, fetch_client_sources.py) and the overlay tools       *)
(* (apply_sunshine.py, apply_moonlight.py).  One checkout is modelled, for *)
(* one of the two overlays; its owner edits, resets, moves and deletes it  *)
(* between the runs of the tools, and a tool may be killed anywhere.       *)
(*                                                                         *)
(* The content of a file is the pinned text or the patched one, either of  *)
(* them with the owner's own work in it, or torn (an in-place write that   *)
(* was cut short).  The Sunshine overlay also adds a directory src/rkmoon, *)
(* its payload, with one rename after the last file; the Moonlight overlay *)
(* has none.                                                               *)
(***************************************************************************)
CONSTANTS
    Files,      \* FILES: the upstream files the overlay rewrites
    FailPoints  \* where an exception may hit the writing of an overlay

ASSUME OverlayAssumption == FailPoints \subseteq {"write", "replace", "move", "end"}

VARIABLES
    tool,      \* which overlay the checkout is for
    anchored,  \* each anchor occurs exactly once in the pinned text
    head,      \* "none" no directory, "empty" after git init, "pin", "other"
    nested,    \* the submodules are there, at their pins
    file,      \* content of each file
    left,      \* files with a <file>.rkmoon-new beside them
    payload,   \* src/rkmoon exists
    opc,       \* what the tool that runs is about to do
    todo,      \* files still to be written, or to be restored
    before,    \* content of the files when the overlay tool read them
    result     \* how the last tool ended

source == <<head, nested, file, left, payload>>
overlayVars == <<tool, anchored, head, nested, file, left, payload, opc, todo, before, result>>

(* Local work: on the pinned text, on the patched text. *)
Owned == {"mine", "tuned"}

Unwritten == [f \in Files |-> "none"]
Pinned == [f \in Files |-> "orig"]

OverlayType ==
    /\ tool \in {"sunshine", "moonlight"} /\ anchored \in BOOLEAN
    /\ head \in {"none", "empty", "pin", "other"} /\ nested \in BOOLEAN
    /\ file \in [Files -> {"none", "orig", "new", "torn"} \cup Owned]
    /\ before \in [Files -> {"none", "orig", "new", "torn"} \cup Owned]
    /\ left \subseteq Files /\ todo \subseteq Files /\ payload \in BOOLEAN
    /\ opc \in {"idle", "fetch", "write", "replace", "move", "end", "undo", "clear"}
    /\ result \in {"none", "fetched", "checked", "applied", "refused", "broken", "killed"}

OverlayInit ==
    /\ tool \in {"sunshine", "moonlight"} /\ anchored \in BOOLEAN
    /\ head = "none" /\ nested = FALSE
    /\ file = Unwritten /\ left = {} /\ payload = FALSE
    /\ opc = "idle" /\ todo = {} /\ before = Unwritten /\ result = "none"

(* git status --porcelain prints nothing. *)
Clean == file = Pinned /\ left = {} /\ ~payload

(***************************************************************************)
(* Fetching: only ever into a directory that does not exist.               *)
(***************************************************************************)
FetchStart ==
    /\ opc = "idle" /\ head = "none"
    /\ head' = "empty" /\ opc' = "fetch"
    /\ UNCHANGED <<tool, anchored, nested, file, left, payload, todo, before, result>>

FetchCheckout ==
    /\ opc = "fetch" /\ head = "empty"
    /\ head' = "pin" /\ file' = Pinned
    /\ UNCHANGED <<tool, anchored, nested, left, payload, opc, todo, before, result>>

FetchSubmodules ==
    /\ opc = "fetch" /\ head = "pin"
    /\ nested' = TRUE /\ opc' = "idle" /\ result' = "fetched"
    /\ UNCHANGED <<tool, anchored, head, file, left, payload, todo, before>>

(***************************************************************************)
(* Patching.                                                               *)
(***************************************************************************)
(* make_changes on the pinned texts: all the patched texts, or an          *)
(* exception (once, at_entry) when an anchor is not there exactly once.    *)
MakeChanges == IF anchored THEN [f \in Files |-> "new"] ELSE Unwritten

(* Mutant of Accepts: local work is not looked for. *)
AcceptsDirty(apply) ==
    /\ head = "pin" /\ MakeChanges # Unwritten
    /\ tool = "moonlight" => nested

(* The checks of main() before anything is written.  The Sunshine overlay  *)
(* takes a clean checkout of the pin.                                      *)
SunshineAccepts == head = "pin" /\ MakeChanges # Unwritten /\ Clean

(* The Moonlight overlay works from the committed texts, checks the nested *)
(* repository, and takes its own result too as long as it only looks.      *)
MoonlightAccepts(apply) ==
    /\ head = "pin" /\ MakeChanges # Unwritten /\ nested /\ left = {}
    /\ \A f \in Files : file[f] \in {"orig", MakeChanges[f]}
    /\ apply => file = Pinned

Accepts(apply) ==
    \/ tool = "sunshine" /\ SunshineAccepts
    \/ tool = "moonlight" /\ MoonlightAccepts(apply)

(* Refused, or a copy to the staging directory failed: nothing is written. *)
Refuse(apply) ==
    /\ opc = "idle"
    /\ \/ ~Accepts(apply)
       \/ apply /\ tool = "sunshine"
    /\ result' = "refused"
    /\ UNCHANGED <<tool, anchored, source, opc, todo, before>>

CheckOnly ==
    /\ opc = "idle" /\ Accepts(FALSE)
    /\ result' = "checked"
    /\ UNCHANGED <<tool, anchored, source, opc, todo, before>>

(* Mutant of Begin: the payload is moved before the files are patched. *)
BeginMovesPayload ==
    /\ opc = "idle" /\ Accepts(TRUE)
    /\ opc' = "write" /\ todo' = Files /\ before' = file
    /\ payload' = (tool = "sunshine")
    /\ UNCHANGED <<tool, anchored, head, nested, file, left, result>>

Begin ==
    /\ opc = "idle" /\ Accepts(TRUE)
    /\ opc' = "write" /\ todo' = Files /\ before' = file
    /\ UNCHANGED <<tool, anchored, source, result>>

WriteNew(f) ==
    /\ opc = "write" /\ f \in todo
    /\ left' = left \cup {f} /\ opc' = "replace"
    /\ UNCHANGED <<tool, anchored, head, nested, file, payload, todo, before, result>>

AfterReplace(rest) ==
    IF rest # {} THEN "write" ELSE IF tool = "sunshine" THEN "move" ELSE "end"

Replace(f) ==
    /\ opc = "replace" /\ f \in left
    /\ file' = [file EXCEPT ![f] = MakeChanges[f]]
    /\ left' = left \ {f} /\ todo' = todo \ {f}
    /\ opc' = AfterReplace(todo \ {f})
    /\ UNCHANGED <<tool, anchored, head, nested, payload, before, result>>

MovePayload ==
    /\ opc = "move"
    /\ payload' = TRUE /\ opc' = "end"
    /\ UNCHANGED <<tool, anchored, head, nested, file, left, todo, before, result>>

Applied ==
    /\ opc = "end"
    /\ opc' = "idle" /\ result' = "applied"
    /\ UNCHANGED <<tool, anchored, source, todo, before>>

(***************************************************************************)
(* The way back: every original is written again, in place, then the       *)
(* payload is removed.  A left .rkmoon-new is not.                         *)
(***************************************************************************)
(* Mutant of Fail: only the files not yet written are restored. *)
FailKeepsTodo ==
    /\ opc \in FailPoints
    /\ opc' = "undo"
    /\ UNCHANGED <<tool, anchored, source, todo, before, result>>

Fail ==
    /\ opc \in FailPoints
    /\ opc' = "undo" /\ todo' = Files
    /\ UNCHANGED <<tool, anchored, source, before, result>>

Undo(f) ==
    /\ opc = "undo" /\ f \in todo
    /\ file' = [file EXCEPT ![f] = before[f]]
    /\ todo' = todo \ {f}
    /\ opc' = IF todo \ {f} = {} THEN "clear" ELSE "undo"
    /\ UNCHANGED <<tool, anchored, head, nested, left, payload, before, result>>

(* rmtree(ignore_errors=True) may leave it, or some of it, in place. *)
RemovePayload ==
    /\ opc = "clear"
    /\ payload' \in {FALSE, payload} /\ opc' = "idle" /\ result' = "refused"
    /\ UNCHANGED <<tool, anchored, head, nested, file, left, todo, before>>

(* A write of the way back fails; the rest of the way back is not taken. *)
UndoFails(f) ==
    /\ opc = "undo" /\ f \in todo
    /\ file' \in {file, [file EXCEPT ![f] = "torn"]}
    /\ opc' = "idle" /\ todo' = {} /\ result' = "broken"
    /\ UNCHANGED <<tool, anchored, head, nested, left, payload, before>>

(* SIGKILL, power loss, or a failed command of the fetch tool. *)
Kill ==
    /\ opc # "idle"
    /\ \/ file' = file
       \/ opc = "undo" /\ \E f \in todo : file' = [file EXCEPT ![f] = "torn"]
    /\ opc' = "idle" /\ todo' = {} /\ result' = "killed"
    /\ UNCHANGED <<tool, anchored, head, nested, left, payload, before>>

(***************************************************************************)
(* The owner of the checkout.                                              *)
(***************************************************************************)
Edit(f) ==
    /\ opc = "idle" /\ head = "pin"
    /\ file' = [file EXCEPT ![f] = IF @ \in {"new", "tuned"} THEN "tuned" ELSE "mine"]
    /\ result' = "none"
    /\ UNCHANGED <<tool, anchored, head, nested, left, payload, opc, todo, before>>

(* git reset --hard to the pin or to another commit; what git does not     *)
(* track goes only with a git clean.                                       *)
Reset(commit) ==
    /\ opc = "idle" /\ head \in {"pin", "other"}
    /\ head' = commit /\ file' = Pinned
    /\ \/ left' = {} /\ payload' = FALSE
       \/ UNCHANGED <<left, payload>>
    /\ result' = "none"
    /\ UNCHANGED <<tool, anchored, nested, opc, todo, before>>

Delete ==
    /\ opc = "idle" /\ head # "none"
    /\ head' = "none" /\ nested' = FALSE
    /\ file' = Unwritten /\ left' = {} /\ payload' = FALSE
    /\ result' = "none"
    /\ UNCHANGED <<tool, anchored, opc, todo, before>>

OverlayNext ==
    \/ FetchStart \/ FetchCheckout \/ FetchSubmodules
    \/ \E apply \in BOOLEAN : Refuse(apply)
    \/ CheckOnly \/ Begin \/ MovePayload \/ Applied \/ Fail \/ RemovePayload \/ Kill
    \/ \E f \in Files : WriteNew(f) \/ Replace(f) \/ Undo(f) \/ UndoFails(f) \/ Edit(f)
    \/ \E commit \in {"pin", "other"} : Reset(commit)
    \/ Delete

OverlaySpec == OverlayInit /\ [][OverlayNext]_overlayVars

(***************************************************************************)
(* Correctness.                                                            *)
(***************************************************************************)
(* "never overwrite local work" (apply_sunshine.py): whatever was fetched, *)
(* patched, interrupted or killed before, no step of a tool changes a file *)
(* that its owner has edited.                                              *)
LocalWorkKept ==
    [][opc # "idle" \/ opc' # "idle" =>
          \A f \in Files : file[f] \in Owned => file'[f] = file[f]]_overlayVars

(* "Roll back source files on any write failure": an overlay that gave up  *)
(* after it had begun to write, at whatever file, and that could write the *)
(* originals again, leaves the files it found.                             *)
RefusedRestores ==
    [][opc = "clear" /\ opc' = "idle" /\ result' = "refused" => file' = before]_overlayVars
==============================================================================
