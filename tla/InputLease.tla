------------------------------ MODULE InputLease ------------------------------
(***************************************************************************)
(* What the HID bridge promises, without tasks, requests, streams or       *)
(* retries: an input lease that one holder has at a time, and a target     *)
(* that starts and ends every lease with nothing held down.  HidServer     *)
(* implements it (HidServer!ImplementsLease).                              *)
(*                                                                         *)
(* Residue is what the bridge's own probing of the target may leave down.  *)
(***************************************************************************)
CONSTANTS Holders, Controls, Residue

VARIABLES
    open,      \* the service grants leases and serves the one it granted
    holders,   \* who has the lease
    ending,    \* holders whose lease is over and being cleaned up
    held       \* controls the target sees held down

vars == <<open, holders, ending, held>>

(* Nothing is known of the target before the first service. *)
Init == ~open /\ holders = {} /\ ending = {} /\ held \in SUBSET Controls

Grant(c) ==
    /\ open /\ holders = {} /\ held \subseteq Residue
    /\ holders' = {c}
    /\ UNCHANGED <<open, ending, held>>

Press(k) ==
    /\ open /\ holders # {} /\ ending = {}
    /\ held' = held \cup {k}
    /\ UNCHANGED <<open, holders, ending>>

Lift(k) ==
    /\ open /\ holders # {}
    /\ held' = held \ {k}
    /\ UNCHANGED <<open, holders, ending>>

(* From here on the holder presses nothing any more. *)
End ==
    /\ open /\ ending = {}
    /\ ending' = holders
    /\ UNCHANGED <<open, holders, held>>

(* The lease is free again only when everything was let go of. *)
Return ==
    /\ open /\ holders # {}
    /\ held \subseteq Residue /\ held' \subseteq Residue
    /\ holders' = {} /\ ending' = {}
    /\ open' = open

(* The service stops or is killed, in the middle of a lease or not. *)
Shut ==
    /\ open /\ ~open'
    /\ held' = held
    /\ \/ UNCHANGED <<holders, ending>>
       \/ holders' = {} /\ ending' = {}

(* Without the service nothing is promised, not even a holder's end. *)
Unserved ==
    /\ ~open /\ ~open'
    /\ holders' \in SUBSET Holders /\ ending' \in SUBSET Holders
    /\ held' \in SUBSET Controls

(* Service begins with a target that holds nothing at all. *)
Open ==
    /\ ~open /\ open'
    /\ holders' = {} /\ ending' = {} /\ held' = {}

Next ==
    \/ \E c \in Holders : Grant(c)
    \/ \E k \in Controls : Press(k) \/ Lift(k)
    \/ End \/ Return \/ Shut \/ Unserved \/ Open

Spec == Init /\ [][Next]_vars
==============================================================================
