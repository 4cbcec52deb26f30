------------------------------ MODULE CodecBind ------------------------------
(***************************************************************************)
(* hdmirx_audio_bind.py: moving the HDMI-RX audio codec from the vendor's  *)
(* driver to rkmoon_hdmirx_codec through sysfs, and the way back after a   *)
(* failure.  A sysfs write may fail without effect; the tool may be killed *)
(* at any point and be run again.                                          *)
(***************************************************************************)
EXTENDS Integers

VARIABLES
    sound,    \* what the kernel has bound, see Vendor
    cphase,   \* "idle", "forward", "back", or "flawed": on the way back after
              \* a write failed that the kernel should have taken
    cpos,     \* the next entry of Forward or Back
    steps,    \* steps: what has been done and is to be undone
    found,    \* the kernel module, when the tool began: "in" or "out"
    cresult   \* how the last run ended

codecVars == <<sound, cphase, cpos, steps, found, cresult>>

(* After a boot: the sound card is bound, on the vendor's codec driver. *)
Vendor == [machine |-> "bound", driver |-> "old", override |-> "clear", module |-> "out"]

Forward == <<"machine", "module", "codec", "override", "bind", "card">>

(* Mutant of Back: the codec is given back before its override is cleared. *)
BackCodecFirst == <<"machine", "bind", "codec", "override", "card", "module">>

(* The way back: each entry when its step was taken, the card always. *)
Back == <<"machine", "bind", "override", "codec", "card", "module">>

Sounds == [machine : {"bound", "free"}, driver : {"old", "new", "none"},
           override : {"set", "clear"}, module : {"in", "out"}]
StepNames == {"machine", "module", "codec", "override", "bind", "card"}

CodecType ==
    /\ sound \in Sounds
    /\ cphase \in {"idle", "forward", "back", "flawed"} /\ cpos \in 1 .. 7
    /\ steps \subseteq StepNames
    /\ found \in {"in", "out"}
    /\ cresult \in {"none", "ready", "refused", "undone", "killed"}

CodecInit ==
    /\ sound = Vendor
    /\ cphase = "idle" /\ cpos = 1 /\ steps = {} /\ found = "out"
    /\ cresult = "none"

(***************************************************************************)
(* The kernel's side of the writes: when it takes one, and what it does.   *)
(* A device is bound by a driver only when it has none, by the overriding  *)
(* driver if there is one; the card needs a codec; a module in use stays.  *)
(***************************************************************************)
Takes(s, op) ==
    CASE op = "machine" -> s.machine = "bound"
      [] op = "module" -> s.module = "out"
      [] op = "codec" -> s.driver = "old"
      [] op = "override" -> TRUE
      [] op = "bind" -> s.driver = "none" /\ s.override = "set" /\ s.module = "in"
      [] op = "card" -> s.machine = "free" /\ s.driver # "none"

Done(s, op) ==
    CASE op = "machine" -> [s EXCEPT !.machine = "free"]
      [] op = "module" -> [s EXCEPT !.module = "in"]
      [] op = "codec" -> [s EXCEPT !.driver = "none"]
      [] op = "override" -> [s EXCEPT !.override = "set"]
      [] op = "bind" -> [s EXCEPT !.driver = "new"]
      [] op = "card" -> [s EXCEPT !.machine = "bound"]

TakesBack(s, op) ==
    CASE op = "machine" -> s.machine = "bound"
      [] op = "bind" -> s.driver = "new"
      [] op = "override" -> TRUE
      [] op = "codec" -> s.driver = "none" /\ s.override = "clear"
      [] op = "card" -> s.machine = "free" /\ s.driver # "none"
      [] op = "module" -> s.module = "in" /\ s.driver # "new"

Undone(s, op) ==
    CASE op = "machine" -> [s EXCEPT !.machine = "free"]
      [] op = "bind" -> [s EXCEPT !.driver = "none"]
      [] op = "override" -> [s EXCEPT !.override = "clear"]
      [] op = "codec" -> [s EXCEPT !.driver = "old"]
      [] op = "card" -> [s EXCEPT !.machine = "bound"]
      [] op = "module" -> [s EXCEPT !.module = "out"]

(***************************************************************************)
(* The tool.                                                               *)
(***************************************************************************)
(* Another kernel, codec or module file, or a codec that is not on the     *)
(* vendor's driver: with the new one and its PCM this is success.          *)
BindRefused ==
    /\ cphase = "idle"
    /\ \/ cresult' = "refused"
       \/ sound.driver = "new" /\ sound.machine = "bound" /\ cresult' = "ready"
    /\ UNCHANGED <<sound, cphase, cpos, steps, found>>

BindBegins ==
    /\ cphase = "idle" /\ sound.driver = "old"
    /\ cphase' = "forward" /\ cpos' = 1 /\ steps' = {}
    /\ found' = sound.module
    /\ UNCHANGED <<sound, cresult>>

BindStep ==
    /\ cphase = "forward" /\ cpos <= 6
    /\ LET op == Forward[cpos] IN
        \/ op = "module" /\ sound.module = "in" /\ UNCHANGED <<sound, steps>>
        \/ /\ Takes(sound, op)
           /\ sound' = Done(sound, op) /\ steps' = steps \cup {op}
    /\ cpos' = cpos + 1
    /\ UNCHANGED <<cphase, found, cresult>>

BindReady ==
    /\ cphase = "forward" /\ cpos = 7
    /\ cphase' = "idle" /\ cresult' = "ready"
    /\ UNCHANGED <<sound, cpos, steps, found>>

(* A write or insmod failed, or no capture PCM has appeared. *)
BindFails ==
    /\ cphase = "forward"
    /\ cphase' = "back" /\ cpos' = 1
    /\ UNCHANGED <<sound, steps, found, cresult>>

(* A write the kernel refuses is passed over, as is one that fails though  *)
(* the kernel should have taken it.                                        *)
AttemptBack ==
    /\ cphase \in {"back", "flawed"} /\ cpos <= 6
    /\ LET op == Back[cpos]
           tried == op \in steps \cup {"card"} /\ TakesBack(sound, op)
       IN  \/ tried /\ sound' = Undone(sound, op) /\ cphase' = cphase
           \/ tried /\ sound' = sound /\ cphase' = "flawed"
           \/ ~tried /\ UNCHANGED <<sound, cphase>>
    /\ cpos' = cpos + 1
    /\ UNCHANGED <<steps, found, cresult>>

BindRolledBack ==
    /\ cphase \in {"back", "flawed"} /\ cpos = 7
    /\ cphase' = "idle" /\ cresult' = "undone"
    /\ UNCHANGED <<sound, cpos, steps, found>>

BindKilled ==
    /\ cphase # "idle"
    /\ cphase' = "idle" /\ cresult' = "killed"
    /\ UNCHANGED <<sound, cpos, steps, found>>

CodecNext ==
    \/ BindRefused \/ BindBegins \/ BindStep \/ BindReady \/ BindFails
    \/ AttemptBack \/ BindRolledBack \/ BindKilled

CodecBooted ==
    /\ sound' = Vendor
    /\ cphase' = "idle" /\ cpos' = 1 /\ steps' = {} /\ found' = "out"
    /\ cresult' = "none"

(* "rolls back on any failure": however far a run got, and whatever a run  *)
(* killed earlier has left, a run that reports a roll-back leaves the card *)
(* on the vendor's codec driver, no override, and the kernel module loaded *)
(* only if it found it loaded, unless a write of the way back failed.      *)
CodecRestored ==
    [][cphase = "back" /\ cphase' = "idle" /\ cresult' = "undone" =>
          sound' = [Vendor EXCEPT !.module = found]]_codecVars
==============================================================================
