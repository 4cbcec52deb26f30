----------------------------- MODULE Supervisor -----------------------------
(***************************************************************************)
(* The supervisor (tools/run.py), its two children, the ExecStopPost       *)
(* recovery (tools/systemd_release.py), the operator's run.py start, stop  *)
(* and release-all, and the systemd unit that runs it (rkmoon.service).    *)
(*                                                                         *)
(* What outlives a process is on disk: the lock (an flock, gone with its   *)
(* holder), the recovery marker, control.json and the bridge's socket      *)
(* file.  A process may be killed between any two steps.  The bridge is    *)
(* reduced to what module HidServer shows of it: it sweeps the target      *)
(* before it grants a lease and tries to release at its end.  Input is     *)
(* enabled; without it there is no bridge and the recovery does nothing.   *)
(*                                                                         *)
(* systemd is external: it SIGTERMs the unit's control group, and runs     *)
(* ExecStopPost when the group is empty.                                   *)
(***************************************************************************)
EXTENDS Naturals, FiniteSets

CONSTANTS
    Units,        \* runs of run.py start by the unit, each with its own start time
    Hands,        \* runs of run.py start by an operator
    Pids,         \* process ids, reused
    Linger        \* children outlive a killed supervisor for a while (the lock
                  \* does not), instead of ending before anyone else acts

ASSUME SupervisorAssumption ==
    /\ Units \cap Hands = {}
    /\ {"none", "post", "hand", "other"} \cap (Units \cup Hands) = {}
    /\ "none" \notin Pids
    /\ Linger \in BOOLEAN

Starts == Units \cup Hands
Releasers == {"post", "hand"}   \* ExecStopPost, run.py release-all

VARIABLES
    pc,        \* each supervisor
    pid,       \* its process id
    stopping,  \* its stopping flag
    failed,    \* it will exit with a code other than 0
    hid, sun,  \* its children: "none", "boot", "run", "stop" (SIGTERM seen), "gone"
    swept,     \* its bridge has neutralized the target and grants leases
    rpc,       \* the releasers: "idle", "release", "unmark"
    unit,      \* "inactive", "active", "post"
    main,      \* the unit's main process
    lock,      \* supervisor.lock
    marker,    \* hid-recovery-needed.json exists
    record,    \* control.json: the process id and start time of a supervisor
    sock,      \* hid.sock: whose bridge made the file
    dirty,     \* the target holds a key or button that a lease pressed
    others,    \* process ids that unrelated processes have
    stopper,   \* run.py stop: what it has read and opened
    strayed    \* history: it signalled a process that is no supervisor

children == <<hid, sun, swept, sock, dirty>>
operator == <<others, stopper, strayed>>
files == <<lock, marker, record>>
vars == <<pc, pid, stopping, failed, hid, sun, swept, rpc, unit, main, lock, marker,
          record, sock, dirty, others, stopper, strayed>>

Cleaning == {"stopsun", "stophid", "release", "unmark", "finish", "return"}
Running == {"preflight", "probe", "mark", "wait", "serve"} \cup Cleaning
Alive(s) == pc[s] \in Running \cup {"lock"}
Live == {"boot", "run", "stop"}
Records == [pid : Pids \cup {"none"}, start : Starts \cup {"none"}]
NoRecord == [pid |-> "none", start |-> "none"]
NoStop == [step |-> "idle", rec |-> NoRecord, target |-> "none"]

TypeOK ==
    /\ pc \in [Starts -> Running \cup {"idle", "lock", "end"}]
    /\ pid \in [Starts -> Pids \cup {"none"}]
    /\ stopping \in [Starts -> BOOLEAN] /\ failed \in [Starts -> BOOLEAN]
    /\ hid \in [Starts -> Live \cup {"none", "gone"}]
    /\ sun \in [Starts -> {"none", "run", "stop", "gone"}]
    /\ swept \in [Starts -> BOOLEAN]
    /\ rpc \in [Releasers -> {"idle", "release", "unmark"}]
    /\ unit \in {"inactive", "active", "post"} /\ main \in Units \cup {"none"}
    /\ lock \in Starts \cup Releasers \cup {"none"}
    /\ marker \in BOOLEAN /\ dirty \in BOOLEAN /\ strayed \in BOOLEAN
    /\ record \in Records /\ sock \in Starts \cup {"none"}
    /\ others \in SUBSET Pids
    /\ stopper \in [step : {"idle", "read", "open", "send"}, rec : Records,
                    target : Starts \cup {"none", "other"}]

Init ==
    /\ pc = [s \in Starts |-> "idle"] /\ pid = [s \in Starts |-> "none"]
    /\ stopping = [s \in Starts |-> FALSE] /\ failed = [s \in Starts |-> FALSE]
    /\ hid = [s \in Starts |-> "none"] /\ sun = [s \in Starts |-> "none"]
    /\ swept = [s \in Starts |-> FALSE]
    /\ rpc = [r \in Releasers |-> "idle"]
    /\ unit = "inactive" /\ main = "none"
    /\ lock = "none" /\ marker = FALSE /\ record = NoRecord /\ sock = "none"
    /\ dirty = FALSE /\ others = {} /\ stopper = NoStop /\ strayed = FALSE

(***************************************************************************)
(* The supervisor.                                                         *)
(***************************************************************************)
Goto(s, l) == pc' = [pc EXCEPT ![s] = l]

(* The process ends; the lock goes with its file descriptor.               *)
Exits(s) ==
    /\ Goto(s, "end") /\ pid' = [pid EXCEPT ![s] = "none"]
    /\ stopping' = [stopping EXCEPT ![s] = FALSE] /\ failed' = [failed EXCEPT ![s] = FALSE]
    /\ lock' = IF lock = s THEN "none" ELSE lock

(* main(): take the lock or refuse.                                        *)
Lock(s) ==
    /\ pc[s] = "lock"
    /\ IF lock = "none"
         THEN lock' = s /\ Goto(s, "preflight") /\ UNCHANGED <<pid, stopping, failed>>
         ELSE Exits(s)
    /\ UNCHANGED <<children, rpc, unit, main, marker, record, operator>>

(* check_ports(): no Sunshine runs. *)
PortsFree == \A s \in Starts : sun[s] \in {"none", "gone"}

(* Mutant of Preflight: a control.json that exists is kept. *)
PreflightKeeps(s) ==
    /\ pc[s] = "preflight" /\ PortsFree /\ Goto(s, "probe")
    /\ record' = IF record = NoRecord THEN [pid |-> pid[s], start |-> s] ELSE record
    /\ UNCHANGED <<pid, stopping, failed, children, rpc, unit, main, lock, marker, operator>>

(* Permissions, executables, default files and ports are in order and      *)
(* control.json is written, or the start is refused.                       *)
Preflight(s) ==
    /\ pc[s] = "preflight"
    /\ \/ /\ PortsFree
          /\ record' = [pid |-> pid[s], start |-> s] /\ Goto(s, "probe")
          /\ UNCHANGED <<pid, stopping, failed, lock>>
       \/ Exits(s) /\ record' = record
    /\ UNCHANGED <<children, rpc, unit, main, marker, operator>>

Listening == sock # "none" /\ hid[sock] = "run"

(* stale_socket(): a socket nobody listens on is unlinked, one that a      *)
(* bridge listens on is left; then the bridge is spawned.                  *)
Probe(s) ==
    /\ pc[s] = "probe"
    /\ \/ /\ ~Listening
          /\ sock' = "none" /\ hid' = [hid EXCEPT ![s] = "boot"]
          /\ Goto(s, "mark") /\ failed' = failed
       \/ /\ Goto(s, "finish") /\ failed' = [failed EXCEPT ![s] = TRUE]
          /\ UNCHANGED <<sock, hid>>
    /\ UNCHANGED <<pid, stopping, sun, swept, dirty, rpc, unit, main, files, operator>>

(* Mutant of Mark: the marker is left to the cleanup. *)
MarkLate(s) ==
    /\ pc[s] = "mark" /\ Goto(s, "wait")
    /\ UNCHANGED <<pid, stopping, failed, children, rpc, unit, main, files, operator>>

(* The marker is written after the bridge is spawned; the write may fail.  *)
Mark(s) ==
    /\ pc[s] = "mark"
    /\ \/ marker' = TRUE /\ Goto(s, "wait") /\ failed' = failed
       \/ Goto(s, "stopsun") /\ failed' = [failed EXCEPT ![s] = TRUE] /\ marker' = marker
    /\ UNCHANGED <<pid, stopping, children, rpc, unit, main, lock, record, operator>>

(* The socket file appears, and Sunshine is started; or the bridge died, a *)
(* stop was asked for, or 65 s have passed.                                *)
AwaitSocket(s) ==
    /\ pc[s] = "wait"
    /\ \/ /\ sock # "none"
          /\ sun' = [sun EXCEPT ![s] = "run"] /\ Goto(s, "serve") /\ failed' = failed
       \/ /\ sock = "none"
          /\ Goto(s, "stopsun") /\ failed' = [failed EXCEPT ![s] = TRUE] /\ sun' = sun
    /\ UNCHANGED <<pid, stopping, hid, swept, sock, dirty, rpc, unit, main, files, operator>>

(* Poll the children every 100 ms until one is gone or a stop is asked for.*)
Watch(s) ==
    /\ pc[s] = "serve"
    /\ stopping[s] \/ hid[s] = "gone" \/ sun[s] = "gone"
    /\ failed' = [failed EXCEPT ![s] = ~stopping[s]]
    /\ Goto(s, "stopsun")
    /\ UNCHANGED <<pid, stopping, children, rpc, unit, main, files, operator>>

(* What SIGTERM does to a child.  Until it listens, the bridge has no      *)
(* handler and just dies.                                                  *)
Term(h) == IF h = "boot" THEN "gone" ELSE IF h = "run" THEN "stop" ELSE h

(* terminate(), wait(4), kill(): Sunshine first, then the bridge.          *)
TermSun(s) ==
    /\ pc[s] = "stopsun" /\ sun[s] = "run"
    /\ sun' = [sun EXCEPT ![s] = "stop"]
    /\ UNCHANGED <<pc, pid, stopping, failed, hid, swept, sock, dirty, rpc, unit, main,
                   files, operator>>

ReapSun(s) ==
    /\ pc[s] = "stopsun" /\ sun[s] # "run"
    /\ sun' = [sun EXCEPT ![s] = IF @ = "stop" THEN "gone" ELSE @]
    /\ Goto(s, "stophid")
    /\ UNCHANGED <<pid, stopping, failed, hid, swept, sock, dirty, rpc, unit, main,
                   files, operator>>

TermHid(s) ==
    /\ pc[s] = "stophid" /\ hid[s] \in {"boot", "run"}
    /\ hid' = [hid EXCEPT ![s] = Term(@)]
    /\ UNCHANGED <<pc, pid, stopping, failed, sun, swept, sock, dirty, rpc, unit, main,
                   files, operator>>

(* Mutant of ReapHid: wait() without the timeout and the kill. *)
AwaitHid(s) ==
    /\ pc[s] = "stophid" /\ hid[s] = "gone"
    /\ Goto(s, "release")
    /\ UNCHANGED <<pid, stopping, failed, children, rpc, unit, main, files, operator>>

ReapHid(s) ==
    /\ pc[s] = "stophid" /\ hid[s] \notin {"boot", "run"}
    /\ hid' = [hid EXCEPT ![s] = "gone"]
    /\ Goto(s, "release")
    /\ UNCHANGED <<pid, stopping, failed, sun, swept, sock, dirty, rpc, unit, main,
                   files, operator>>

(* Mutant of Release: a release that fails is not reported. *)
ReleaseSilently(s) ==
    /\ pc[s] = "release" /\ Goto(s, "unmark")
    /\ dirty' \in {FALSE, dirty}
    /\ UNCHANGED <<pid, stopping, failed, hid, sun, swept, sock, rpc, unit, main, files, operator>>

(* The independent release-all: confirmed, or failed or timed out.         *)
Release(s) ==
    /\ pc[s] = "release"
    /\ \/ dirty' = FALSE /\ Goto(s, "unmark") /\ failed' = failed
       \/ /\ dirty' \in {FALSE, dirty} /\ Goto(s, "finish")
          /\ failed' = [failed EXCEPT ![s] = TRUE]
    /\ UNCHANGED <<pid, stopping, hid, sun, swept, sock, rpc, unit, main, files, operator>>

Unmark(s) ==
    /\ pc[s] = "unmark"
    /\ marker' = FALSE /\ Goto(s, "finish")
    /\ UNCHANGED <<pid, stopping, failed, children, rpc, unit, main, lock, record, operator>>

(* control.json is unlinked, then the lock is closed with the process.     *)
Finish(s) ==
    /\ pc[s] = "finish"
    /\ record' = NoRecord /\ Goto(s, "return")
    /\ UNCHANGED <<pid, stopping, failed, children, rpc, unit, main, lock, marker, operator>>

(* An OSError in the finally: release-all cannot be started, or a file is  *)
(* not unlinked.  What follows is skipped, control.json included.          *)
Escape(s) ==
    /\ pc[s] \in {"release", "unmark", "finish"}
    /\ failed' = [failed EXCEPT ![s] = TRUE] /\ Goto(s, "return")
    /\ UNCHANGED <<pid, stopping, children, rpc, unit, main, files, operator>>

Return(s) ==
    /\ pc[s] = "return"
    /\ Exits(s)
    /\ UNCHANGED <<children, rpc, unit, main, marker, record, operator>>

Orphaned(h) == IF Linger \/ h = "none" THEN Term(h) ELSE "gone"

(* SIGKILL, or SIGTERM before the handlers are installed: the children get *)
(* SIGTERM (child_exec's PDEATHSIG).                                       *)
Die(s) ==
    /\ Alive(s)
    /\ Exits(s)
    /\ hid' = [hid EXCEPT ![s] = Orphaned(@)] /\ sun' = [sun EXCEPT ![s] = Orphaned(@)]
    /\ UNCHANGED <<swept, sock, dirty, rpc, unit, main, marker, record, operator>>

SupervisorStep(s) ==
    \/ Lock(s) \/ Preflight(s) \/ Probe(s) \/ Mark(s) \/ AwaitSocket(s) \/ Watch(s)
    \/ TermSun(s) \/ ReapSun(s) \/ TermHid(s) \/ ReapHid(s) \/ Release(s) \/ Unmark(s)
    \/ Finish(s) \/ Escape(s) \/ Return(s)

(***************************************************************************)
(* The children.                                                           *)
(***************************************************************************)
(* The bridge comes up: it neutralizes the target, or will go on trying    *)
(* and refuse leases; then it listens, unless the path exists.             *)
BridgeUp(s) ==
    /\ hid[s] = "boot"
    /\ \/ dirty' = FALSE /\ swept' = [swept EXCEPT ![s] = TRUE]
       \/ dirty' \in {FALSE, dirty} /\ swept' = swept
    /\ IF sock = "none"
         THEN sock' = s /\ hid' = [hid EXCEPT ![s] = "run"]
         ELSE sock' = sock /\ hid' = [hid EXCEPT ![s] = "gone"]
    /\ UNCHANGED <<pc, pid, stopping, failed, sun, rpc, unit, main, files, operator>>

BridgeRecovers(s) ==
    /\ hid[s] = "run" /\ ~swept[s]
    /\ dirty' = FALSE /\ swept' = [swept EXCEPT ![s] = TRUE]
    /\ UNCHANGED <<pc, pid, stopping, failed, hid, sun, sock, rpc, unit, main, files, operator>>

(* Input of a lease that the supervisor's Sunshine holds; its end.         *)
Input(s) ==
    /\ hid[s] \in {"run", "stop"} /\ swept[s] /\ sun[s] \in {"run", "stop"}
    /\ dirty' = ~dirty
    /\ UNCHANGED <<pc, pid, stopping, failed, hid, sun, swept, sock, rpc, unit, main,
                   files, operator>>

(* close(): leases end, with or without a confirmed release; the path is   *)
(* unlinked.                                                               *)
BridgeExits(s) ==
    /\ hid[s] = "stop"
    /\ dirty' \in {FALSE, dirty}
    /\ sock' = "none" /\ hid' = [hid EXCEPT ![s] = "gone"]
    /\ UNCHANGED <<pc, pid, stopping, failed, sun, swept, rpc, unit, main, files, operator>>

ChildDies(s) ==
    /\ \/ hid[s] \in Live /\ hid' = [hid EXCEPT ![s] = "gone"] /\ sun' = sun
       \/ sun[s] \in Live /\ sun' = [sun EXCEPT ![s] = "gone"] /\ hid' = hid
    /\ UNCHANGED <<pc, pid, stopping, failed, swept, sock, dirty, rpc, unit, main, files, operator>>

(***************************************************************************)
(* systemd, the recovery, the operator.                                    *)
(***************************************************************************)
Holder(p) == {s \in Starts : pid[s] = p /\ Alive(s)}
FreePids == {p \in Pids \ others : Holder(p) = {}}

Launch(s) ==
    /\ pc[s] = "idle" /\ Goto(s, "lock")
    /\ \E p \in FreePids : pid' = [pid EXCEPT ![s] = p]
    /\ \/ s \in Hands /\ UNCHANGED <<unit, main>>
       \/ s \in Units /\ unit = "inactive" /\ unit' = "active" /\ main' = s
    /\ UNCHANGED <<stopping, failed, children, rpc, files, operator>>

(* SIGTERM or SIGINT to a supervisor whose handlers are installed; the     *)
(* same to its children when the signal goes to a group.                   *)
Signalled(s, group) ==
    /\ stopping' = [stopping EXCEPT ![s] = TRUE]
    /\ hid' = [hid EXCEPT ![s] = IF group THEN Term(@) ELSE @]
    /\ sun' = [sun EXCEPT ![s] = IF group THEN Term(@) ELSE @]

(* systemctl stop (KillMode=control-group), or Ctrl+C in a terminal.       *)
Stop(s) ==
    /\ pc[s] \in Running \ {"preflight"} /\ ~stopping[s]
    /\ Signalled(s, TRUE)
    /\ UNCHANGED <<pc, pid, failed, swept, sock, dirty, rpc, unit, main, files, operator>>

(* Mutant of UnitPost: KillMode=process. *)
UnitPostEarly ==
    /\ unit = "active" /\ pc[main] = "end" /\ unit' = "post"
    /\ UNCHANGED <<pc, pid, stopping, failed, children, rpc, main, files, operator>>

(* The main process is gone and the control group is empty: ExecStopPost.  *)
UnitPost ==
    /\ unit = "active" /\ pc[main] = "end"
    /\ hid[main] \notin Live /\ sun[main] \notin Live
    /\ unit' = "post"
    /\ UNCHANGED <<pc, pid, stopping, failed, children, rpc, main, files, operator>>

(* Mutant of PostStart: the lock is not asked for. *)
PostStartUnlocked ==
    /\ unit = "post" /\ rpc["post"] = "idle"
    /\ IF marker
         THEN rpc' = [rpc EXCEPT !["post"] = "release"] /\ unit' = unit
         ELSE unit' = "inactive" /\ rpc' = rpc
    /\ UNCHANGED <<pc, pid, stopping, failed, children, main, files, operator>>

(* systemd_release.py: only with the lock and with a marker.               *)
PostStart ==
    /\ unit = "post" /\ rpc["post"] = "idle"
    /\ IF lock = "none" /\ marker
         THEN lock' = "post" /\ rpc' = [rpc EXCEPT !["post"] = "release"] /\ unit' = unit
         ELSE unit' = "inactive" /\ UNCHANGED <<lock, rpc>>
    /\ UNCHANGED <<pc, pid, stopping, failed, children, main, marker, record, operator>>

(* run.py release-all *)
HandRelease ==
    /\ rpc["hand"] = "idle" /\ lock = "none" /\ Hands # {}
    /\ lock' = "hand" /\ rpc' = [rpc EXCEPT !["hand"] = "release"]
    /\ UNCHANGED <<pc, pid, stopping, failed, children, unit, main, marker, record, operator>>

RReturn(r) ==
    /\ rpc' = [rpc EXCEPT ![r] = "idle"] /\ lock' = "none"
    /\ unit' = IF r = "post" THEN "inactive" ELSE unit

RRelease(r) ==
    /\ rpc[r] = "release"
    /\ \/ /\ dirty' = FALSE /\ rpc' = [rpc EXCEPT ![r] = "unmark"]
          /\ UNCHANGED <<lock, unit>>
       \/ dirty' \in {FALSE, dirty} /\ RReturn(r)
    /\ UNCHANGED <<pc, pid, stopping, failed, hid, sun, swept, sock, main, marker, record, operator>>

RUnmark(r) ==
    /\ rpc[r] = "unmark"
    /\ marker' \in {FALSE, marker} /\ RReturn(r)
    /\ UNCHANGED <<pc, pid, stopping, failed, children, main, record, operator>>

(* Unrelated processes come and go, and reuse process ids.                 *)
OtherProcess ==
    /\ \/ \E p \in FreePids : others' = others \cup {p}
       \/ \E p \in others : others' = others \ {p}
    /\ UNCHANGED <<pc, pid, stopping, failed, children, rpc, unit, main, files, stopper, strayed>>

At(p) == IF p \in others THEN {"other"} ELSE Holder(p)

(* run.py stop: read control.json; pidfd_open; compare uid and start time; *)
(* signal the process that the descriptor stands for.                      *)
StopRead ==
    /\ stopper.step = "idle" /\ record # NoRecord /\ Hands # {}
    /\ stopper' = [NoStop EXCEPT !.step = "read", !.rec = record]
    /\ UNCHANGED <<pc, pid, stopping, failed, children, rpc, unit, main, files, others, strayed>>

StopOpen ==
    /\ stopper.step = "read"
    /\ stopper' \in IF At(stopper.rec.pid) = {} THEN {NoStop}
                     ELSE {[stopper EXCEPT !.step = "open", !.target = t] :
                               t \in At(stopper.rec.pid)}
    /\ UNCHANGED <<pc, pid, stopping, failed, children, rpc, unit, main, files, others, strayed>>

StopCheck ==
    /\ stopper.step = "open"
    /\ stopper' = IF stopper.rec.start \in At(stopper.rec.pid)
                     THEN [stopper EXCEPT !.step = "send"] ELSE NoStop
    /\ UNCHANGED <<pc, pid, stopping, failed, children, rpc, unit, main, files, others, strayed>>

(* Mutant of StopSend: kill() the process id instead of the descriptor. *)
StopSendByPid ==
    /\ stopper.step = "send"
    /\ stopper' = NoStop
    /\ strayed' = (strayed \/ "other" \in At(stopper.rec.pid))
    /\ IF Alive(stopper.rec.start) THEN Signalled(stopper.rec.start, FALSE)
                             ELSE UNCHANGED <<stopping, hid, sun>>
    /\ UNCHANGED <<pc, pid, failed, swept, sock, dirty, rpc, unit, main, files, others>>

StopSend ==
    /\ stopper.step = "send"
    /\ stopper' = NoStop
    /\ strayed' = (strayed \/ stopper.target # stopper.rec.start)
    /\ IF stopper.target \in Starts /\ Alive(stopper.target)
         THEN Signalled(stopper.target, FALSE) ELSE UNCHANGED <<stopping, hid, sun>>
    /\ UNCHANGED <<pc, pid, failed, swept, sock, dirty, rpc, unit, main, files, others>>

Next ==
    \/ \E s \in Starts :
          \/ SupervisorStep(s) \/ Die(s) \/ Launch(s) \/ Stop(s)
          \/ BridgeUp(s) \/ BridgeRecovers(s) \/ Input(s) \/ BridgeExits(s) \/ ChildDies(s)
    \/ \E r \in Releasers : RRelease(r) \/ RUnmark(r)
    \/ UnitPost \/ PostStart \/ HandRelease
    \/ OtherProcess \/ StopRead \/ StopOpen \/ StopCheck \/ StopSend

Spec == Init /\ [][Next]_vars

(* The kernel runs a supervisor that can run: each of its waits has a      *)
(* timeout.  Nothing is assumed of the children, systemd or the operator.  *)
FairSpec == Spec /\ \A s \in Starts : WF_vars(SupervisorStep(s))

(***************************************************************************)
(* Correctness.                                                            *)
(***************************************************************************)
(* A crash or a failed release at any point leaves a trace: as long as the *)
(* target may hold a key that a lease pressed, the marker says that a      *)
(* release is due ("a failed release keeps the recovery marker").          *)
HeldIsMarked == dirty => marker

(* An independent release never runs under a bridge that serves: neither   *)
(* the operator's, nor ExecStopPost's after a start of the unit that was   *)
(* refused beside an operator's ("A failed second start must NEVER release *)
(* an active first instance's input", systemd_release.py).                 *)
ReleaseAlone ==
    (\E r \in Releasers : rpc[r] = "release") \/ (\E s \in Starts : pc[s] = "release") =>
        \A s \in Starts : hid[s] \notin {"run", "stop"}

(* While a supervisor serves and its bridge listens, hid.sock is that      *)
(* bridge's: no other start or exit unlinked it or took the path.          *)
InputReachable ==
    \A s \in Starts : pc[s] = "serve" /\ hid[s] = "run" => sock = s

(* A supervisor can be stopped while it has children: control.json names   *)
(* it, across crashes of earlier supervisors and refused starts.           *)
Stoppable ==
    \A s \in Starts : pc[s] \in Running \ {"preflight", "return"} => record = [pid |-> pid[s], start |-> s]

(* run.py stop signals the supervisor it read about or nobody, however     *)
(* process ids are reused ("stale supervisor identity; no signal sent").   *)
StopHitsSupervisor == ~strayed

(* Exit code 0 says that the target was released and the marker removed.   *)
ExitTellsRelease ==
    [][\A s \in Starts : Return(s) /\ ~failed[s] => ~dirty /\ ~marker]_vars

(* A supervisor that is told to stop, or that loses a child, ends and      *)
(* gives up the lock, whatever its children and kvmd do.                   *)
SupervisorEnds ==
    \A s \in Starts :
        (pc[s] \in Running /\ (stopping[s] \/ hid[s] = "gone")) ~> (pc[s] = "end" /\ lock # s)
=============================================================================
