# RKMoon: specifications, checks and proofs

RKMoon turns a NanoPC-T6 into a KVM for one remote user: HDMI input is captured
and hardware-encoded by a worker process, a dedicated Sunshine build streams it
to a Moonlight-based client, and keyboard and mouse events come back through
Sunshine to a local HID bridge, which plays them into kvmd's USB gadget.

What must not go wrong is short to say and hard to test: a key must never stay
down on the target after its user is gone; two users must never share the
keyboard; the client must never be sent a frame it cannot decode; and after
every fault the system must either recover or end the session cleanly.

## Inventory

| Component | State it keeps | Operations | Interacts with | Correct when |
|---|---|---|---|---|
| HID bridge (`python/rkmoon_hid/server.py`, `lease.py`, `backend.py`, `__main__.py`) | `busy`, `stopping`, handlers, recovery task; per lease `virtual`, `possibly_down`, `buttons`; the websocket | admit, hello, check/wake, select_mouse, open_stream, apply, flush, release, retry, neutralize, close | local socket from Sunshine, kvmd by HTTP and websocket | one lease at a time; nothing is down when no lease is held |
| Input queues (`src/hid_client.cpp`, `lease.py` `Queue`) | two bounded queues and a socket | submit, transmit, put, pop | Sunshine's input threads, the bridge | merging is invisible; overflow ends the lease |
| Video session (`sunshine/rkmoon_bridge.cpp` `capture`) | `await_idr`, `SequenceGate`, last progress | spawn, receive, deliver or drop, ACK, request IDR, teardown | worker by a socket pair, Sunshine's mails and packet queue | delivered frames are decodable; drops recover; sessions end |
| Worker (`src/worker_main.cpp`) with encoder and capture | `force`, encoder sequence, recovery window, V4L2 buffers | drain controls, latest, encode, send, await_ack, recover | bridge, V4L2, MPP | one AU in flight; numbering survives recoveries |
| Sunshine input keeper (`maintain_input`, `forward`, `release_input`) | the shared `HidClient` | acquire, lose, re-acquire, release | HID bridge, video session | the lease ends with the video session |
| Supervisor (`tools/run.py`, `systemd_release.py`) | lock, recovery marker, children | start, stop, release-all, ExecStopPost | HID bridge, Sunshine | a killed bridge is always followed by a release |
| Client (`client/app/src/kvmwindow.cpp`, `kvmhost.cpp`, `rkmoon_auth.cpp`) | connection state, polled display mode, login state | connect, poll, restart on mode change, log in | Sunshine over HTTP and RTSP | follows the source mode, stops when told to |
| Overlay and fetch tools (`tools/apply_sunshine.py`, `client/tools/apply_moonlight.py`, `fetch_*.py`, `build.sh`) | a checkout: files, left-overs, the payload directory | fetch, check, apply, roll back, build | git, the owner of the checkout, packaging | local work survives; a half-patched checkout is never built |
| Installer (`tools/package_server.py`, `install_server.py`) | packages, releases, `current`, configuration, identity, units | package, install, activate, migrate, restart | systemd, the running server | what is current is complete; the operator's files are kept |
| Audio codec binding (`tools/hdmirx_audio_bind.py`) | drivers, override and module in sysfs; `steps` | six writes, six ways back | kernel | a failed binding is undone completely |
| EDID (`tools/edid_apply.py`) | the receiver's EDID, the backup file | read, back up, set, verify | V4L2, boots, other releases | the backup is the receiver's own EDID |
| USB gadget (`tools/input_runtime.py`, `install_input.py`, `input_config.py`) | the gadget, its HID minors, `main.yaml` | install, start, stop, serve | configfs, kvmd, other gadgets | the daemon serves its own gadget |
| Audio (`sunshine/rkmoon_audio.cpp`) | ALSA handle, capture thread | open, read, reopen | ALSA, Sunshine | a lost device is reopened |

Hard behaviours: every `await` of the bridge interleaves with other handlers,
signals and kvmd; an HTTP request that timed out may have been applied; streamed
events are not acknowledged; the worker reads its controls at two places of its
loop; capture and encoder disappear and come back in the middle of a session;
timeouts of two processes race. `PROJECT.json` lists these hazards with the
line each one bites at and the properties that cover it.

## Modules

| Module | Models |
|---|---|
| `InputLease` | abstract: an exclusive lease on a target that starts and ends with nothing held |
| `HidServer` | the HID bridge process, from start to crash, with kvmd as its environment; implements `InputLease` |
| `InputQueue` | the way of input events through two merging queues to the target |
| `VideoPipeline` | one video session: worker, bridge, socket, sender queue |
| `Supervisor` | `run.py`, its children, ExecStopPost, the operator, what is left on disk |
| `KvmClient` | the client's window, host and session flags |
| `SourceOverlay` | a checkout under the fetch and overlay tools and its owner |
| `ReleaseSwitch` | abstract: releases are added, one is active, processes come from active ones |
| `Deployment` | composes `SourceOverlay`, build, packaging and `ReleaseSwitch` |
| `ServerInstall` | packaging, installer and the running server; implements `ReleaseSwitch` |
| `CodecBind`, `EdidApply`, `InputGadget` | the three tools that prepare the board |
| `BoardBoot` | composes the three with the boots they share |
| `HidServerProofs`, `InputQueueProofs`, `VideoPipelineProofs`, `SupervisorProofs`, `KvmClientProofs`, `DeploymentProofs`, `ServerInstallProofs`, `BoardBootProofs` | theorems |
| `MC...` | instances for TLC |

Operators introduced by a comment "Mutant of ..." are variants of the definition
that follows them, with one plausible mistake in it. No specification uses them;
they exist to show that the properties can fail.

### HidServer

`pc[c]` says where the handler of connection `c` (and then its `retry_release`
task) is; `pc[Boot]` does the same for the task that checks and neutralizes kvmd
at start, in `block_until_neutral` and in the `--release-all` process. An HTTP
request is one step with three outcomes: applied and acknowledged, applied but
not acknowledged (timeout, cancellation), not applied. For an event of a lease
the awaits are kept apart: `KeyDown` (track it), `Send` (it leaves the bridge),
`Sent` (the await returns, a released control is forgotten); `Revoke` may hit
between any two of them. `tracked` is `possibly_down` and `buttons` together,
`ws[c]` what was written to the websocket and not yet dispatched, `down` what
kvmd holds.

kvmd is not part of the repository. The model takes from the way the bridge uses
it that requests on one connection are handled in order, that an abandoned HTTP
request takes effect before a later one or never, and that a closed websocket
has no effect on what is down. The mouse output is the exception: `select_mouse`
reads it back five times because the acknowledgement of `set_params` says
nothing about it, so `SetParams` only leaves a selection with kvmd (`selecting`)
and kvmd takes it in a step of its own, `Select`, whenever it likes, also when the
handler that asked has been refused long since. A later selection replaces one
that is under way. `StreamFaults` chooses how bad it may be:
`"break"` lets a websocket lose undispatched events, `"lag"` lets kvmd take
longer than `flush()` waits.

`ImplementsLease` shows that all this is an `InputLease`: the lease is open while
the bridge runs, is not stopping and has no sweep under way; its holders are the
handlers from admission to the end of the last retry; a holder is ending once its
websocket was flushed, and from then on presses nothing; `held` is what kvmd
holds. Requests that fail, retries, cancellations and websocket traffic are
stuttering or single steps of the abstract lease. `Residue` is the wake key, which
the bridge may press before there is a Lease.

`close()` waits for open connections (as `Server.wait_closed` does since
Python 3.12) and then cancels handlers; one that is flushing or releasing ends
there, because `CancelledError` passes `except Exception`. What it leaves down
is what `StartsNeutral` is about: the sweep of `--release-all` or of the next
start gets it.

### InputQueue

`Put` is the rule both queues share. `target` is the log of what kvmd was told,
each edge with the pointer position it met; `intended` is the same log for the
accepted events applied one by one. One axis stands for two; the mouse mode is
chosen in `Init`. Overflow, mode mismatch, EOF and failures end the lease at any
point.

### VideoPipeline

An AU is its number, whether it is an IDR, and the encoder instance that made
it: a P frame can only refer to the AU of the same instance before it. The worker's
two reading places are `Drain` (top of the loop) and `AwaitAck`; the placeholder
loop may skip draining (`Proceed`). `Recover` and `Reopen` are `recover()` before
and after its sleep. `tries` counts attempts instead of time: at most
`RecoveryWindow` of them fit into the 5 s, and the window may close earlier. The
bridge's handling of one AU is `Receive`, `Deliver` or `OfferTimeout`, `Drop`,
`Ack`, and the worker may run between any two. Timeouts may expire whenever a
process waits. `Teardown` is `~Child` with the rest of the cleanup: when it is
over, no worker runs. Bitrate and stop messages are handled by the worker but
never sent by this bridge, and are left out; the test IDR after 30 s is one of
the IDRs an unforced `Encode` may produce. `owed` is a history variable: it counts
the P frames encoded since an IDR was requested, and `IdrPrompt` bounds it.

### Supervisor

Several runs of `run.py start` exist in one behaviour: those of the systemd unit
(`Units`), one at a time, and an operator's (`Hands`), at any time. `pc` is the
statement of `start()` a supervisor is at; `Die` kills it between any two. What
survives is on disk: `marker`, `record` (`control.json`), `sock` (whose bridge
made `hid.sock`); `lock` is an flock and goes with its holder. `dirty` says that
the target may hold something a lease pressed. The bridge is what `HidServer`
shows of it: it sweeps before it grants a lease (`BridgeUp`, `BridgeRecovers`),
input changes what is held (`Input`), and its end releases or fails to
(`BridgeExits`, `ChildDies`). `run.py stop` is four steps, so that process ids can
be reused between them; the start time of a supervisor is its identity.

`Escape` is an `OSError` in the last part of the `finally` (the release cannot be
run, a file cannot be unlinked): the rest is skipped, `control.json` and perhaps
the marker stay, and the exit code is not 0.

`Linger` says whether the children of a killed supervisor live on until they
handle SIGTERM. Inside the unit they may, because systemd empties the control
group before ExecStopPost runs. Beside the unit nothing waits for them: an
operator who starts or releases by hand in the moment after a kill would act
beside a live bridge, so `supervisor_operator` takes `Linger = FALSE` and its
result is to be read with that assumption. `ReleaseAlone` is checked there, where
the case it is about occurs: a start of the unit that is refused beside an
operator's, and its ExecStopPost.

`Stop` signals the children as well (the unit has `KillMode=control-group`, a
terminal signals its group). The order of `run.py:171`, Sunshine before the
bridge, is therefore kept only by `run.py stop`. No property of the model rests
on it.

### KvmClient

There is one thread, and handlers interleave through event loops: the main one,
the ones of two modal dialogs, the one a session pumps without user input, the
one that waits for its clean-up. `w` holds the window's flags, counters and
timers; the helpers (`StopFollowing`, `ScheduleReconnect`, `SessionEnded`, ...)
are functions of it, as they are in the code. `RunStream`, `ExecReturns` and
`CleanupDone` are `runStream()` cut at its two nested loops. `computer` and `used`
name NvComputer objects, so that a replacement under a session shows. A poll or
a connect may fail in any way at any time. `asked` is a history variable: the
user clicked Start and has not quit or cancelled since.

Time is abstract except that a call queued with a zero timer runs before the
next reply. Status texts, saved configuration, password and target of requests,
the mouse-mode box and `closeEvent` (which refuses while anything is under way)
are left out. Of the display statuses that cannot start a stream one stands for
all.

### SourceOverlay and Deployment

A checkout is the state of its files (`orig`, `new`, `torn`, and with the owner's work
in them `mine`, on the pinned text, or `tuned`, on the patched one),
the `.rkmoon-new` files beside them and the payload directory `src/rkmoon`; it is
for one of the two overlays, chosen in `Init`. `Accepts` holds the checks of
`main()`: Sunshine's overlay wants a clean checkout, Moonlight's works from the
committed texts and takes its own result when it only looks. Each file is two
steps (`WriteNew`, `Replace`), the payload is one rename after the last file, and
the way back writes each original in place (`Undo`), so that a kill there tears a
file; `RemovePayload` may fail silently, as `rmtree(ignore_errors=True)` does.
`FailPoints` says where an exception may hit. The runs use the three places
where an operation can fail; `"end"` stands for an interrupt between the rename of
the payload and the end of the `try`, which would need to be followed by a kill of
the way back to do harm, and is excluded by the theorem that needs it
excluded. What the patches say is one `new` text per file: `make_changes` either
produces all of them or raises, which `anchored` chooses.

In `Deployment` the checkout is built, packaged and installed. `build.sh` tests for
the payload only; `RunsPatchedServer` is what this test is worth. An owner's work on
the patched text counts as wanted. An owner's `git reset --hard`, with or without a
`git clean` (`Reset`), may leave the payload in a checkout that is not patched any
more, and so may a roll-back. What saves the server then is the patch of
`CMakeLists.txt` (`Naming`), which is what names the binary `rkmoon-kvm`: without it
the build makes no such file, and an earlier one, made from a patched checkout,
is what packaging finds. An owner who reverts single patched files by hand while
`CMakeLists.txt` stays patched is not modelled; that build is theirs.

### ServerInstall

`install_server.py` is one step per thing it leaves behind; the two files it fills
after it created them, and the release directory it copies, are two. `Abort` ends it
anywhere. Two installers at once are not modelled. The running server is the
release of each of its three processes: `run.py` resolves its own path at start,
what it starts later goes through `/opt/rkmoon/current`. After an update without
`--start` the processes may be of different releases, and `ImplementsSwitch` says
that each is a complete one that was active when the process started.
`OperatorFilesKept` exempts one step, the migration of an identity that is already
under way when a server starts for the first time.

### CodecBind, EdidApply, InputGadget, BoardBoot

In `CodecBind` a write may fail without effect. On the way forward that starts the
way back; on the way back it is passed over (`attempt`), and the run is no longer
one `CodecRestored` speaks of (`flawed`). The kernel accepts a write only in a state
in which it makes sense (`Takes`, `TakesBack`); the order of `Back` matters because
of that. `EdidApply` has any number of concurrent runs for any of the releases'
EDIDs; the receiver returns to its own EDID at each boot. In `InputGadget` the HID
minors are one of two groups, and whoever is created first gets the low one. A
manual `stop` is taken only while the unit is not active: with the unit active
systemd is the one to ask, and a stop behind its back would take the nodes from
under the daemon.

The three share no variable, only boots. Files written before a boot are taken to be
on the disk. `MCProvisioning` puts them beside `Deployment` and `ServerInstall`, with
which they share nothing either, and lets a behaviour choose one `part` and take
its steps (and the boots): each property concerns one part. The proofs are about
the whole of `BoardBoot`, `Deployment` and `ServerInstall`.

## Runs

| Run | Instance | Question | Result |
|---|---|---|---|
| `hid_lease` | 2 connections, key A with two aliases, Shift, one button, 2 mouse modes, backlog 2, fairness | implements `InputLease`; neutrality, aliases, a client's own selection of the mouse output, start; a lease is given back | holds |
| `hid_wake_shift` | 1 connection | the wake tap is "without visible side effects" | violated |
| `hid_mode_late` | 2 connections, 2 mouse modes | "even the first button/wheel uses this output" | violated |
| `hid_failed_stream` | 1 connection, a websocket that breaks or lags | "a failed stream can never leave a key or button down" | violated |
| `input_queue` | 4 events, queues of 2, 1 and 2, deltas -2 and 1 with limit 2, fairness | merging, prefixes, ranges, wheel; events arrive, both sides end | holds |
| `video_session` | 4 AUs, 2 encoders, queue 2, window 2, fairness | decodability, IDR order, credit, when the gate may reject, prompt IDRs; drops and sessions end | holds |
| `video_reopen_sequence` | 3 encoders | "continue the AU sequence" | violated |
| `supervisor_unit` | 3 runs of the unit, lingering children, fairness | marker, socket, exit code; a supervisor ends | holds |
| `supervisor_operator` | unit and operator, 2 process ids | no release beside a serving bridge; control.json; `stop` hits no stranger | holds |
| `client` | 2 source modes, all limits 2, fairness | host of a session, quit, reconnect; it resolves | holds |
| `client_forget` | the same | "drop the stored host identity" | violated |
| `provisioning` | both overlays with 2 files; 2 releases; 2 concurrent EDID runs, 2 releases' EDIDs; one foreign gadget | no half-patched server, local work, roll-back; implements `ReleaseSwitch`, operator's files; codec restored, EDID backup, own nodes | holds |

Bounds. Two connections are what it takes to break exclusivity. A backlog of 2
holds a press and a release of one control, or edges of two. The queue instances
are filled by 3 events, so that 4 reach saturation of either queue after a merge
or an edge; the limit 2 on a delta makes some sums fit and others not. In a
video session the shortest interesting stories (deliver, drop, IDR; encode,
fault, failed reopen, reopen, encode) need 4 AUs and 2 encoders. Three runs of the
unit are a crash, a start that meets what the crash left, and one after that.
With limits of 2 in the client a counter can be below, at and past its limit,
and two modes are what it takes to interrupt a debounce. Two files make a checkout
half patched, with the one that names the binary done or not; two releases are an
update and its roll-back, and are interchangeable (symmetry). Two EDID runs are what it takes to
race for the backup, and two EDIDs to find another release's in the receiver.

Fairness. `HidServer`: asyncio runs a task that can run; kvmd dispatches what it
has received; and of the endlessly repeated attempts to release one control one
is acknowledged in the end (without that, blocking for ever is the intended
behaviour). `InputQueue`: the threads and tasks run, and each side notices that
the other has closed the socket. `VideoPipeline`: both processes run, every turn
of the bridge's loop looks at the shutdown event and the socket,
and the worker drains IDR requests faster than a client makes them. No fault,
timeout or request is assumed to happen, and the sender is not assumed to make
room. `Supervisor`: a supervisor that can run does, and each of its waits has a
timeout (`wait(4)` then `kill()`, 65 s for the socket, a limit on the release);
children, systemd and operator owe nothing. `KvmClient`: timers fire, requests are
answered or time out (5 s), queued calls run, the session's loop sees `stop()` and
SDL_QUIT (every 20 ms), and its clean-up ends; no click or success is assumed.

### What the violated runs show

* `hid_wake_shift`: the keyboard is offline, `check()` presses ShiftLeft, the
  request times out after it was applied. There is no Lease yet, so nothing
  releases it and `busy` clears.
* `hid_mode_late`: a client asks for the absolute mouse, `set_params` is acknowledged,
  the change is not seen in the read-backs or the 1.5 s are over, the client is
  refused and `busy` clears. The next client asks for the relative mouse, finds it
  still selected, is acknowledged and served; then kvmd changes the output.
  `OwnSelectionLasts` in `hid_lease` delimits this: a client whose handler had to
  change the output keeps it.
* `hid_failed_stream`: a press is written to the websocket, the lease is revoked,
  `flush()` is not confirmed in its 0.5 s and the stream is closed; the key is
  released over HTTP, `busy` clears, and kvmd dispatches the press. With a websocket
  that breaks the same happens by another way: a key-up is written, the await
  returns and the key is no longer tracked, the websocket breaks before kvmd
  dispatches it. What kvmd does with a closed websocket is not in the repository:
  both stories assume that it dispatches what it has read and lets go of
  nothing by itself. The first needs an unread or undispatched press to outlive the
  close; the model allows kvmd to drop it as well (`DropClosed`).
* `video_reopen_sequence`: a capture fault, a reopen that fails, a reopen that
  succeeds. `recover()` reads the sequence from an encoder that is gone, numbering
  starts again at 1, and the bridge's gate ends the session that the recovery was
  meant to save. `GateRejectsBlind` in `video_session` says that this is the only
  way for the gate to reject anything.
* `client_forget`: the question is open, its event loop starts a poll, the user
  answers Yes, the binding is dropped; then the reply stores it again. The test of
  `m_pollBusy` came before the question.

`StartsNeutral` bounds the damage of the first: the next start accepts leases only
with nothing down.

`HidServer.cfg` sets `StreamFaults = {}`, and the theorems on neutrality, aliases and
the refinement name that assumption; `hid_failed_stream` shows that it is needed. In
`Provisioning.cfg`, adding `"end"` to `FailPoints` refutes `RunsPatchedServer`.

## Proofs

Every safety invariant, action property and refinement that a passing run checks
is also proved, for every value of the constants that satisfies the assumptions
named here. The bounds of the models (events, sequence numbers, starts) are
constants too, so they bound the runs and not the theorems.

`HidServerProofs` proves for every set of clients, keys and buttons, every alias
map and every backlog:

| Theorem | Statement | Assumes |
|---|---|---|
| `TypeCorrect` | `TypeOK` | `HidAssumption` |
| `ExclusiveLease` | `SingleOwner` | `HidAssumption` |
| `OwnSelectionHolds` | `OwnSelectionLasts` | `HidAssumption` |
| `FreeBridgeIsNeutral` | `NeutralWhenFree` | and no stream fault |
| `LeaseTracksAll` | `TrackedCoversDown` | and no stream fault |
| `AliasesAgree` | `HeldMatchesVirtual` | and no stream fault |
| `BridgeIsLease` | `ImplementsLease` | and no stream fault |
| `RestartIsNeutral` | `StartsNeutral` | and no `"lag"` |

The assumptions on stream faults are necessary, see above.

Exclusivity rests on `OwnerInv`: types, `SingleOwner`, and where `Boot` can be in
each phase of the process (a sweep of a running bridge implies `busy`). Without
the last part a sweep could end and clear `busy` under a lease. Neutrality rests
on `NeutralInv`, which says for every control point who accounts for what is
down: nobody needs to when the bridge is free; nothing but the wake key is down
before a Lease exists; while Boot sweeps, what is down is still to be swept or
the sweep has failed; other connections have nothing in their websocket; a
release only starts with an empty websocket; and while a lease lives, everything
down or on its way down is tracked. The awaited edge needs two parts of its own:
it is tracked from `KeyDown` to `Sent`, and once sent it is the last edge of its
control. The lemmas on `HeldAfter` say how appending and dispatching an event
change what will be held.

`SelectInv` says of a handler that chose the output itself: as soon as the output is
the one it wants, nothing but that same output is under way, so that a later
`Select` can only repeat it. Only the sole owner makes selections.
`AliasInv` also covers an edge that is tracked and not sent yet: until then the
pending edge, not the target, decides what will be held.

The refinement uses `NeutralInv` (what is down before a lease, and after its
last release, is at most the wake key) and two more invariants: `StreamOwned`, that
only an owner's websocket has anything in it, so that what kvmd dispatches is a
press or lift of the holder; and `LastStopping`, that the last attempt of a release
is only made while the bridge stops, so that a lease given back with controls
still down is one the abstract specification no longer promises anything about. Each action
is then one step of `InputLease` or leaves its variables alone.

`SupervisorProofs` proves for every set of starts and process ids:

| Theorem | Statement | Assumes |
|---|---|---|
| `SupervisorTypes` | `TypeOK` | `SupervisorAssumption` |
| `ControlNamesSupervisor` | `Stoppable` | and nothing else |
| `StopIsAimed` | `StopHitsSupervisor` | and nothing else |
| `ReleaseIsAlone` | `ReleaseAlone` | and `NoBystander` |
| `HeldLeavesMarker` | `HeldIsMarked` | and `NoBystander` |
| `InputIsReachable` | `InputReachable` | and `NoBystander` |
| `ExitCodeIsTrue` | `ExitTellsRelease` | and `NoBystander` |

`NoBystander` (`Linger => Hands = {}`) is the condition both runs satisfy: children
outlive a killed supervisor only where nobody but systemd acts. No property here
is inductive. `ProcessInv` says who holds the lock, that the unit's processes are
those of its current main process, and where in `start()` a supervisor may have a
living child; from it `Alone` follows: whoever releases or removes the marker does
it while no child lives, orphans included. `MarkInv` adds that the marker is there
from before Sunshine starts, and that nothing is held between a confirmed release
and the removal of the marker. `ExitInv` says that a supervisor past its clean-up
with nothing to report has left neither a held key nor a marker, and `ListenInv`
that any bridge that listens, served by a supervisor or not, has the path. The stop
command is followed through time: `RecordInv` and `StopperInv` say of the record on
disk, and of the one `run.py stop` has read, that its supervisor still has the
recorded process id or is no more, which holds because a launched supervisor never
runs again and keeps its id while it lives (`Ages`). A reused id then fails the
second check, made after the descriptor was opened.

`InputQueueProofs` proves for queues of every capacity, every range of motion, every
size of a notch and any number of events, from `QueueAssumption` alone:

| Theorem | Statement |
|---|---|
| `QueueTypes` | `TypeOK`, with the capacities |
| `MergingIsInvisible` | `MergingInvisible` |
| `AppliedIsPrefix` | `AppliedPrefix` |
| `MotionAlwaysFits` | `MotionFits` |
| `WheelIsExact` | `WheelExact` |

`MergingInvisible` speaks of a recursive function over what is in flight. The proof
replaces it by the existence of a trail (`Leads`), the sequence of states the target
passes through, and shows how each operation changes a trail: appending makes it
one step longer, consuming one shorter, and merging two neighbours anywhere leaves
out the state between them (`LeadsMerge`, `MergeApplies`, `PutLeads`). That a trail
ends where `Outcome` says, and that the log only grows along it, is induction on
its length, done with a least counterexample (`Least`, `Climb`). `FitInv` says that
every queue holds only what `parse_event` accepts, and `WheelInv` accounts for the
wheel on the intended side; with an empty flight the two sides are equal.

`VideoPipelineProofs` proves, for every queue limit, recovery window and bound, from
`VideoAssumption` alone:

| Theorem | Statement |
|---|---|
| `VideoTypes` | `TypeOK` |
| `StreamDecodable` | `DecodableStream` |
| `DropCostsOneAU` | `NextIsIdr` |
| `CreditIsUnique` | `OneCredit` |
| `IdrIsPrompt` | `IdrPrompt` |
| `GateRejectsBlindOnly` | `GateRejectsBlind` |

The inductive invariant has a part for each. `PcInv` and `FramesInv` say where the
two processes can be together and what is in the socket then: at most one access
unit, behind `ready` if that has not been read. `CreditInv` follows the credit.
`StreamInv` says what the next access unit may refer to, wherever it is: in the
encoder, in the socket, with the bridge; the worker forces an IDR or continues
exactly what the bridge has seen last. `GateInv` does the same for the sequence
numbers, with the blind recovery as the only exception. `IdrInv` says that a request
is set in `force` or lies in the controls before the credit for the next unit, so
that it is not overtaken.

`KvmClientProofs` proves for every set of modes and every limit `ClientTypes`
(`TypeOK`), `SessionKeepsHost` (`StreamHasHost`), `WishIsDriven` (`WantIsDriven`) and
the action property `UserQuitWins` (`QuitWins`). `ClientInv` has a part for each:
whatever may lead to a session (a wish, an enabled Start, a connect that waits for
the application list, a session) implies a computer; a wish is the user's unless
a quit is still to be seen; a wish keeps the poll timer, and a pending attempt
has its own timer and excludes a session and a queued launch. The last part is
what would fail if a queued launch could be overtaken by a reply.

`DeploymentProofs` proves for every set of files and releases:

| Theorem | Statement | Assumes |
|---|---|---|
| `OverlayTypes` | `OverlayType` | `OverlayAssumption` |
| `LocalWorkSafe` | `LocalWorkKept` | and nothing else |
| `RefusalRestores` | `RefusedRestores` | and nothing else |
| `OnlyPatchedServers` | `RunsPatchedServer` | and no failure after the rename of the payload |

`OverlayInv` says what a tool that is at work has found and done: an empty
directory has no files (`EmptyInv`), an overlay began with the pinned files
(`CleanInv`), and each file is patched, still to be done, or on the way back restored
(`ProgressInv`). `PayloadInv` adds that with a payload every file is patched, or
the one that names the binary is not; `ReleaseInv` carries that through artifact and packages to what runs.

`ServerInstallProofs` proves for every set of versions `InstallTypes` (`InstallType`),
`InstallIsSwitch` (`ImplementsSwitch`) and `InstallKeepsFiles` (`OperatorFilesKept`).
`WholeInv` says that what is current or runs is a complete release and so is the
target about to be activated; `WritingInv` that a configuration being filled is the
one the installer has just created.

`BoardBootProofs` proves `BackupStaysOriginal` (`BackupIsOriginal`, if the receiver
boots with a valid EDID that is none of RKMoon's), `DaemonServesOwn` (`ServesOwnNodes`) and
`CodecComesBack` (`CodecRestored`) of `BoardBoot`, for every set of runs and EDIDs. For
the backup, `BackupInv` says who may be between reading the EDID and the backup
with one of ours in hand: nobody while there is no backup. For the gadget,
`NodesInv` says that an active unit means a complete gadget and a configuration
that names its nodes. For the codec, the invariant relates `steps` to the position
on the way forward (`ForwardInv`, `StepsInv`) and driver, override and module to
`steps` (`DriverInv`, `SetInv`, `ModuleInv`); on the way back each of these holds
until its entry of `Back` is reached, and the vendor's value from then on
(`BackInv`). `OverrideInv`, that no override outlives the vendor's driver, holds
between runs and is what makes a run after a killed one safe.

Each invariant was model-checked before it was proved.

Out of the prover's reach, and so only model-checked, are the liveness properties:
`CleanupFreesLease`, `EventsArrive`, `BothSidesEnd`, `DropRecovers`, `SessionEnds`,
`SupervisorEnds`, `WantResolves`, `UnwantedEnds`.

## Not modelled

Pixels, NAL bytes, wire formats, JSON and HTTP parsing, V4L2 and MPP set-up,
report pacing, logging, argument parsing; the worker's `--probe` and file modes;
peer credentials; accounts, groups and file modes; the text of the patches; the
development scripts that measure hardware. `PROJECT.json` gives the reason for each component left out.

## Plan

In this order:

1. `SunshineInput`: `maintain_input`, `forward`, `release_input` and `HidClient`
   composed with the lease of `HidServer`; the lease ends before the video owner
   changes.
2. `PasswordGate`: challenge, attempt limit and cancellation of the login, on
   both sides.
3. `CaptureBuffers`: ownership of V4L2 buffers between driver, worker and encoder.
4. `AudioCapture`: the ALSA thread and its reopening.
5. `PureFunctions`: `Config::validate`, `mpp_video_level`, `absolute_coordinate`,
   `chunks`, display matching, against reference definitions.
