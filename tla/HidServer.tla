------------------------------ MODULE HidServer ------------------------------
(***************************************************************************)
(* The HID bridge (python/rkmoon_hid): one process that grants an          *)
(* exclusive input lease to one local connection at a time, forwards key   *)
(* and button edges to kvmd, and releases every control the lease may have *)
(* left down before another lease is granted.                              *)
(*                                                                         *)
(* Every await of the bridge is a point where another task, kvmd or a      *)
(* signal may run, so a handler is a sequence of steps here, and one HTTP  *)
(* request is a step whose outcome is any of: applied and acknowledged,    *)
(* applied but not acknowledged (the 0.4 s timeout, or a cancellation),    *)
(* not applied.  kvmd is external; it is modelled from the way the bridge  *)
(* uses it: a set of controls it holds down, the mouse output it has       *)
(* selected, and one ordered unacknowledged event stream per websocket.    *)
(* An abandoned HTTP request takes effect before a later one or never; a   *)
(* selection of the mouse output takes effect in a later step of kvmd.     *)
(*                                                                         *)
(* Pointer motion leaves nothing down and is not modelled here.  The event *)
(* queue between the reader and the consumer is in module InputQueue; here *)
(* the consumer may take any event next.                                   *)
(***************************************************************************)
EXTENDS Naturals, Sequences, FiniteSets

CONSTANTS
    Clients,        \* local connections (an identity is reused when it is free)
    VKs,            \* virtual keys of the protocol
    Keys,           \* kvmd key names
    Buttons,        \* mouse buttons
    KeyOf,          \* KEYS of keys.py: several virtual keys may alias one key
    WakeKey,        \* "ShiftLeft", the key wake() taps
    Modes,          \* mouse modes
    Boot,           \* the task that checks and neutralizes kvmd
    StreamFaults,   \* which stream failures kvmd and the socket may show
    StreamBacklog   \* bound: streamed events kvmd has not dispatched yet

(* "break": the websocket may break while it still holds undispatched      *)
(* events.  "lag": kvmd may take longer than flush() waits.                *)
ASSUME HidAssumption ==
    /\ KeyOf \in [VKs -> Keys]
    /\ WakeKey \in Keys
    /\ Keys \cap Buttons = {}
    /\ Boot \notin Clients
    /\ "none" \notin Modes
    /\ StreamFaults \subseteq {"break", "lag"}
    /\ StreamBacklog \in Nat \ {0}

Controls == Keys \cup Buttons
Tasks == Clients \cup {Boot}
Events == [ctl : Controls, down : BOOLEAN]
NoOp == [ctl |-> WakeKey, down |-> FALSE, step |-> "idle"]
Ops == [ctl : Controls, down : BOOLEAN, step : {"idle", "tracked", "sent"}]

VARIABLES
    phase,     \* the bridge process: "down", "start", "run", "post"
    busy,      \* Server.busy
    stopping,  \* Server.stopping
    pc,        \* where each handler, its lease's retry task, and Boot are
    todo,      \* what a release loop or a neutralize sweep has still to do
    failed,    \* neutralize: some release of this sweep failed
    mode,      \* the mouse mode of each handler's hello
    tried,     \* select_mouse has already issued set_params
    stream,    \* the handler's websocket: "none", "alive", "dead"
    virtual,   \* Lease.virtual: virtual keys held by the client
    tracked,   \* Lease.possibly_down and Lease.buttons together
    op,        \* the edge Lease.apply is awaiting
    ws,        \* written to the websocket, not yet dispatched by kvmd
    down,      \* kvmd: controls held down on the target
    kvmdMode,  \* kvmd: the selected mouse output
    selecting  \* kvmd: the output it was told to select and has not yet, or "none"

process == <<phase, busy, stopping>>
select == <<mode, tried>>
lease == <<virtual, tracked, op>>
kvmd == <<down, kvmdMode, selecting>>
vars == <<phase, busy, stopping, pc, todo, failed, mode, tried, stream,
          virtual, tracked, op, ws, down, kvmdMode, selecting>>

(***************************************************************************)
(* Groups of control points.                                               *)
(***************************************************************************)
Checking == {"check", "wakedown", "wakeup", "recheck"}
Admitted == {"hello", "set", "open"} \cup Checking   \* busy, no Lease yet
Connected == Admitted \cup {"serve"}                 \* the socket is open
Releasing == {"release", "rerelease", "lastrelease"}
Cleanup == {"flush", "retry"} \cup Releasing
Leased == {"serve"} \cup Cleanup
Owning == Admitted \cup Leased
BootAt == {"none", "sweep", "wait"} \cup Checking

TypeOK ==
    /\ phase \in {"down", "start", "run", "post"}
    /\ busy \in BOOLEAN /\ stopping \in BOOLEAN /\ failed \in BOOLEAN
    /\ pc \in [Tasks -> Owning \cup BootAt]
    /\ \A c \in Clients : pc[c] \in Owning \cup {"none"}
    /\ pc[Boot] \in BootAt
    /\ todo \in [Tasks -> SUBSET Controls]
    /\ mode \in [Clients -> Modes \cup {"none"}]
    /\ \A c \in Clients : pc[c] \in Checking \cup {"set"} => mode[c] \in Modes
    /\ tried \in [Clients -> BOOLEAN]
    /\ stream \in [Clients -> {"none", "alive", "dead"}]
    /\ virtual \in [Clients -> SUBSET VKs]
    /\ tracked \in [Clients -> SUBSET Controls]
    /\ op \in [Clients -> Ops]
    /\ ws \in [Clients -> Seq(Events)]
    /\ down \in SUBSET Controls
    /\ kvmdMode \in Modes
    /\ selecting \in Modes \cup {"none"}

(***************************************************************************)
(* The bridge is not running; an earlier instance, or another user of      *)
(* kvmd, may have left any control down and any mouse output selected.     *)
(***************************************************************************)
Init ==
    /\ phase = "down" /\ busy = FALSE /\ stopping = FALSE /\ failed = FALSE
    /\ pc = [t \in Tasks |-> "none"]
    /\ todo = [t \in Tasks |-> {}]
    /\ mode = [c \in Clients |-> "none"]
    /\ tried = [c \in Clients |-> FALSE]
    /\ stream = [c \in Clients |-> "none"]
    /\ virtual = [c \in Clients |-> {}]
    /\ tracked = [c \in Clients |-> {}]
    /\ op = [c \in Clients |-> NoOp]
    /\ ws = [c \in Clients |-> <<>>]
    /\ down \in SUBSET Controls
    /\ kvmdMode \in Modes
    /\ selecting = "none"

Effect(held, e) == IF e.down THEN held \cup {e.ctl} ELSE held \ {e.ctl}

(* release() and neutralize() go through the keys before the buttons. *)
NextToRelease(t, k) == k \in todo[t] /\ (k \in Buttons => todo[t] \cap Keys = {})

(* The handlers in D end and their Lease objects are gone. *)
Forget(D) ==
    /\ mode' = [c \in Clients |-> IF c \in D THEN "none" ELSE mode[c]]
    /\ tried' = [c \in Clients |-> IF c \in D THEN FALSE ELSE tried[c]]
    /\ stream' = [c \in Clients |-> IF c \in D THEN "none" ELSE stream[c]]
    /\ virtual' = [c \in Clients |-> IF c \in D THEN {} ELSE virtual[c]]
    /\ tracked' = [c \in Clients |-> IF c \in D THEN {} ELSE tracked[c]]
    /\ op' = [c \in Clients |-> IF c \in D THEN NoOp ELSE op[c]]
    /\ todo' = [t \in Tasks |-> IF t \in D THEN {} ELSE todo[t]]
    /\ pc' = [t \in Tasks |-> IF t \in D THEN "none" ELSE pc[t]]

(***************************************************************************)
(* Admission (Server.handle up to the Lease).                              *)
(***************************************************************************)
(* Mutant of Admit: busy is not tested. *)
AdmitUnlocked(c) ==
    /\ phase = "run" /\ ~stopping
    /\ pc[c] = "none" /\ ws[c] = <<>>
    /\ busy' = TRUE
    /\ pc' = [pc EXCEPT ![c] = "hello"]
    /\ UNCHANGED <<phase, stopping, todo, failed, select, stream, lease, ws, kvmd>>

Admit(c) ==
    /\ phase = "run" /\ ~busy /\ ~stopping
    /\ pc[c] = "none" /\ ws[c] = <<>>
    /\ busy' = TRUE
    /\ pc' = [pc EXCEPT ![c] = "hello"]
    /\ UNCHANGED <<phase, stopping, todo, failed, select, stream, lease, ws, kvmd>>

Hello(c) ==
    /\ pc[c] = "hello"
    /\ \E m \in Modes : mode' = [mode EXCEPT ![c] = m]
    /\ pc' = [pc EXCEPT ![c] = "check"]
    /\ UNCHANGED <<process, todo, failed, tried, stream, lease, ws, kvmd>>

(* An exception before the Lease exists: the handler's finally clears busy *)
(* at once.  An exception of Boot's check or sweep leaves (or makes) the   *)
(* bridge busy and the recover() loop of block_until_neutral waiting.      *)
LeaveEarly(t) ==
    /\ stopping' = stopping /\ failed' = failed
    /\ IF t = Boot
         THEN /\ phase' = "run" /\ busy' = TRUE
              /\ pc' = [pc EXCEPT ![Boot] = "wait"]
              /\ UNCHANGED <<todo, select, stream, lease>>
         ELSE /\ phase' = phase /\ busy' = FALSE
              /\ Forget({t})

(* Invalid or late hello, or check()/select_mouse failing at any of its    *)
(* awaits with the pending request not applied, the 1.5 s deadline         *)
(* included.                                                               *)
Refused(t) ==
    /\ pc[t] \in {"hello", "set"} \cup Checking
    /\ LeaveEarly(t)
    /\ UNCHANGED <<ws, kvmd>>

(* check() found kvmd enabled and online: Boot goes on to neutralize, a    *)
(* handler compares the mouse output with the one it wants.                *)
CheckedGoTo(t) ==
    IF t = Boot THEN "sweep"
    ELSE IF kvmdMode = mode[t] THEN "open"
    ELSE IF tried[t] THEN "check" ELSE "set"

Checked(t) ==
    /\ pc[t] \in {"check", "recheck"}
    /\ pc' = [pc EXCEPT ![t] = CheckedGoTo(t)]
    /\ IF t = Boot
         THEN todo' = [todo EXCEPT ![Boot] = Controls] /\ failed' = FALSE
         ELSE UNCHANGED <<todo, failed>>
    /\ UNCHANGED <<process, select, stream, lease, ws, kvmd>>

(* check() found a device offline and wakes it: the keyboard with a tap of *)
(* WakeKey, the mouse with a zero wheel event.                             *)
Offline(t) ==
    /\ pc[t] = "check"
    /\ \E next \in {"wakedown", "recheck"} : pc' = [pc EXCEPT ![t] = next]
    /\ UNCHANGED <<process, todo, failed, select, stream, lease, ws, kvmd>>

WakeDown(t) ==
    /\ pc[t] = "wakedown"
    /\ down' = down \cup {WakeKey}
    /\ \/ /\ pc' = [pc EXCEPT ![t] = "wakeup"]
          /\ UNCHANGED <<process, todo, failed, select, stream, lease>>
       \/ LeaveEarly(t)
    /\ UNCHANGED <<ws, kvmdMode, selecting>>

WakeUp(t) ==
    /\ pc[t] = "wakeup"
    /\ down' = down \ {WakeKey}
    /\ \/ /\ pc' = [pc EXCEPT ![t] = "recheck"]
          /\ UNCHANGED <<process, todo, failed, select, stream, lease>>
       \/ LeaveEarly(t)
    /\ UNCHANGED <<ws, kvmdMode, selecting>>

(* Mutant of SetParams: the acknowledgement is trusted, not read back. *)
SetParamsTrusted(c) ==
    /\ pc[c] = "set"
    /\ selecting' \in {selecting, mode[c]}
    /\ pc' = [pc EXCEPT ![c] = "open"]
    /\ tried' = [tried EXCEPT ![c] = TRUE]
    /\ UNCHANGED <<process, todo, failed, mode, stream, lease, ws, down, kvmdMode>>

(* POST /hid/set_params: kvmd accepts the selection or not, and the bridge *)
(* sees an acknowledgement or not.  An accepted selection takes effect in  *)
(* a step of kvmd's own (Select), whether or not the handler still waits   *)
(* for it; a later one takes its place.                                    *)
SetParams(c) ==
    /\ pc[c] = "set"
    /\ selecting' \in {selecting, mode[c]}
    /\ \/ /\ pc' = [pc EXCEPT ![c] = "check"]
          /\ tried' = [tried EXCEPT ![c] = TRUE]
          /\ UNCHANGED <<process, todo, failed, mode, stream, lease>>
       \/ LeaveEarly(c)
    /\ UNCHANGED <<ws, down, kvmdMode>>

(* open_stream() succeeds, or the lease falls back to HTTP events; then    *)
(* the Lease exists and the client is told so.                             *)
OpenStream(c) ==
    /\ pc[c] = "open"
    /\ \E s \in {"alive", "none"} : stream' = [stream EXCEPT ![c] = s]
    /\ pc' = [pc EXCEPT ![c] = "serve"]
    /\ UNCHANGED <<process, todo, failed, select, lease, ws, kvmd>>

(***************************************************************************)
(* Lease.apply, for the two ops that leave something down.                 *)
(***************************************************************************)
Idle(c) == pc[c] = "serve" /\ op[c].step = "idle"

Await(c, k, d) == op' = [op EXCEPT ![c] = [ctl |-> k, down |-> d, step |-> "tracked"]]

AliasHeld(held, k) == \E v \in held : KeyOf[v] = k

KeyDown(c, vk) ==
    /\ Idle(c) /\ vk \notin virtual[c]
    /\ virtual' = [virtual EXCEPT ![c] = @ \cup {vk}]
    /\ IF AliasHeld(virtual[c], KeyOf[vk])
         THEN UNCHANGED <<tracked, op>>
         ELSE /\ tracked' = [tracked EXCEPT ![c] = @ \cup {KeyOf[vk]}]
              /\ Await(c, KeyOf[vk], TRUE)
    /\ UNCHANGED <<process, pc, todo, failed, select, stream, ws, kvmd>>

(* Mutant of KeyUp: other aliases of the key are not looked at. *)
KeyUpIgnoresAliases(c, vk) ==
    /\ Idle(c)
    /\ virtual' = [virtual EXCEPT ![c] = @ \ {vk}]
    /\ IF KeyOf[vk] \in tracked[c] THEN Await(c, KeyOf[vk], FALSE) ELSE op' = op
    /\ UNCHANGED <<process, pc, todo, failed, select, stream, tracked, ws, kvmd>>

KeyUp(c, vk) ==
    /\ Idle(c)
    /\ virtual' = [virtual EXCEPT ![c] = @ \ {vk}]
    /\ IF ~AliasHeld(virtual[c] \ {vk}, KeyOf[vk]) /\ KeyOf[vk] \in tracked[c]
         THEN Await(c, KeyOf[vk], FALSE)
         ELSE op' = op
    /\ UNCHANGED <<process, pc, todo, failed, select, stream, tracked, ws, kvmd>>

ButtonDown(c, b) ==
    /\ Idle(c) /\ b \notin tracked[c]
    /\ tracked' = [tracked EXCEPT ![c] = @ \cup {b}]
    /\ Await(c, b, TRUE)
    /\ UNCHANGED <<process, pc, todo, failed, select, stream, virtual, ws, kvmd>>

ButtonUp(c, b) ==
    /\ Idle(c) /\ b \in tracked[c]
    /\ Await(c, b, FALSE)
    /\ UNCHANGED <<process, pc, todo, failed, select, stream, virtual, tracked, ws, kvmd>>

(* The edge leaves the bridge: written to the websocket without an         *)
(* acknowledgement, or applied by kvmd's HTTP handler.                     *)
Send(c) ==
    /\ pc[c] = "serve" /\ op[c].step = "tracked"
    /\ op' = [op EXCEPT ![c].step = "sent"]
    /\ \/ /\ stream[c] = "alive" /\ Len(ws[c]) < StreamBacklog
          /\ ws' = [ws EXCEPT ![c] = Append(@, [ctl |-> op[c].ctl, down |-> op[c].down])]
          /\ down' = down
       \/ /\ stream[c] = "none"
          /\ down' = Effect(down, op[c])
          /\ ws' = ws
    /\ UNCHANGED <<process, pc, todo, failed, select, stream, virtual, tracked, kvmdMode, selecting>>

(* The await returned (the socket drained, or HTTP 200): only now is a     *)
(* released control forgotten.                                             *)
Sent(c) ==
    /\ pc[c] = "serve" /\ op[c].step = "sent"
    /\ tracked' = [tracked EXCEPT ![c] = IF op[c].down THEN @ ELSE @ \ {op[c].ctl}]
    /\ op' = [op EXCEPT ![c] = NoOp]
    /\ UNCHANGED <<process, pc, todo, failed, select, stream, virtual, ws, kvmd>>

(***************************************************************************)
(* The end of a lease: EOF, bye, an invalid event, a saturated queue, a    *)
(* lapsed heartbeat, a failed send.  The workers are cancelled, wherever   *)
(* the consumer is, and the socket is closed.                              *)
(***************************************************************************)
Revoke(c) ==
    /\ pc[c] = "serve"
    /\ op' = [op EXCEPT ![c] = NoOp]
    /\ IF stream[c] # "none"
         THEN /\ pc' = [pc EXCEPT ![c] = "flush"]
              /\ UNCHANGED <<todo, virtual>>
         ELSE /\ pc' = [pc EXCEPT ![c] = "release"]
              /\ todo' = [todo EXCEPT ![c] = tracked[c]]
              /\ virtual' = [virtual EXCEPT ![c] = {}]
    /\ UNCHANGED <<process, failed, select, stream, tracked, ws, kvmd>>

(* flush() has seen the pong; or it has not within its 0.5 s, or the      *)
(* stream was dead already, and the handler waits another 50 ms.  Then the *)
(* websocket is closed, with or without what kvmd has not dispatched.      *)
FlushAndClose(c) ==
    /\ pc[c] = "flush"
    /\ ws[c] = <<>> \/ "lag" \in StreamFaults
    /\ pc' = [pc EXCEPT ![c] = "release"]
    /\ stream' = [stream EXCEPT ![c] = "none"]
    /\ todo' = [todo EXCEPT ![c] = tracked[c]]
    /\ virtual' = [virtual EXCEPT ![c] = {}]
    /\ UNCHANGED <<process, failed, select, tracked, op, ws, kvmd>>

ReleaseAck(c, k) ==
    /\ pc[c] \in Releasing /\ NextToRelease(c, k)
    /\ down' = down \ {k}
    /\ tracked' = [tracked EXCEPT ![c] = @ \ {k}]
    /\ todo' = [todo EXCEPT ![c] = @ \ {k}]
    /\ UNCHANGED <<process, pc, failed, select, stream, virtual, op, ws, kvmdMode, selecting>>

(* Mutant of ReleaseFail: a release that failed is forgotten. *)
ReleaseFailForgets(c, k) ==
    /\ pc[c] \in Releasing /\ NextToRelease(c, k)
    /\ down' \in {down, down \ {k}}
    /\ todo' = [todo EXCEPT ![c] = @ \ {k}]
    /\ tracked' = [tracked EXCEPT ![c] = @ \ {k}]
    /\ UNCHANGED <<process, pc, failed, select, stream, virtual, op, ws, kvmdMode, selecting>>

(* A failed release may have been applied; it stays tracked either way.    *)
ReleaseFail(c, k) ==
    /\ pc[c] \in Releasing /\ NextToRelease(c, k)
    /\ down' \in {down, down \ {k}}
    /\ todo' = [todo EXCEPT ![c] = @ \ {k}]
    /\ UNCHANGED <<process, pc, failed, select, stream, lease, ws, kvmdMode, selecting>>

(* release() returned TRUE: the lease is over and busy clears. *)
ReleaseComplete(c) ==
    /\ pc[c] \in {"release", "rerelease"} /\ todo[c] = {} /\ tracked[c] = {}
    /\ busy' = FALSE
    /\ Forget({c})
    /\ UNCHANGED <<phase, stopping, failed, ws, kvmd>>

(* Mutant of ReleaseIncomplete: nobody retries the release. *)
ReleaseAbandoned(c) ==
    /\ pc[c] \in {"release", "rerelease"} /\ todo[c] = {} /\ tracked[c] # {}
    /\ Forget({c})
    /\ UNCHANGED <<process, failed, ws, kvmd>>

(* release() returned FALSE: retry_release takes the Lease over, busy      *)
(* stays; the task's loop tests stopping before it sleeps.                 *)
ReleaseIncomplete(c) ==
    /\ pc[c] \in {"release", "rerelease"} /\ todo[c] = {} /\ tracked[c] # {}
    /\ IF stopping
         THEN /\ pc' = [pc EXCEPT ![c] = "lastrelease"]
              /\ todo' = [todo EXCEPT ![c] = tracked[c]]
         ELSE pc' = [pc EXCEPT ![c] = "retry"] /\ todo' = todo
    /\ UNCHANGED <<process, failed, select, stream, lease, ws, kvmd>>

Retry(c) ==
    /\ pc[c] = "retry"
    /\ pc' = [pc EXCEPT ![c] = "rerelease"]
    /\ todo' = [todo EXCEPT ![c] = tracked[c]]
    /\ UNCHANGED <<process, failed, select, stream, lease, ws, kvmd>>

(* The last attempt of a stopping bridge; its result is ignored. *)
LastReleaseDone(c) ==
    /\ pc[c] = "lastrelease" /\ todo[c] = {}
    /\ Forget({c})
    /\ UNCHANGED <<process, failed, ws, kvmd>>

(***************************************************************************)
(* neutralize(): release every supported control, at start, in             *)
(* block_until_neutral and in the --release-all process.                   *)
(***************************************************************************)
SweepAck(k) ==
    /\ pc[Boot] = "sweep" /\ NextToRelease(Boot, k)
    /\ down' = down \ {k}
    /\ todo' = [todo EXCEPT ![Boot] = @ \ {k}]
    /\ UNCHANGED <<process, pc, failed, select, stream, lease, ws, kvmdMode, selecting>>

(* Mutant of SweepFail: the failure is not remembered. *)
SweepFailIgnored(k) ==
    /\ pc[Boot] = "sweep" /\ NextToRelease(Boot, k)
    /\ down' \in {down, down \ {k}}
    /\ todo' = [todo EXCEPT ![Boot] = @ \ {k}]
    /\ UNCHANGED <<process, pc, failed, select, stream, lease, ws, kvmdMode, selecting>>

SweepFail(k) ==
    /\ pc[Boot] = "sweep" /\ NextToRelease(Boot, k)
    /\ down' \in {down, down \ {k}}
    /\ failed' = TRUE
    /\ todo' = [todo EXCEPT ![Boot] = @ \ {k}]
    /\ UNCHANGED <<process, pc, select, stream, lease, ws, kvmdMode, selecting>>

SweepDone ==
    /\ pc[Boot] = "sweep" /\ todo[Boot] = {}
    /\ IF failed /\ phase # "post"
         THEN LeaveEarly(Boot)
         ELSE /\ pc' = [pc EXCEPT ![Boot] = "none"]
              /\ phase' = IF phase = "post" THEN "down" ELSE "run"
              /\ busy' = FALSE
              /\ UNCHANGED <<stopping, todo, failed, select, stream, lease>>
    /\ UNCHANGED <<ws, kvmd>>

(* recover()'s loop: try again, or give up because the bridge is stopping. *)
BootRetry ==
    /\ pc[Boot] = "wait"
    /\ pc' = [pc EXCEPT ![Boot] = IF stopping THEN "none" ELSE "check"]
    /\ UNCHANGED <<process, todo, failed, select, stream, lease, ws, kvmd>>

(***************************************************************************)
(* Process life cycle.                                                     *)
(***************************************************************************)
(* By the time a new process speaks to kvmd, a kvmd without lag has        *)
(* finished with what the old one's websocket left.                        *)
Settled == "lag" \in StreamFaults \/ \A c \in Clients : ws[c] = <<>>

Start ==
    /\ phase = "down" /\ Settled
    /\ phase' = "start"
    /\ pc' = [pc EXCEPT ![Boot] = "check"]
    /\ UNCHANGED <<busy, stopping, todo, failed, select, stream, lease, ws, kvmd>>

ReleaseAll ==
    /\ phase = "down" /\ Settled
    /\ phase' = "post"
    /\ pc' = [pc EXCEPT ![Boot] = "sweep"]
    /\ todo' = [todo EXCEPT ![Boot] = Controls]
    /\ failed' = FALSE
    /\ UNCHANGED <<busy, stopping, select, stream, lease, ws, kvmd>>

(* SIGTERM: close() stops the listener and waits until every accepted      *)
(* connection is closed (asyncio's Server.wait_closed).                    *)
Stop ==
    /\ phase = "run" /\ ~stopping
    /\ stopping' = TRUE
    /\ UNCHANGED <<phase, busy, pc, todo, failed, select, stream, lease, ws, kvmd>>

(* Then it cancels the handlers that are still cleaning up: the            *)
(* cancellation is no Exception, so flush() and release() end there.       *)
CancelHandlers ==
    LET D == {c \in Clients : pc[c] \in {"flush", "release"}}
    IN  /\ phase = "run" /\ stopping
        /\ \A c \in Clients : pc[c] \notin Connected
        /\ D # {}
        /\ Forget(D)
        /\ UNCHANGED <<process, failed, ws, kvmd>>

Exit ==
    /\ phase = "run" /\ stopping
    /\ \A t \in Tasks : pc[t] = "none"
    /\ phase' = "down" /\ busy' = FALSE /\ stopping' = FALSE
    /\ UNCHANGED <<pc, todo, failed, select, stream, lease, ws, kvmd>>

(* SIGKILL or a fault: everything the process knew is lost; kvmd keeps     *)
(* what is down and what it has received.                                  *)
Crash ==
    /\ phase # "down"
    /\ phase' = "down" /\ busy' = FALSE /\ stopping' = FALSE /\ failed' = FALSE
    /\ Forget(Tasks)
    /\ UNCHANGED <<ws, kvmd>>

(***************************************************************************)
(* kvmd and its websockets.                                                *)
(***************************************************************************)
Dispatch(c) ==
    /\ ws[c] # <<>>
    /\ down' = Effect(down, Head(ws[c]))
    /\ ws' = [ws EXCEPT ![c] = Tail(@)]
    /\ UNCHANGED <<process, pc, todo, failed, select, stream, lease, kvmdMode, selecting>>

StreamBreak(c) ==
    /\ stream[c] = "alive"
    /\ ws[c] = <<>> \/ "break" \in StreamFaults
    /\ stream' = [stream EXCEPT ![c] = "dead"]
    /\ ws' = [ws EXCEPT ![c] = <<>>]
    /\ UNCHANGED <<process, pc, todo, failed, select, lease, kvmd>>

(* kvmd may drop what a closed connection left unread. *)
DropClosed(c) ==
    /\ stream[c] = "none" /\ ws[c] # <<>>
    /\ ws' = [ws EXCEPT ![c] = <<>>]
    /\ UNCHANGED <<process, pc, todo, failed, select, stream, lease, kvmd>>

(* A selection that was accepted takes effect. *)
Select ==
    /\ selecting # "none"
    /\ kvmdMode' = selecting /\ selecting' = "none"
    /\ UNCHANGED <<process, pc, todo, failed, select, stream, lease, ws, down>>

CheckNext(t) == Refused(t) \/ Checked(t) \/ Offline(t) \/ WakeDown(t) \/ WakeUp(t)

HandlerNext(c) ==
    \/ Admit(c) \/ Hello(c) \/ SetParams(c) \/ OpenStream(c)
    \/ \E vk \in VKs : KeyDown(c, vk) \/ KeyUp(c, vk)
    \/ \E b \in Buttons : ButtonDown(c, b) \/ ButtonUp(c, b)
    \/ Send(c) \/ Sent(c) \/ Revoke(c) \/ FlushAndClose(c)
    \/ \E k \in Controls : ReleaseAck(c, k) \/ ReleaseFail(c, k)
    \/ ReleaseComplete(c) \/ ReleaseIncomplete(c) \/ Retry(c) \/ LastReleaseDone(c)

BootNext ==
    \/ \E k \in Controls : SweepAck(k) \/ SweepFail(k)
    \/ SweepDone \/ BootRetry

ProcessNext == Start \/ ReleaseAll \/ Stop \/ CancelHandlers \/ Exit \/ Crash

KvmdNext(c) == Dispatch(c) \/ StreamBreak(c) \/ DropClosed(c)

Next ==
    \/ \E t \in Tasks : CheckNext(t)
    \/ \E c \in Clients : HandlerNext(c) \/ KvmdNext(c)
    \/ BootNext
    \/ ProcessNext
    \/ Select

Spec == Init /\ [][Next]_vars

(***************************************************************************)
(* The bridge's tasks run when they can (asyncio), kvmd dispatches what it *)
(* has received, and of the attempts to release one control that a retry   *)
(* makes every 0.5 s kvmd acknowledges one in the end.                     *)
(***************************************************************************)
Fairness ==
    \A c \in Clients :
        /\ WF_vars(FlushAndClose(c)) /\ WF_vars(Dispatch(c)) /\ WF_vars(Retry(c))
        /\ WF_vars(ReleaseComplete(c)) /\ WF_vars(ReleaseIncomplete(c))
        /\ \A k \in Controls : /\ WF_vars(ReleaseAck(c, k) \/ ReleaseFail(c, k))
                               /\ SF_vars(ReleaseAck(c, k))

FairSpec == Spec /\ Fairness

(***************************************************************************)
(* Correctness.                                                            *)
(***************************************************************************)
(* Control k is down once the events of q are dispatched to a kvmd that    *)
(* holds the controls in held: the last edge of k decides.                 *)
HeldAfter(held, q, k) ==
    \/ k \in held /\ \A i \in 1 .. Len(q) : q[i].ctl # k
    \/ \E i \in 1 .. Len(q) :
          /\ q[i].ctl = k /\ q[i].down
          /\ \A j \in i + 1 .. Len(q) : q[j].ctl # k

WillHold(c, k) == HeldAfter(down, ws[c], k)

(* The lease is exclusive: from the moment a connection is admitted until  *)
(* its last tracked control is confirmed released, retries included, no    *)
(* other connection is admitted and no neutralize sweep runs               *)
(* (Server.busy, set before the first await of handle).                    *)
SingleOwner ==
    /\ \A c, d \in Clients : pc[c] \in Owning /\ pc[d] \in Owning => c = d
    /\ \A c \in Clients : pc[c] \in Owning => busy /\ phase = "run" /\ pc[Boot] = "none"

(* A bridge that would grant a lease has left nothing down and nothing on  *)
(* its way to kvmd, whatever requests timed out, were cancelled, failed or *)
(* were retried before; WakeKey is excepted (see NothingDownWhenFree).     *)
NeutralWhenFree ==
    phase = "run" /\ ~busy =>
        /\ down \subseteq {WakeKey}
        /\ \A c \in Clients : ws[c] = <<>>

(* As NeutralWhenFree without the exception: the wake() of check() "re-    *)
(* probes without visible side effects".                                   *)
NothingDownWhenFree ==
    phase = "run" /\ ~busy => down = {}

(* Whatever is down, or will be once the stream is dispatched, is tracked  *)
(* by the lease, so that release() gets to it (Lease.apply adds before its *)
(* await and discards after it).                                           *)
TrackedCoversDown ==
    \A c \in Clients : pc[c] \in Leased =>
        \A k \in Controls \ {WakeKey} : WillHold(c, k) => k \in tracked[c]

(* Aliases: between two events of a lease the target holds a key exactly   *)
(* when the client holds some virtual key of it, so a release of one alias *)
(* neither lets go of the key too early nor leaves it down.                *)
HeldMatchesVirtual ==
    \A c \in Clients : Idle(c) =>
        \A k \in Keys \ {WakeKey} :
            WillHold(c, k) <=> AliasHeld(virtual[c], k)

(* A client is served only while kvmd's mouse output is the one its hello  *)
(* asked for: "Select before acknowledging: even the first button/wheel    *)
(* uses this output" (server.py).                                          *)
ModeConfirmed ==
    \A c \in Clients : pc[c] = "serve" => kvmdMode = mode[c]

(* The part of ModeConfirmed that the read-back of select_mouse is worth:  *)
(* a client whose handler had to change the output keeps the one it asked  *)
(* for, whatever selections earlier handlers left behind when they were    *)
(* refused.  Only a client that found its output selected can lose it.     *)
OwnSelectionLasts ==
    \A c \in Clients : pc[c] = "serve" /\ tried[c] => kvmdMode = mode[c]

(* "Releases always use the acknowledged HTTP backend so a failed stream   *)
(* can never leave a key or button down" (lease.py): when the bridge is    *)
(* free again after a lease whose stream broke, or was never confirmed     *)
(* flushed, the target holds nothing.  WakeKey is excepted as above.       *)
StreamLeavesNothingDown ==
    phase = "run" /\ ~busy => down \subseteq {WakeKey}

(* Leases are accepted after a start only when one complete sweep was      *)
(* acknowledged, and then nothing at all is down, whatever the killed      *)
(* predecessor or the probing of check() left behind.                      *)
StartsNeutral ==
    [][pc[Boot] # "none" /\ phase' = "run" /\ ~busy' => down' = {}]_vars

(* A lease that ends is given back: cleanup, however often releases fail,  *)
(* leads to a bridge that accepts leases again, unless it is stopped.      *)
CleanupFreesLease ==
    \A c \in Clients :
        pc[c] \in Cleanup ~> (~busy \/ stopping \/ phase # "run")

(***************************************************************************)
(* The abstract lease this module implements.  Service is the time in      *)
(* which the bridge runs, is not stopping and is not neutralizing kvmd.    *)
(***************************************************************************)
Abstract == INSTANCE InputLease WITH
    Holders <- Clients,
    Residue <- {WakeKey},
    open <- phase = "run" /\ ~stopping /\ pc[Boot] = "none",
    holders <- {c \in Clients : pc[c] \in Owning},
    ending <- {c \in Clients : pc[c] \in Releasing \cup {"retry"}},
    held <- down

(* The bridge keeps the promise of InputLease: whatever is cancelled, lost *)
(* or retried in Server.handle, Lease.release, retry_release and           *)
(* block_until_neutral, each step is a step of the exclusive lease, seen   *)
(* from the target, or changes nothing there.                              *)
ImplementsLease == Abstract!Spec
==============================================================================
