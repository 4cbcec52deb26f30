--------------------------- MODULE HidServerProofs ---------------------------
(***************************************************************************)
(* Theorems about HidServer for any set of connections, keys, buttons and  *)
(* any stream backlog; the last one is that it implements InputLease.      *)
(***************************************************************************)
EXTENDS HidServer, TLAPS

USE DEF Checking, Admitted, Connected, Releasing, Cleanup, Leased, Owning, BootAt

(* kvmd's selection of a mouse output is not seen by anything else. *)
LEMMA OnlySelects ==
    ASSUME Select \/ UNCHANGED vars
    PROVE  /\ UNCHANGED <<phase, busy, stopping, pc, todo, failed, mode, tried>>
           /\ UNCHANGED <<stream, virtual, tracked, op, ws, down>>
BY DEF Select, vars, process, select, lease

(* A handler's end resets exactly its own entries. *)
LEMMA ForgetType ==
    ASSUME TypeOK, NEW D \in SUBSET Tasks, Forget(D)
    PROVE  /\ pc' \in [Tasks -> Owning \cup BootAt]
           /\ \A t \in Tasks : pc'[t] = IF t \in D THEN "none" ELSE pc[t]
           /\ \A c \in Clients : pc'[c] \in Owning \cup {"none"}
           /\ pc'[Boot] \in BootAt
           /\ \A c \in Clients : pc'[c] \in Checking \cup {"set"} => mode'[c] \in Modes
           /\ todo' \in [Tasks -> SUBSET Controls]
           /\ mode' \in [Clients -> Modes \cup {"none"}]
           /\ tried' \in [Clients -> BOOLEAN]
           /\ stream' \in [Clients -> {"none", "alive", "dead"}]
           /\ virtual' \in [Clients -> SUBSET VKs]
           /\ tracked' \in [Clients -> SUBSET Controls]
           /\ op' \in [Clients -> Ops]
BY HidAssumption DEF TypeOK, Forget, Ops, NoOp, Controls, Tasks

LEMMA LeaveEarlyType ==
    ASSUME TypeOK, NEW t \in Tasks, LeaveEarly(t), UNCHANGED ws,
           down' \in SUBSET Controls, kvmdMode' \in Modes, selecting' \in Modes \cup {"none"}
    PROVE  TypeOK'
<1>1. CASE t = Boot
  BY <1>1, HidAssumption, ZenonT(30) DEF TypeOK, LeaveEarly, Tasks, select, lease
<1>2. CASE t # Boot
  <2>1. t \in Clients /\ Forget({t})
    BY <1>2 DEF LeaveEarly, Tasks
  <2> QED BY <2>1, <1>2, ForgetType, HidAssumption DEF TypeOK, LeaveEarly, Tasks
<1> QED BY <1>1, <1>2

LEMMA TypeInit == Init => TypeOK
<1> SUFFICES ASSUME Init PROVE TypeOK
  OBVIOUS
<1>1. NoOp \in Ops
  BY HidAssumption DEF NoOp, Ops, Controls
<1>2. <<>> \in Seq(Events)
  OBVIOUS
<1>3. Boot \in Tasks /\ Clients \subseteq Tasks
  BY DEF Tasks
<1>4. op \in [Clients -> Ops] /\ ws \in [Clients -> Seq(Events)]
  BY <1>1, <1>2 DEF Init
<1>5. tried \in [Clients -> BOOLEAN] /\ busy \in BOOLEAN /\ stopping \in BOOLEAN /\ failed \in BOOLEAN
  BY Zenon DEF Init
<1> QED BY <1>3, <1>4, <1>5 DEF Init, TypeOK

LEMMA TypeStep == TypeOK /\ [Next]_vars => TypeOK'
<1> SUFFICES ASSUME TypeOK, [Next]_vars PROVE TypeOK'
  OBVIOUS
<1> USE HidAssumption
<1>1. ASSUME NEW t \in Tasks, CheckNext(t) PROVE TypeOK'
  <2>1. CASE Refused(t)
    BY <2>1, LeaveEarlyType DEF Refused, TypeOK, kvmd
  <2>2. CASE Checked(t)
    <3>1. CASE t = Boot
      <4>1. /\ pc' = [pc EXCEPT ![Boot] = "sweep"]
            /\ todo' = [todo EXCEPT ![Boot] = Controls]
            /\ failed' = FALSE
        BY <2>2, <3>1 DEF Checked, CheckedGoTo
      <4> QED BY <2>2, <4>1, ZenonT(30) DEF Checked, TypeOK, Tasks, process, select, lease, kvmd
    <3>2. CASE t # Boot
      <4>1. t \in Clients /\ CheckedGoTo(t) \in {"open", "check", "set"}
        BY <3>2 DEF Tasks, CheckedGoTo
      <4>2. pc' = [pc EXCEPT ![t] = CheckedGoTo(t)]
        BY <2>2 DEF Checked
      <4> QED BY <2>2, <3>2, <4>1, <4>2 DEF Checked, TypeOK, Tasks, process, select, lease, kvmd
    <3> QED BY <3>1, <3>2
  <2>3. CASE Offline(t)
    BY <2>3 DEF Offline, TypeOK, Tasks, process, select, lease, kvmd
  <2>4. CASE WakeDown(t)
    <3>1. /\ down' \in SUBSET Controls /\ kvmdMode' \in Modes /\ UNCHANGED ws
          /\ selecting' \in Modes \cup {"none"}
      BY <2>4 DEF WakeDown, TypeOK, Controls
    <3>2. CASE LeaveEarly(t)
      BY <3>1, <3>2, LeaveEarlyType
    <3>3. CASE ~LeaveEarly(t)
      <4>1. pc[t] \in Checking /\ pc' = [pc EXCEPT ![t] = "wakeup"]
        BY <2>4, <3>3 DEF WakeDown, Checking
      <4>2. UNCHANGED <<process, todo, failed, select, stream, lease>>
        BY <2>4, <3>3 DEF WakeDown
      <4>3. /\ pc' \in [Tasks -> Owning \cup BootAt]
            /\ \A c \in Clients : pc'[c] \in Owning \cup {"none"}
            /\ pc'[Boot] \in BootAt
        BY <4>1 DEF TypeOK, Tasks, Owning, Admitted, Checking, BootAt
      <4>4. \A c \in Clients : pc'[c] \in Checking \cup {"set"} => mode'[c] \in Modes
        BY <4>1, <4>2 DEF TypeOK, Tasks, Checking, select
      <4> QED BY <3>1, <4>2, <4>3, <4>4, Zenon DEF TypeOK, Tasks, process, select, lease
    <3> QED BY <3>2, <3>3
  <2>5. CASE WakeUp(t)
    <3>1. /\ down' \in SUBSET Controls /\ kvmdMode' \in Modes /\ UNCHANGED ws
          /\ selecting' \in Modes \cup {"none"}
      BY <2>5 DEF WakeUp, TypeOK, Controls
    <3>2. CASE LeaveEarly(t)
      BY <3>1, <3>2, LeaveEarlyType
    <3>3. CASE ~LeaveEarly(t)
      <4>1. pc[t] \in Checking /\ pc' = [pc EXCEPT ![t] = "recheck"]
        BY <2>5, <3>3 DEF WakeUp, Checking
      <4>2. UNCHANGED <<process, todo, failed, select, stream, lease>>
        BY <2>5, <3>3 DEF WakeUp
      <4>3. /\ pc' \in [Tasks -> Owning \cup BootAt]
            /\ \A c \in Clients : pc'[c] \in Owning \cup {"none"}
            /\ pc'[Boot] \in BootAt
        BY <4>1 DEF TypeOK, Tasks, Owning, Admitted, Checking, BootAt
      <4>4. \A c \in Clients : pc'[c] \in Checking \cup {"set"} => mode'[c] \in Modes
        BY <4>1, <4>2 DEF TypeOK, Tasks, Checking, select
      <4> QED BY <3>1, <4>2, <4>3, <4>4, Zenon DEF TypeOK, Tasks, process, select, lease
    <3> QED BY <3>2, <3>3
  <2> QED BY <1>1, <2>1, <2>2, <2>3, <2>4, <2>5 DEF CheckNext
<1>2. ASSUME NEW c \in Clients, HandlerNext(c) PROVE TypeOK'
  <2> USE DEF Tasks
  <2>1. CASE Admit(c)
    BY <2>1 DEF Admit, TypeOK, process, select, lease, kvmd
  <2>2. CASE Hello(c)
    BY <2>2 DEF Hello, TypeOK, process, select, lease, kvmd
  <2>3. CASE SetParams(c)
    <3>1. kvmdMode' \in Modes /\ selecting' \in Modes \cup {"none"} /\ UNCHANGED <<ws, down>>
      BY <2>3 DEF SetParams, TypeOK
    <3>2. CASE LeaveEarly(c)
      BY <3>1, <3>2, LeaveEarlyType DEF TypeOK
    <3>3. CASE ~LeaveEarly(c)
      <4>1. /\ pc' = [pc EXCEPT ![c] = "check"]
            /\ tried' = [tried EXCEPT ![c] = TRUE]
            /\ pc[c] = "set"
            /\ UNCHANGED <<process, todo, failed, mode, stream, lease>>
        BY <2>3, <3>3 DEF SetParams
      <4>2. tried' \in [Clients -> BOOLEAN]
        BY <4>1 DEF TypeOK
      <4> QED BY <3>1, <4>1, <4>2 DEF TypeOK, process, lease
    <3> QED BY <3>2, <3>3
  <2>4. CASE OpenStream(c)
    BY <2>4 DEF OpenStream, TypeOK, process, select, lease, kvmd
  <2>5. ASSUME NEW vk \in VKs, KeyDown(c, vk) PROVE TypeOK'
    <3>1. KeyOf[vk] \in Controls
      BY DEF Controls
    <3>2. virtual' \in [Clients -> SUBSET VKs]
      BY <2>5 DEF KeyDown, TypeOK
    <3>3. tracked' \in [Clients -> SUBSET Controls] /\ op' \in [Clients -> Ops]
      <4>1. CASE AliasHeld(virtual[c], KeyOf[vk])
        BY <2>5, <4>1 DEF KeyDown, TypeOK
      <4>2. CASE ~AliasHeld(virtual[c], KeyOf[vk])
        <5>1. [ctl |-> KeyOf[vk], down |-> TRUE, step |-> "tracked"] \in Ops
          BY <3>1 DEF Ops
        <5>2. /\ tracked' = [tracked EXCEPT ![c] = @ \cup {KeyOf[vk]}]
              /\ Await(c, KeyOf[vk], TRUE)
          BY <2>5, <4>2 DEF KeyDown
        <5> QED BY <3>1, <5>1, <5>2 DEF Await, TypeOK
      <4> QED BY <4>1, <4>2
    <3> QED BY <2>5, <3>2, <3>3 DEF KeyDown, TypeOK, process, select, kvmd
  <2>6. ASSUME NEW vk \in VKs, KeyUp(c, vk) PROVE TypeOK'
    <3>1. KeyOf[vk] \in Controls
      BY DEF Controls
    <3>2. virtual' \in [Clients -> SUBSET VKs]
      BY <2>6 DEF KeyUp, TypeOK
    <3>3. op' \in [Clients -> Ops]
      <4>1. op' = op \/ Await(c, KeyOf[vk], FALSE)
        BY <2>6 DEF KeyUp
      <4>2. [ctl |-> KeyOf[vk], down |-> FALSE, step |-> "tracked"] \in Ops
        BY <3>1 DEF Ops
      <4> QED BY <4>1, <4>2 DEF Await, TypeOK
    <3> QED BY <2>6, <3>2, <3>3 DEF KeyUp, TypeOK, process, select, kvmd
  <2>7. ASSUME NEW b \in Buttons, ButtonDown(c, b) PROVE TypeOK'
    BY <2>7 DEF ButtonDown, Idle, Await, TypeOK, Ops, Controls, process, select, kvmd
  <2>8. ASSUME NEW b \in Buttons, ButtonUp(c, b) PROVE TypeOK'
    BY <2>8 DEF ButtonUp, Idle, Await, TypeOK, Ops, Controls, process, select, kvmd
  <2>9. CASE Send(c)
    <3>1. op[c] \in Ops /\ op' \in [Clients -> Ops]
      BY <2>9, SMTT(30) DEF Send, TypeOK, Ops
    <3>2. [ctl |-> op[c].ctl, down |-> op[c].down] \in Events
      BY <3>1 DEF Ops, Events
    <3>3. ws' \in [Clients -> Seq(Events)]
      <4>1. ws[c] \in Seq(Events)
        BY DEF TypeOK
      <4>2. Append(ws[c], [ctl |-> op[c].ctl, down |-> op[c].down]) \in Seq(Events)
        BY <3>2, <4>1
      <4> QED BY <2>9, <4>2 DEF Send, TypeOK
    <3>4. down' \in SUBSET Controls
      BY <2>9, <3>1 DEF Send, Effect, TypeOK, Ops
    <3> QED BY <2>9, <3>1, <3>3, <3>4 DEF Send, TypeOK, process, select
  <2>10. CASE Sent(c)
    BY <2>10 DEF Sent, TypeOK, Ops, NoOp, Controls, process, select, kvmd
  <2>11. CASE Revoke(c)
    <3>1. NoOp \in Ops
      BY DEF NoOp, Ops, Controls
    <3>2. op' \in [Clients -> Ops]
      BY <2>11, <3>1 DEF Revoke, TypeOK
    <3>3. todo' \in [Tasks -> SUBSET Controls] /\ virtual' \in [Clients -> SUBSET VKs]
      <4>1. CASE stream[c] # "none"
        BY <2>11, <4>1 DEF Revoke, TypeOK
      <4>2. CASE stream[c] = "none"
        <5>1. tracked[c] \in SUBSET Controls /\ c \in Tasks
          BY DEF TypeOK
        <5>2. /\ todo' = [todo EXCEPT ![c] = tracked[c]]
              /\ virtual' = [virtual EXCEPT ![c] = {}]
          BY <2>11, <4>2 DEF Revoke
        <5> QED BY <5>1, <5>2 DEF TypeOK
      <4> QED BY <4>1, <4>2
    <3>4. /\ pc' \in [Tasks -> Owning \cup BootAt]
          /\ \A d \in Clients : pc'[d] \in Owning \cup {"none"}
          /\ pc'[Boot] \in BootAt
          /\ \A d \in Clients : pc'[d] \in Checking \cup {"set"} => mode[d] \in Modes
      <4>1. \E p \in {"flush", "release"} : pc' = [pc EXCEPT ![c] = p]
        BY <2>11 DEF Revoke
      <4> QED BY <4>1 DEF TypeOK
    <3> QED BY <2>11, <3>2, <3>3, <3>4 DEF Revoke, TypeOK, process, select, kvmd
  <2>12. CASE FlushAndClose(c)
    BY <2>12 DEF FlushAndClose, TypeOK, process, select, kvmd
  <2>13. ASSUME NEW k \in Controls, ReleaseAck(c, k) PROVE TypeOK'
    BY <2>13 DEF ReleaseAck, TypeOK, process, select
  <2>14. ASSUME NEW k \in Controls, ReleaseFail(c, k) PROVE TypeOK'
    BY <2>14 DEF ReleaseFail, TypeOK, process, select, lease
  <2>15. CASE ReleaseComplete(c)
    <3>1. Forget({c}) /\ {c} \in SUBSET Tasks
      BY <2>15 DEF ReleaseComplete
    <3> QED BY <2>15, <3>1, ForgetType DEF ReleaseComplete, TypeOK, kvmd
  <2>16. CASE ReleaseIncomplete(c)
    <3>1. todo' \in [Tasks -> SUBSET Controls]
      <4>1. todo' = todo \/ todo' = [todo EXCEPT ![c] = tracked[c]]
        BY <2>16 DEF ReleaseIncomplete
      <4> QED BY <4>1 DEF TypeOK
    <3>2. \E p \in {"retry", "lastrelease"} : pc' = [pc EXCEPT ![c] = p]
      BY <2>16 DEF ReleaseIncomplete
    <3> QED BY <2>16, <3>1, <3>2 DEF ReleaseIncomplete, TypeOK, process, select, lease, kvmd
  <2>17. CASE Retry(c)
    BY <2>17 DEF Retry, TypeOK, process, select, lease, kvmd
  <2>18. CASE LastReleaseDone(c)
    BY <2>18, ForgetType DEF LastReleaseDone, TypeOK, process, kvmd
  <2> QED
    BY <1>2, <2>1, <2>2, <2>3, <2>4, <2>5, <2>6, <2>7, <2>8, <2>9, <2>10, <2>11,
       <2>12, <2>13, <2>14, <2>15, <2>16, <2>17, <2>18 DEF HandlerNext
<1>3. CASE BootNext
  <2>1. ASSUME NEW k \in Controls, SweepAck(k) PROVE TypeOK'
    BY <2>1 DEF SweepAck, TypeOK, Tasks, process, select, lease
  <2>2. ASSUME NEW k \in Controls, SweepFail(k) PROVE TypeOK'
    BY <2>2 DEF SweepFail, TypeOK, Tasks, process, select, lease
  <2>3. CASE SweepDone
    <3>1. CASE failed /\ phase # "post"
      BY <2>3, <3>1, LeaveEarlyType DEF SweepDone, TypeOK, Tasks, kvmd
    <3>2. CASE ~(failed /\ phase # "post")
      BY <2>3, <3>2, ZenonT(30) DEF SweepDone, TypeOK, Tasks, select, lease, kvmd
    <3> QED BY <3>1, <3>2
  <2>4. CASE BootRetry
    BY <2>4 DEF BootRetry, TypeOK, Tasks, process, select, lease, kvmd
  <2> QED BY <1>3, <2>1, <2>2, <2>3, <2>4 DEF BootNext
<1>4. CASE ProcessNext
  <2>1. CASE Start
    BY <2>1 DEF Start, TypeOK, Tasks, select, lease, kvmd
  <2>2. CASE ReleaseAll
    BY <2>2 DEF ReleaseAll, TypeOK, Tasks, select, lease, kvmd
  <2>3. CASE Stop
    BY <2>3 DEF Stop, TypeOK, select, lease, kvmd
  <2>4. CASE CancelHandlers
    BY <2>4, ForgetType DEF CancelHandlers, TypeOK, Tasks, process, kvmd
  <2>5. CASE Exit
    BY <2>5 DEF Exit, TypeOK, select, lease, kvmd
  <2>6. CASE Crash
    BY <2>6, ForgetType DEF Crash, TypeOK, Tasks, kvmd
  <2> QED BY <1>4, <2>1, <2>2, <2>3, <2>4, <2>5, <2>6 DEF ProcessNext
<1>5. ASSUME NEW c \in Clients, KvmdNext(c) PROVE TypeOK'
  <2>1. CASE Dispatch(c)
    <3>1. ws[c] \in Seq(Events) /\ ws[c] # <<>>
      BY <2>1 DEF Dispatch, TypeOK
    <3>2. Head(ws[c]) \in Events /\ Tail(ws[c]) \in Seq(Events)
      BY <3>1
    <3>3. down' \in SUBSET Controls
      BY <2>1, <3>2 DEF Dispatch, Effect, TypeOK, Events
    <3>4. ws' \in [Clients -> Seq(Events)]
      BY <2>1, <3>2 DEF Dispatch, TypeOK
    <3> QED BY <2>1, <3>3, <3>4 DEF Dispatch, TypeOK, process, select, lease
  <2>2. CASE StreamBreak(c)
    BY <2>2 DEF StreamBreak, TypeOK, process, select, lease, kvmd
  <2>3. CASE DropClosed(c)
    BY <2>3 DEF DropClosed, TypeOK, process, select, lease, kvmd
  <2> QED BY <1>5, <2>1, <2>2, <2>3 DEF KvmdNext
<1>6. CASE Select \/ UNCHANGED vars
  <2>1. kvmdMode' \in Modes /\ selecting' \in Modes \cup {"none"}
    BY <1>6 DEF Select, vars, TypeOK
  <2> QED BY <1>6, <2>1, OnlySelects DEF TypeOK
<1> QED BY <1>1, <1>2, <1>3, <1>4, <1>5, <1>6 DEF Next

(* Type correctness of the bridge. *)
THEOREM TypeCorrect == Spec => []TypeOK
BY TypeInit, TypeStep, PTL DEF Spec

-----------------------------------------------------------------------------
(***************************************************************************)
(* Exclusive ownership.  SingleOwner is not inductive: it does not say     *)
(* where the Boot task can be.  BootPlace does: a running neutralization   *)
(* is either before the bridge listens, in the release process, or with    *)
(* busy set.                                                               *)
(***************************************************************************)
BootPlace ==
    /\ pc[Boot] \in Checking => phase \in {"start", "run"}
    /\ pc[Boot] = "wait" => phase = "run"
    /\ pc[Boot] = "sweep" => phase \in {"start", "run", "post"}
    /\ pc[Boot] # "none" /\ phase = "run" => busy

OwnerInv == TypeOK /\ SingleOwner /\ BootPlace

LEMMA ForgetOwner ==
    ASSUME OwnerInv, NEW c \in Clients, Forget({c}),
           UNCHANGED phase, busy' \in {busy, FALSE}, pc[c] \in Owning
    PROVE  SingleOwner' /\ BootPlace'
<1>1. c \in Tasks /\ Boot \in Tasks /\ Boot # c /\ Clients \subseteq Tasks
  BY HidAssumption DEF Tasks
<1>2. \A t \in Tasks : pc'[t] = IF t = c THEN "none" ELSE pc[t]
  BY <1>1 DEF Forget
<1> QED BY <1>1, <1>2 DEF OwnerInv, SingleOwner, BootPlace

LEMMA LeaveEarlyOwner ==
    ASSUME OwnerInv, NEW t \in Tasks, LeaveEarly(t),
           IF t = Boot THEN pc[t] # "none" /\ phase # "post" ELSE pc[t] \in Owning
    PROVE  SingleOwner' /\ BootPlace'
<1>1. CASE t = Boot
  BY <1>1, HidAssumption DEF LeaveEarly, OwnerInv, TypeOK, SingleOwner, BootPlace, Tasks
<1>2. CASE t # Boot
  BY <1>2, ForgetOwner DEF LeaveEarly, Tasks
<1> QED BY <1>1, <1>2

(* An owner that moves on to another of its control points disturbs nobody. *)
LEMMA ForwardOwner ==
    ASSUME OwnerInv, NEW c \in Clients, NEW p \in Owning, pc[c] \in Owning,
           pc' = [pc EXCEPT ![c] = p], UNCHANGED process
    PROVE  SingleOwner' /\ BootPlace'
BY HidAssumption DEF OwnerInv, TypeOK, SingleOwner, BootPlace, process, Tasks

LEMMA StayOwner ==
    ASSUME OwnerInv, UNCHANGED <<process, pc>>
    PROVE  SingleOwner' /\ BootPlace'
BY DEF OwnerInv, SingleOwner, BootPlace, process

LEMMA OwnerStep ==
    ASSUME OwnerInv, [Next]_vars
    PROVE  SingleOwner' /\ BootPlace'
<1> USE HidAssumption
<1>0. Boot \in Tasks /\ Clients \subseteq Tasks
  BY DEF Tasks
<1>1. ASSUME NEW t \in Tasks, CheckNext(t) PROVE SingleOwner' /\ BootPlace'
  <2>1. t = Boot => phase # "post" \/ pc[t] \in {"none", "sweep", "wait"}
    BY DEF OwnerInv, TypeOK, BootPlace
  <2>2. t = Boot \/ t \in Clients
    BY DEF Tasks
  <2>3. CASE Refused(t)
    <3>1. t = Boot => pc[t] \in Checking
      BY <2>3 DEF Refused, OwnerInv, TypeOK
    <3> QED BY <2>1, <2>2, <2>3, <3>1, LeaveEarlyOwner DEF Refused
  <2>4. CASE Checked(t)
    <3>1. CASE t = Boot
      <4>1. pc' = [pc EXCEPT ![Boot] = "sweep"] /\ UNCHANGED process /\ pc[Boot] \in Checking
        BY <2>4, <3>1 DEF Checked, CheckedGoTo
      <4> QED BY <1>0, <4>1 DEF OwnerInv, TypeOK, SingleOwner, BootPlace, process
    <3>2. CASE t # Boot
      <4>1. CheckedGoTo(t) \in Owning
        BY <3>2 DEF CheckedGoTo
      <4> QED BY <2>2, <2>4, <3>2, <4>1, ForwardOwner DEF Checked
    <3> QED BY <3>1, <3>2
  <2>5. CASE Offline(t)
    <3>1. PICK p \in {"wakedown", "recheck"} : pc' = [pc EXCEPT ![t] = p]
      BY <2>5 DEF Offline
    <3>2. CASE t = Boot
      BY <1>0, <2>5, <3>1, <3>2 DEF Offline, OwnerInv, TypeOK, SingleOwner, BootPlace, process
    <3>3. CASE t # Boot
      BY <2>2, <2>5, <3>1, <3>3, ForwardOwner DEF Offline
    <3> QED BY <3>2, <3>3
  <2>6. CASE WakeDown(t)
    <3>1. CASE LeaveEarly(t)
      BY <2>1, <2>2, <2>6, <3>1, LeaveEarlyOwner DEF WakeDown
    <3>2. CASE pc' = [pc EXCEPT ![t] = "wakeup"] /\ UNCHANGED process
      <4>1. CASE t = Boot
        BY <1>0, <2>6, <3>2, <4>1 DEF WakeDown, OwnerInv, TypeOK, SingleOwner, BootPlace, process
      <4>2. CASE t # Boot
        BY <2>2, <2>6, <3>2, <4>2, ForwardOwner DEF WakeDown
      <4> QED BY <4>1, <4>2
    <3> QED BY <2>6, <3>1, <3>2 DEF WakeDown
  <2>7. CASE WakeUp(t)
    <3>1. CASE LeaveEarly(t)
      BY <2>1, <2>2, <2>7, <3>1, LeaveEarlyOwner DEF WakeUp
    <3>2. CASE pc' = [pc EXCEPT ![t] = "recheck"] /\ UNCHANGED process
      <4>1. CASE t = Boot
        BY <1>0, <2>7, <3>2, <4>1 DEF WakeUp, OwnerInv, TypeOK, SingleOwner, BootPlace, process
      <4>2. CASE t # Boot
        BY <2>2, <2>7, <3>2, <4>2, ForwardOwner DEF WakeUp
      <4> QED BY <4>1, <4>2
    <3> QED BY <2>7, <3>1, <3>2 DEF WakeUp
  <2> QED BY <1>1, <2>3, <2>4, <2>5, <2>6, <2>7 DEF CheckNext
<1>2. ASSUME NEW c \in Clients, HandlerNext(c) PROVE SingleOwner' /\ BootPlace'
  <2>0. c # Boot /\ c \in Tasks
    BY <1>0
  <2>1. CASE Admit(c)
    BY <1>0, <2>0, <2>1 DEF Admit, OwnerInv, TypeOK, SingleOwner, BootPlace
  <2>2. CASE Hello(c)
    BY <2>2, ForwardOwner DEF Hello
  <2>3. CASE SetParams(c)
    <3>1. CASE LeaveEarly(c)
      BY <2>0, <2>3, <3>1, LeaveEarlyOwner DEF SetParams
    <3>2. CASE ~LeaveEarly(c)
      BY <2>3, <3>2, ForwardOwner DEF SetParams
    <3> QED BY <3>1, <3>2
  <2>4. CASE OpenStream(c)
    BY <2>4, ForwardOwner DEF OpenStream
  <2>5. CASE \E vk \in VKs : KeyDown(c, vk) \/ KeyUp(c, vk)
    BY <2>5, StayOwner DEF KeyDown, KeyUp
  <2>6. CASE \E b \in Buttons : ButtonDown(c, b) \/ ButtonUp(c, b)
    BY <2>6, StayOwner DEF ButtonDown, ButtonUp
  <2>7. CASE Send(c) \/ Sent(c)
    BY <2>7, StayOwner DEF Send, Sent
  <2>8. CASE Revoke(c)
    <3>1. PICK p \in {"flush", "release"} : pc' = [pc EXCEPT ![c] = p]
      BY <2>8 DEF Revoke
    <3> QED BY <2>8, <3>1, ForwardOwner DEF Revoke
  <2>9. CASE FlushAndClose(c)
    BY <2>9, ForwardOwner DEF FlushAndClose
  <2>10. CASE \E k \in Controls : ReleaseAck(c, k) \/ ReleaseFail(c, k)
    BY <2>10, StayOwner DEF ReleaseAck, ReleaseFail
  <2>11. CASE ReleaseComplete(c)
    BY <2>11, ForgetOwner DEF ReleaseComplete
  <2>12. CASE ReleaseIncomplete(c)
    <3>1. PICK p \in {"lastrelease", "retry"} : pc' = [pc EXCEPT ![c] = p]
      BY <2>12 DEF ReleaseIncomplete
    <3> QED BY <2>12, <3>1, ForwardOwner DEF ReleaseIncomplete
  <2>13. CASE Retry(c)
    BY <2>13, ForwardOwner DEF Retry
  <2>14. CASE LastReleaseDone(c)
    BY <2>14, ForgetOwner DEF LastReleaseDone, process
  <2> QED
    BY <1>2, <2>1, <2>2, <2>3, <2>4, <2>5, <2>6, <2>7, <2>8, <2>9, <2>10, <2>11,
       <2>12, <2>13, <2>14 DEF HandlerNext
<1>3. CASE BootNext
  <2>1. CASE \E k \in Controls : SweepAck(k) \/ SweepFail(k)
    BY <2>1, StayOwner DEF SweepAck, SweepFail
  <2>2. CASE SweepDone
    <3>1. CASE failed /\ phase # "post"
      BY <1>0, <2>2, <3>1, LeaveEarlyOwner DEF SweepDone
    <3>2. CASE ~(failed /\ phase # "post")
      BY <1>0, <2>2, <3>2 DEF SweepDone, OwnerInv, TypeOK, SingleOwner, BootPlace
    <3> QED BY <3>1, <3>2
  <2>3. CASE BootRetry
    BY <1>0, <2>3 DEF BootRetry, OwnerInv, TypeOK, SingleOwner, BootPlace, process
  <2> QED BY <1>3, <2>1, <2>2, <2>3 DEF BootNext
<1>4. CASE ProcessNext
  <2>1. CASE Start \/ ReleaseAll
    BY <1>0, <2>1 DEF Start, ReleaseAll, OwnerInv, TypeOK, SingleOwner, BootPlace
  <2>2. CASE Stop
    BY <2>2 DEF Stop, OwnerInv, SingleOwner, BootPlace
  <2>3. CASE CancelHandlers
    <3>1. PICK D \in SUBSET Clients : Forget(D)
      BY <2>3 DEF CancelHandlers
    <3>2. \A t \in Tasks : pc'[t] = IF t \in D THEN "none" ELSE pc[t]
      BY <3>1 DEF Forget
    <3>3. Boot \notin D
      BY <3>1
    <3> QED BY <1>0, <2>3, <3>2, <3>3 DEF CancelHandlers, OwnerInv, SingleOwner, BootPlace, process
  <2>4. CASE Exit
    BY <1>0, <2>4 DEF Exit, OwnerInv, SingleOwner, BootPlace
  <2>5. CASE Crash
    <3>1. \A t \in Tasks : pc'[t] = "none"
      BY <2>5 DEF Crash, Forget
    <3> QED BY <1>0, <3>1 DEF SingleOwner, BootPlace
  <2> QED BY <1>4, <2>1, <2>2, <2>3, <2>4, <2>5 DEF ProcessNext
<1>5. ASSUME NEW c \in Clients, KvmdNext(c) PROVE SingleOwner' /\ BootPlace'
  BY <1>5, StayOwner DEF KvmdNext, Dispatch, StreamBreak, DropClosed
<1>6. CASE Select \/ UNCHANGED vars
  BY <1>6, OnlySelects, StayOwner DEF process
<1> QED BY <1>1, <1>2, <1>3, <1>4, <1>5, <1>6 DEF Next

(* At most one connection owns the target's keyboard and mouse, and never  *)
(* together with a neutralization sweep: the busy flag that Server.handle  *)
(* sets before its first await, and that only a confirmed release clears,  *)
(* is enough, for any number of connections.                               *)
THEOREM ExclusiveLease == Spec => []SingleOwner
<1>1. Init => OwnerInv
  <2>1. Init => TypeOK
    BY TypeInit
  <2>2. Init => SingleOwner /\ BootPlace
    BY DEF Init, SingleOwner, BootPlace, Tasks
  <2> QED BY <2>1, <2>2 DEF OwnerInv
<1>2. OwnerInv /\ [Next]_vars => OwnerInv'
  BY TypeStep, OwnerStep DEF OwnerInv
<1>3. OwnerInv => SingleOwner
  BY DEF OwnerInv
<1> QED BY <1>1, <1>2, <1>3, PTL DEF Spec

-----------------------------------------------------------------------------
(***************************************************************************)
(* The selected mouse output.  An accepted selection takes effect late, so *)
(* one of a handler that was refused may still be due.  OwnSelectionLasts  *)
(* is not inductive: a handler that had to select and then reads its       *)
(* output back must know that nothing else is due.  It does: the output    *)
(* was another one when it sent its request, so what kvmd has now was      *)
(* selected since, and what is due, if anything, is its own request again. *)
(***************************************************************************)
Chose(c) == pc[c] = "set" \/ (tried[c] /\ pc[c] \in Checking \cup {"open", "serve"})

SelectInv ==
    \A c \in Clients :
        /\ pc[c] \in {"none", "hello"} => ~tried[c]
        /\ Chose(c) /\ kvmdMode = mode[c] => selecting \in {"none", mode[c]}
        /\ pc[c] \in {"open", "serve"} /\ tried[c] => kvmdMode = mode[c]

(* Where a handler may go without learning anything about the output. *)
Keeps(c) ==
    /\ pc'[c] \in {"none", "hello"} => ~tried'[c]
    /\ Chose(c)' => Chose(c) /\ mode'[c] = mode[c]
    /\ pc'[c] \in {"open", "serve"} /\ tried'[c] => pc[c] \in {"open", "serve"} /\ tried[c]

LEMMA SelectKept ==
    ASSUME SelectInv, UNCHANGED <<kvmdMode, selecting>>, \A c \in Clients : Keeps(c)
    PROVE  SelectInv'
BY DEF SelectInv, Keeps, Chose

LEMMA Stays ==
    ASSUME SelectInv, NEW c \in Clients, pc'[c] = pc[c], tried'[c] = tried[c], mode'[c] = mode[c]
    PROVE  Keeps(c)
BY DEF SelectInv, Keeps, Chose

(* A handler that ends forgets that it asked. *)
LEMMA ForgetSelect ==
    ASSUME SelectInv, NEW D \in SUBSET Tasks, Forget(D), UNCHANGED <<kvmdMode, selecting>>
    PROVE  SelectInv'
<1>1. Clients \subseteq Tasks
  BY DEF Tasks
<1>2. ASSUME NEW c \in Clients PROVE Keeps(c)
  <2>1. CASE c \in D
    <3>1. pc'[c] = "none" /\ ~tried'[c]
      BY <1>1, <2>1 DEF Forget
    <3> QED BY <3>1 DEF Keeps, Chose
  <2>2. CASE c \notin D
    BY <1>1, <2>2, Stays DEF Forget
  <2> QED BY <2>1, <2>2
<1> QED BY <1>2, SelectKept

LEMMA LeaveEarlySelect ==
    ASSUME TypeOK, SelectInv, NEW t \in Tasks, LeaveEarly(t), UNCHANGED <<kvmdMode, selecting>>
    PROVE  SelectInv'
<1>1. CASE t = Boot
  <2>1. \A c \in Clients : pc'[c] = pc[c] /\ mode'[c] = mode[c] /\ tried'[c] = tried[c]
    BY <1>1, HidAssumption DEF LeaveEarly, TypeOK, Tasks, select
  <2> QED BY <2>1, Stays, SelectKept
<1>2. CASE t # Boot
  BY <1>2, ForgetSelect DEF LeaveEarly
<1> QED BY <1>1, <1>2

(* check() sends a handler to select only when the output is another one,  *)
(* and lets it through only when the output read back is its own.          *)
LEMMA CheckSelect ==
    ASSUME TypeOK, SelectInv, NEW t \in Tasks, CheckNext(t)
    PROVE  SelectInv'
<1>1. UNCHANGED <<kvmdMode, selecting>>
  BY DEF CheckNext, Refused, Checked, Offline, WakeDown, WakeUp, kvmd
<1>2. CASE LeaveEarly(t)
  BY <1>1, <1>2, LeaveEarlySelect
<1>3. CASE ~LeaveEarly(t)
  <2>1. UNCHANGED <<mode, tried>> /\ pc[t] \in Checking
    BY <1>3 DEF CheckNext, Refused, Checked, Offline, WakeDown, WakeUp, select
  <2>2. PICK p \in Checking \cup {CheckedGoTo(t)} : pc' = [pc EXCEPT ![t] = p]
    BY <1>3 DEF CheckNext, Refused, Checked, Offline, WakeDown, WakeUp
  <2>3. \A c \in Clients : pc'[c] = IF c = t THEN p ELSE pc[c]
    BY <2>2 DEF TypeOK, Tasks
  <2>4. ASSUME t \in Clients
        PROVE  \/ p \in Checking
               \/ p = "open" /\ kvmdMode = mode[t]
               \/ p = "set" /\ kvmdMode # mode[t]
    BY <2>4, HidAssumption DEF CheckedGoTo
  <2>5. ASSUME NEW c \in Clients
        PROVE  /\ pc'[c] \in {"none", "hello"} => ~tried'[c]
               /\ Chose(c)' /\ kvmdMode' = mode'[c] => selecting' \in {"none", mode'[c]}
               /\ pc'[c] \in {"open", "serve"} /\ tried'[c] => kvmdMode' = mode'[c]
    <3>1. CASE c # t
      BY <1>1, <2>1, <2>3, <3>1 DEF SelectInv, Chose
    <3>2. CASE c = t
      BY <1>1, <2>1, <2>3, <2>4, <3>2 DEF SelectInv, Chose
    <3> QED BY <3>1, <3>2
  <2> QED BY <2>5 DEF SelectInv
<1> QED BY <1>2, <1>3

(* The handler that selects is the only one; its request replaces what is  *)
(* due, or leaves it.                                                      *)
LEMMA SetParamsSelect ==
    ASSUME OwnerInv, SelectInv, NEW c \in Clients, SetParams(c)
    PROVE  SelectInv'
<1>0. TypeOK /\ Clients \subseteq Tasks
  BY DEF OwnerInv, Tasks
<1>1. /\ pc[c] = "set" /\ kvmdMode' = kvmdMode /\ selecting' \in {selecting, mode[c]}
      /\ \A d \in Clients : d # c => pc[d] = "none" /\ ~tried[d]
  BY <1>0 DEF SetParams, OwnerInv, SingleOwner, TypeOK, SelectInv
<1>2. CASE LeaveEarly(c)
  <2>1. Forget({c})
    BY <1>2, HidAssumption DEF LeaveEarly
  <2>2. \A d \in Clients : pc'[d] = "none"
    BY <1>0, <1>1, <2>1 DEF Forget
  <2>3. ASSUME NEW d \in Clients PROVE ~tried'[d]
    <3>1. tried'[d] = IF d \in {c} THEN FALSE ELSE tried[d]
      BY <2>1 DEF Forget
    <3>2. CASE d = c BY <3>1, <3>2
    <3>3. CASE d # c BY <1>1, <3>1, <3>3
    <3> QED BY <3>2, <3>3
  <2> QED BY <2>2, <2>3 DEF SelectInv, Chose
<1>3. CASE ~LeaveEarly(c)
  <2>1. pc' = [pc EXCEPT ![c] = "check"] /\ tried' = [tried EXCEPT ![c] = TRUE] /\ mode' = mode
    BY <1>3 DEF SetParams
  <2>2. ASSUME NEW d \in Clients, d # c PROVE pc'[d] = "none" /\ ~tried'[d]
    BY <1>0, <1>1, <2>1, <2>2 DEF TypeOK
  <2>3. pc'[c] = "check"
    BY <1>0, <2>1 DEF TypeOK
  <2>4. kvmdMode = mode[c] => selecting \in {"none", mode[c]}
    BY <1>1 DEF SelectInv, Chose
  <2>5. kvmdMode' = mode'[c] => selecting' \in {"none", mode'[c]}
    BY <1>1, <2>1, <2>4
  <2> QED BY <2>2, <2>3, <2>5 DEF SelectInv, Chose
<1> QED BY <1>2, <1>3

LEMMA SelectStep ==
    ASSUME OwnerInv, SelectInv, [Next]_vars
    PROVE  SelectInv'
<1> USE HidAssumption
<1>0. TypeOK /\ Boot \in Tasks /\ Clients \subseteq Tasks /\ Boot \notin Clients
  BY DEF OwnerInv, Tasks
<1>1. ASSUME NEW t \in Tasks, CheckNext(t) PROVE SelectInv'
  BY <1>0, <1>1, CheckSelect
<1>2. ASSUME NEW c \in Clients, HandlerNext(c) PROVE SelectInv'
  <2>1. CASE SetParams(c)
    BY <2>1, SetParamsSelect
  <2>2. CASE Hello(c)
    <3>1. PICK m \in Modes : mode' = [mode EXCEPT ![c] = m]
      BY <2>2 DEF Hello
    <3>2. /\ pc[c] = "hello" /\ pc'[c] = "check"
          /\ \A d \in Clients : d # c => pc'[d] = pc[d] /\ mode'[d] = mode[d]
      BY <1>0, <2>2, <3>1 DEF Hello, TypeOK
    <3>3. UNCHANGED <<kvmdMode, selecting, tried>>
      BY <2>2 DEF Hello, kvmd
    <3>4. Keeps(c)
      BY <3>2, <3>3 DEF SelectInv, Keeps, Chose
    <3>5. ASSUME NEW d \in Clients, d # c PROVE Keeps(d)
      BY <3>2, <3>3, <3>5, Stays
    <3> QED BY <3>3, <3>4, <3>5, SelectKept
  <2>3. CASE ReleaseComplete(c) \/ LastReleaseDone(c)
    BY <1>0, <2>3, ForgetSelect DEF ReleaseComplete, LastReleaseDone, kvmd
  <2>4. CASE ~(SetParams(c) \/ Hello(c) \/ ReleaseComplete(c) \/ LastReleaseDone(c))
    <3>1. UNCHANGED <<mode, tried, kvmdMode, selecting>>
      BY <1>2, <2>4
         DEF HandlerNext, Admit, OpenStream, KeyDown, KeyUp, ButtonDown, ButtonUp, Send, Sent,
             Revoke, FlushAndClose, ReleaseAck, ReleaseFail, ReleaseIncomplete, Retry, select, kvmd
    <3>2. \A d \in Clients : d # c => pc'[d] = pc[d]
      BY <1>0, <1>2, <2>4
         DEF HandlerNext, Admit, OpenStream, KeyDown, KeyUp, ButtonDown, ButtonUp, Send, Sent,
             Revoke, FlushAndClose, ReleaseAck, ReleaseFail, ReleaseIncomplete, Retry, TypeOK
    <3>3. \/ pc'[c] = pc[c] \/ pc'[c] \in Cleanup
          \/ pc[c] = "none" /\ pc'[c] = "hello"
          \/ pc[c] = "open" /\ pc'[c] = "serve"
      BY <1>0, <1>2, <2>4
         DEF HandlerNext, Admit, OpenStream, KeyDown, KeyUp, ButtonDown, ButtonUp, Send, Sent,
             Revoke, FlushAndClose, ReleaseAck, ReleaseFail, ReleaseIncomplete, Retry, TypeOK
    <3>4. Keeps(c)
      BY <3>1, <3>3 DEF SelectInv, Keeps, Chose
    <3>5. ASSUME NEW d \in Clients, d # c PROVE Keeps(d)
      BY <3>1, <3>2, <3>5, Stays
    <3> QED BY <3>1, <3>4, <3>5, SelectKept
  <2> QED BY <2>1, <2>2, <2>3, <2>4
<1>3. ASSUME NEW c \in Clients, KvmdNext(c) PROVE SelectInv'
  <2>1. UNCHANGED <<pc, mode, tried, kvmdMode, selecting>>
    BY <1>3 DEF KvmdNext, Dispatch, StreamBreak, DropClosed, select, kvmd
  <2> QED BY <2>1, Stays, SelectKept
<1>4. CASE BootNext
  <2>1. CASE LeaveEarly(Boot)
    BY <1>0, <1>4, <2>1, LeaveEarlySelect
       DEF BootNext, SweepAck, SweepFail, SweepDone, BootRetry, kvmd
  <2>2. CASE ~LeaveEarly(Boot)
    <3>1. UNCHANGED <<mode, tried, kvmdMode, selecting>> /\ \A d \in Clients : pc'[d] = pc[d]
      BY <1>0, <1>4, <2>2
         DEF BootNext, SweepAck, SweepFail, SweepDone, BootRetry, TypeOK, select, kvmd
    <3> QED BY <3>1, Stays, SelectKept
  <2> QED BY <2>1, <2>2
<1>5. CASE ProcessNext
  <2>1. CASE Start \/ ReleaseAll \/ Stop \/ Exit
    <3>1. UNCHANGED <<mode, tried, kvmdMode, selecting>> /\ \A d \in Clients : pc'[d] = pc[d]
      BY <1>0, <2>1 DEF Start, ReleaseAll, Stop, Exit, TypeOK, select, kvmd
    <3> QED BY <3>1, Stays, SelectKept
  <2>2. CASE CancelHandlers
    BY <1>0, <2>2, ForgetSelect DEF CancelHandlers, kvmd
  <2>3. CASE Crash
    BY <2>3, ForgetSelect DEF Crash, kvmd
  <2> QED BY <1>5, <2>1, <2>2, <2>3 DEF ProcessNext
<1>6. CASE Select
  <2>1. UNCHANGED <<pc, mode, tried>> /\ kvmdMode' = selecting /\ selecting # "none"
        /\ selecting' = "none"
    BY <1>6 DEF Select, select
  <2>2. ASSUME NEW c \in Clients, pc[c] \in {"open", "serve"}, tried[c] PROVE selecting = mode[c]
    BY <2>1, <2>2 DEF SelectInv, Chose
  <2> QED BY <2>1, <2>2 DEF SelectInv, Chose
<1>7. CASE UNCHANGED vars
  BY <1>7, Stays, SelectKept DEF vars
<1> QED BY <1>1, <1>2, <1>3, <1>4, <1>5, <1>6, <1>7 DEF Next

(* A client whose handler had to change the mouse output is served with    *)
(* the output of its hello until its lease ends, for any set of            *)
(* connections and modes, whenever accepted selections take effect and     *)
(* whatever selections refused handlers have left due: select_mouse        *)
(* changes the output only after it has read another one, and goes on only *)
(* when it has read its own.                                               *)
THEOREM OwnSelectionHolds == Spec => []OwnSelectionLasts
<1>1. Init => OwnerInv /\ SelectInv
  BY TypeInit DEF Init, OwnerInv, SingleOwner, BootPlace, SelectInv, Chose, Tasks
<1>2. OwnerInv /\ SelectInv /\ [Next]_vars => OwnerInv' /\ SelectInv'
  BY TypeStep, OwnerStep, SelectStep DEF OwnerInv
<1>3. SelectInv => OwnSelectionLasts
  BY DEF SelectInv, OwnSelectionLasts
<1> QED BY <1>1, <1>2, <1>3, PTL DEF Spec

-----------------------------------------------------------------------------
(***************************************************************************)
(* What a queue of edges leaves down.                                      *)
(***************************************************************************)
LEMMA HeldEmpty ==
    ASSUME NEW held, NEW k PROVE HeldAfter(held, <<>>, k) <=> k \in held
BY DEF HeldAfter

(* Writing one more edge decides its own control and no other. *)
LEMMA HeldAppend ==
    ASSUME NEW held, NEW q \in Seq(Events), NEW e \in Events, NEW k
    PROVE  HeldAfter(held, Append(q, e), k) <=>
              IF e.ctl = k THEN e.down ELSE HeldAfter(held, q, k)
<1> DEFINE r == Append(q, e)
<1>1. Len(r) = Len(q) + 1 /\ Len(q) \in Nat
  OBVIOUS
<1>2. r[Len(q) + 1] = e /\ \A i \in 1 .. Len(q) : r[i] = q[i]
  OBVIOUS
<1> HIDE DEF r
<1>3. CASE e.ctl = k
  <2>1. e.down => HeldAfter(held, r, k)
    <3>1. \A j \in (Len(q) + 1) + 1 .. Len(r) : r[j].ctl # k
      BY <1>1
    <3> QED BY <1>1, <1>2, <1>3, <3>1 DEF HeldAfter
  <2>2. HeldAfter(held, r, k) => e.down
    <3> SUFFICES ASSUME HeldAfter(held, r, k) PROVE e.down
      OBVIOUS
    <3>1. Len(q) + 1 \in 1 .. Len(r)
      BY <1>1
    <3>2. PICK i \in 1 .. Len(r) : /\ r[i].ctl = k /\ r[i].down
                                   /\ \A j \in i + 1 .. Len(r) : r[j].ctl # k
      BY <1>2, <1>3, <3>1 DEF HeldAfter
    <3>3. i = Len(q) + 1
      BY <1>1, <1>2, <1>3, <3>2
    <3> QED BY <1>2, <3>2, <3>3
  <2> QED BY <1>3, <2>1, <2>2 DEF r, Events
<1>4. CASE e.ctl # k
  <2>1. \A i \in 1 .. Len(r) : r[i].ctl = k => i \in 1 .. Len(q) /\ r[i] = q[i]
    BY <1>1, <1>2, <1>4
  <2>2. \A i \in 1 .. Len(q) : i \in 1 .. Len(r) /\ r[i] = q[i]
    BY <1>1, <1>2
  <2>3. HeldAfter(held, r, k) => HeldAfter(held, q, k)
    BY <1>1, <2>1, <2>2 DEF HeldAfter
  <2>4. HeldAfter(held, q, k) => HeldAfter(held, r, k)
    BY <1>1, <2>1, <2>2 DEF HeldAfter
  <2> QED BY <1>4, <2>3, <2>4 DEF r
<1> QED BY <1>3, <1>4

(* Dispatching the oldest edge does not change what will be down. *)
LEMMA HeldDispatch ==
    ASSUME NEW held, NEW q \in Seq(Events), q # <<>>, NEW k
    PROVE  HeldAfter(Effect(held, Head(q)), Tail(q), k) <=> HeldAfter(held, q, k)
<1> DEFINE r == Tail(q)
           h == Effect(held, q[1])
<1>1. Len(q) \in Nat \ {0} /\ Len(r) = Len(q) - 1 /\ Head(q) = q[1]
  OBVIOUS
<1>2. \A i \in 1 .. Len(r) : r[i] = q[i + 1]
  OBVIOUS
<1>3. q[1].ctl # k => (k \in h <=> k \in held)
  BY DEF Effect
<1>4. q[1].ctl = k => (k \in h <=> q[1].down)
  <2>1. q[1] \in Events
    BY <1>1
  <2> QED BY <2>1 DEF Effect, Events
<1> HIDE DEF r, h
<1>5. (\A i \in 1 .. Len(q) : q[i].ctl # k) <=> q[1].ctl # k /\ \A i \in 1 .. Len(r) : r[i].ctl # k
  <2>1. \A i \in 1 .. Len(q) : i = 1 \/ (i - 1 \in 1 .. Len(r) /\ q[i] = r[i - 1])
    BY <1>1, <1>2
  <2>2. \A i \in 1 .. Len(r) : i + 1 \in 1 .. Len(q) /\ r[i] = q[i + 1]
    BY <1>1, <1>2
  <2>3. 1 \in 1 .. Len(q)
    BY <1>1
  <2> QED BY <2>1, <2>2, <2>3
<1> DEFINE Last(s, i) == s[i].ctl = k /\ s[i].down /\ \A j \in i + 1 .. Len(s) : s[j].ctl # k
<1>6. \A i \in 1 .. Len(r) : Last(r, i) => i + 1 \in 1 .. Len(q) /\ Last(q, i + 1)
  <2> SUFFICES ASSUME NEW i \in 1 .. Len(r), Last(r, i)
               PROVE  i + 1 \in 1 .. Len(q) /\ Last(q, i + 1)
    OBVIOUS
  <2>1. \A j \in (i + 1) + 1 .. Len(q) : j - 1 \in i + 1 .. Len(r) /\ q[j] = r[j - 1]
    BY <1>1, <1>2
  <2> QED BY <1>1, <1>2, <2>1
<1>7. \A i \in 1 .. Len(q) : i # 1 /\ Last(q, i) => i - 1 \in 1 .. Len(r) /\ Last(r, i - 1)
  <2> SUFFICES ASSUME NEW i \in 1 .. Len(q), i # 1, Last(q, i)
               PROVE  i - 1 \in 1 .. Len(r) /\ Last(r, i - 1)
    OBVIOUS
  <2>1. \A j \in (i - 1) + 1 .. Len(r) : j + 1 \in i + 1 .. Len(q) /\ r[j] = q[j + 1]
    BY <1>1, <1>2
  <2> QED BY <1>1, <1>2, <2>1
<1>8. Last(q, 1) <=> q[1].ctl = k /\ q[1].down /\ \A i \in 1 .. Len(r) : r[i].ctl # k
  <2>1. \A j \in 1 + 1 .. Len(q) : j - 1 \in 1 .. Len(r) /\ q[j] = r[j - 1]
    BY <1>1, <1>2
  <2>2. \A i \in 1 .. Len(r) : i + 1 \in 1 + 1 .. Len(q) /\ r[i] = q[i + 1]
    BY <1>1, <1>2
  <2> QED BY <2>1, <2>2
<1>9. HeldAfter(held, q, k) <=>
        \/ k \in held /\ \A i \in 1 .. Len(q) : q[i].ctl # k
        \/ \E i \in 1 .. Len(q) : Last(q, i)
  BY DEF HeldAfter
<1>10. HeldAfter(h, r, k) <=>
        \/ k \in h /\ \A i \in 1 .. Len(r) : r[i].ctl # k
        \/ \E i \in 1 .. Len(r) : Last(r, i)
  BY DEF HeldAfter
<1>11. 1 \in 1 .. Len(q)
  BY <1>1
<1> HIDE DEF Last
<1>12. HeldAfter(h, r, k) <=> HeldAfter(held, q, k)
  BY <1>3, <1>4, <1>5, <1>6, <1>7, <1>8, <1>9, <1>10, <1>11
<1> QED BY <1>1, <1>12 DEF r, h

-----------------------------------------------------------------------------
(***************************************************************************)
(* Neutrality.  With a stream that kvmd dispatches before flush() gives up *)
(* (StreamFaults = {}), NeutralWhenFree follows from an invariant that     *)
(* says, for every control point of an owner, what may be down, what may   *)
(* still be on its way and what the Lease tracks.                          *)
(***************************************************************************)
NoneStreamed == \A c \in Clients : ws[c] = <<>>

(* Nothing is down but WakeKey, and nothing is on its way. *)
Neutral == down \subseteq {WakeKey} /\ NoneStreamed

FreeNeutral == phase = "run" /\ ~busy => Neutral
AdmittedNeutral == \A c \in Clients : pc[c] \in Admitted => Neutral
BootNeutral ==
    /\ pc[Boot] # "none" => NoneStreamed
    /\ pc[Boot] = "sweep" /\ ~failed => down \subseteq todo[Boot]
OthersQuiet == \A c, d \in Clients : pc[c] \in Leased /\ d # c => ws[d] = <<>>
StreamQuiet ==
    \A c \in Clients :
        \/ pc[c] \in Releasing \cup {"retry"}
        \/ pc[c] \in {"serve", "flush"} /\ stream[c] # "alive"
        => ws[c] = <<>>
OpTracked ==
    \A c \in Clients :
        /\ pc[c] = "serve" /\ op[c].step # "idle" => op[c].ctl \in tracked[c]
        /\ pc[c] # "serve" => op[c].step = "idle"
UpIsLast ==
    \A c \in Clients :
        pc[c] = "serve" /\ op[c].step = "sent" /\ ~op[c].down => ~WillHold(c, op[c].ctl)

NeutralParts ==
    /\ FreeNeutral /\ AdmittedNeutral /\ BootNeutral
    /\ OthersQuiet /\ StreamQuiet
    /\ OpTracked /\ UpIsLast /\ TrackedCoversDown

NeutralInv == OwnerInv /\ NeutralParts

(* A handler that has no Lease yet moves on; at most WakeKey goes down. *)
LEMMA AdmittedMoves ==
    ASSUME NeutralInv, NEW c \in Clients, NEW p \in Admitted, pc[c] \in Admitted,
           pc' = [pc EXCEPT ![c] = p], UNCHANGED <<process, todo, failed, stream, lease, ws>>,
           down' \subseteq down \cup {WakeKey}
    PROVE  NeutralParts'
<1>1. Boot # c /\ Boot \in Tasks /\ c \in Tasks /\ Clients \subseteq Tasks
  BY HidAssumption DEF Tasks
<1>2. pc'[c] = p /\ \A t \in Tasks : t # c => pc'[t] = pc[t]
  BY <1>1 DEF NeutralInv, OwnerInv, TypeOK
<1>3. \A d \in Clients : d # c => pc[d] = "none"
  BY DEF NeutralInv, OwnerInv, TypeOK, SingleOwner
<1>4. pc[Boot] = "none" /\ busy
  BY DEF NeutralInv, OwnerInv, SingleOwner
<1>5. Neutral /\ Neutral'
  BY DEF NeutralInv, NeutralParts, AdmittedNeutral, Neutral, NoneStreamed
<1>6. FreeNeutral' /\ AdmittedNeutral' /\ BootNeutral'
  BY <1>1, <1>2, <1>4, <1>5 DEF FreeNeutral, AdmittedNeutral, BootNeutral, process
<1>7. OthersQuiet' /\ StreamQuiet' /\ UpIsLast' /\ TrackedCoversDown'
  BY <1>1, <1>2, <1>3 DEF OthersQuiet, StreamQuiet, UpIsLast, TrackedCoversDown
<1>8. OpTracked'
  BY <1>1, <1>2, <1>3 DEF NeutralInv, NeutralParts, OpTracked, lease
<1> QED BY <1>6, <1>7, <1>8 DEF NeutralParts

(* A handler ends with its lease confirmed released, or without a lease. *)
LEMMA HandlerEnds ==
    ASSUME NeutralInv, NEW c \in Clients, pc[c] \in Owning, Forget({c}),
           UNCHANGED <<phase, failed, ws>>, Neutral' \/ busy' = busy
    PROVE  NeutralParts'
<1>1. Boot # c /\ Boot \in Tasks /\ c \in Tasks /\ Clients \subseteq Tasks
  BY HidAssumption DEF Tasks
<1>2. \A t \in Tasks : pc'[t] = IF t = c THEN "none" ELSE pc[t]
  BY DEF Forget
<1>3. \A d \in Clients : d # c => pc[d] = "none"
  BY DEF NeutralInv, OwnerInv, TypeOK, SingleOwner
<1>4. pc[Boot] = "none" /\ busy
  BY DEF NeutralInv, OwnerInv, SingleOwner
<1>5. \A d \in Clients : pc'[d] = "none"
  BY <1>1, <1>2, <1>3
<1>6. FreeNeutral' /\ AdmittedNeutral' /\ BootNeutral'
  BY <1>1, <1>2, <1>4, <1>5 DEF FreeNeutral, AdmittedNeutral, BootNeutral
<1>7. OthersQuiet' /\ StreamQuiet' /\ UpIsLast' /\ TrackedCoversDown'
  BY <1>5 DEF OthersQuiet, StreamQuiet, UpIsLast, TrackedCoversDown
<1>8. OpTracked'
  <2>1. op'[c].step = "idle"
    BY DEF Forget, NoOp
  <2>2. \A d \in Clients : d # c => op'[d].step = "idle"
    BY <1>3 DEF NeutralInv, NeutralParts, OpTracked, Forget
  <2> QED BY <1>5, <2>1, <2>2 DEF OpTracked
<1> QED BY <1>6, <1>7, <1>8 DEF NeutralParts

(* Boot moves while nobody owns the lease. *)
LEMMA BootMoves ==
    ASSUME NeutralInv, pc[Boot] # "none", NEW p \in BootAt,
           pc' = [pc EXCEPT ![Boot] = p], UNCHANGED <<stream, lease, ws>>,
           p = "sweep" => (failed' \/ down' \subseteq todo'[Boot]),
           FreeNeutral'
    PROVE  NeutralParts'
<1>1. Boot \in Tasks /\ Clients \subseteq Tasks /\ Boot \notin Clients
  BY HidAssumption DEF Tasks
<1>2. pc'[Boot] = p /\ \A d \in Clients : pc[d] = "none" /\ pc'[d] = "none"
  BY <1>1 DEF NeutralInv, OwnerInv, TypeOK, SingleOwner
<1>3. NoneStreamed /\ NoneStreamed'
  BY DEF NeutralInv, NeutralParts, BootNeutral, NoneStreamed
<1>4. AdmittedNeutral' /\ BootNeutral'
  BY <1>2, <1>3 DEF AdmittedNeutral, BootNeutral
<1>5. OthersQuiet' /\ StreamQuiet' /\ UpIsLast' /\ TrackedCoversDown'
  BY <1>2 DEF OthersQuiet, StreamQuiet, UpIsLast, TrackedCoversDown
<1>6. OpTracked'
  BY <1>2 DEF NeutralInv, NeutralParts, OpTracked, lease
<1> QED BY <1>4, <1>5, <1>6 DEF NeutralParts

LEMMA LeaveEarlyNeutral ==
    ASSUME NeutralInv, NEW t \in Tasks, LeaveEarly(t),
           IF t = Boot THEN pc[t] # "none" ELSE pc[t] \in Admitted,
           down' \subseteq down \cup {WakeKey}, UNCHANGED ws
    PROVE  NeutralParts'
<1>1. CASE t = Boot
  <2>1. FreeNeutral'
    BY <1>1 DEF LeaveEarly, FreeNeutral
  <2> QED BY <1>1, <2>1, BootMoves DEF LeaveEarly, lease
<1>2. CASE t # Boot
  <2>1. t \in Clients /\ pc[t] \in Admitted
    BY <1>2 DEF Tasks
  <2>2. Neutral'
    BY <2>1 DEF NeutralInv, NeutralParts, AdmittedNeutral, Neutral, NoneStreamed
  <2> QED BY <1>2, <2>1, <2>2, HandlerEnds DEF LeaveEarly
<1> QED BY <1>1, <1>2

(* The part of the invariant that concerns the lease of c. *)
LeaseInv(c) ==
    /\ \A d \in Clients : d # c => ws[d] = <<>>
    /\ \/ pc[c] \in Releasing \cup {"retry"}
       \/ pc[c] \in {"serve", "flush"} /\ stream[c] # "alive"
       => ws[c] = <<>>
    /\ pc[c] = "serve" /\ op[c].step # "idle" => op[c].ctl \in tracked[c]
    /\ pc[c] # "serve" => op[c].step = "idle"
    /\ pc[c] = "serve" /\ op[c].step = "sent" /\ ~op[c].down => ~WillHold(c, op[c].ctl)
    /\ \A k \in Controls \ {WakeKey} : WillHold(c, k) => k \in tracked[c]

LEMMA LeaseInvHolds ==
    ASSUME NeutralInv, NEW c \in Clients, pc[c] \in Leased PROVE LeaseInv(c)
BY DEF NeutralInv, NeutralParts, LeaseInv, OthersQuiet, StreamQuiet, OpTracked, UpIsLast,
       TrackedCoversDown

(* A step of the owner that keeps the lease only has to keep LeaseInv. *)
LEMMA LeaseMoves ==
    ASSUME NeutralInv, NEW c \in Clients, pc[c] \in Owning, pc'[c] \in Leased,
           \A t \in Tasks : t # c => pc'[t] = pc[t],
           \A d \in Clients : d # c => op'[d] = op[d],
           UNCHANGED process, LeaseInv(c)'
    PROVE  NeutralParts'
<1>1. Boot # c /\ Boot \in Tasks /\ c \in Tasks /\ Clients \subseteq Tasks
  BY HidAssumption DEF Tasks
<1>2. \A d \in Clients : d # c => pc[d] = "none" /\ pc'[d] = "none"
  BY <1>1 DEF NeutralInv, OwnerInv, TypeOK, SingleOwner
<1>3. pc'[Boot] = "none" /\ busy
  BY <1>1 DEF NeutralInv, OwnerInv, SingleOwner
<1>4. FreeNeutral' /\ AdmittedNeutral' /\ BootNeutral'
  BY <1>2, <1>3 DEF FreeNeutral, AdmittedNeutral, BootNeutral, process
<1>5. OthersQuiet' /\ StreamQuiet'
  BY <1>2 DEF LeaseInv, OthersQuiet, StreamQuiet
<1>6. OpTracked'
  BY <1>2 DEF LeaseInv, OpTracked, NeutralInv, NeutralParts
<1>7. UpIsLast' /\ TrackedCoversDown'
  BY <1>2 DEF LeaseInv, UpIsLast, TrackedCoversDown
<1> QED BY <1>4, <1>5, <1>6, <1>7 DEF NeutralParts

(* The edge that leaves the bridge decides what its control will be, by    *)
(* either path.                                                            *)
LEMMA SendHolds ==
    ASSUME TypeOK, NEW c \in Clients, Send(c), stream[c] # "alive" => ws[c] = <<>>
    PROVE  \A k : WillHold(c, k)' <=> IF op[c].ctl = k THEN op[c].down ELSE WillHold(c, k)
<1>0. op[c] \in Ops /\ ws[c] \in Seq(Events)
  BY DEF TypeOK
<1>1. CASE stream[c] = "alive"
  <2> DEFINE e == [ctl |-> op[c].ctl, down |-> op[c].down]
  <2>1. e \in Events
    BY <1>0 DEF Ops, Events
  <2>2. ws'[c] = Append(ws[c], e) /\ down' = down
    BY <1>1 DEF Send, TypeOK
  <2>3. e.ctl = op[c].ctl /\ e.down = op[c].down
    OBVIOUS
  <2> HIDE DEF e
  <2> QED BY <1>0, <2>1, <2>2, <2>3, HeldAppend DEF WillHold
<1>2. CASE stream[c] # "alive"
  <2>1. ws[c] = <<>> /\ ws'[c] = <<>> /\ down' = Effect(down, op[c])
    BY <1>2 DEF Send
  <2>2. op[c].down \in BOOLEAN
    BY <1>0 DEF Ops
  <2>3. \A k : k \in down' <=> IF op[c].ctl = k THEN op[c].down ELSE k \in down
    BY <2>1, <2>2 DEF Effect
  <2> QED BY <2>1, <2>3, HeldEmpty DEF WillHold
<1> QED BY <1>1, <1>2

(* Lease.apply and the stream. *)
LEMMA ServeNeutral ==
    ASSUME NeutralInv, StreamFaults = {}, NEW c \in Clients,
           \/ OpenStream(c) \/ Send(c) \/ Sent(c)
           \/ \E vk \in VKs : KeyDown(c, vk) \/ KeyUp(c, vk)
           \/ \E b \in Buttons : ButtonDown(c, b) \/ ButtonUp(c, b)
    PROVE  NeutralParts'
<1> USE HidAssumption
<1>0. c \in Tasks /\ TypeOK /\ op[c] \in Ops /\ ws[c] \in Seq(Events)
  BY DEF NeutralInv, OwnerInv, TypeOK, Tasks
<1>1. CASE OpenStream(c)
  <2>1. Neutral
    BY <1>1 DEF OpenStream, NeutralInv, NeutralParts, AdmittedNeutral
  <2>2. op'[c].step = "idle" /\ pc'[c] = "serve" /\ UNCHANGED process
    BY <1>0, <1>1 DEF OpenStream, NeutralInv, NeutralParts, OpTracked, TypeOK, lease
  <2>3. \A k \in Controls \ {WakeKey} : ~WillHold(c, k)'
    BY <1>1, <2>1, HeldEmpty DEF OpenStream, WillHold, Neutral, NoneStreamed, kvmd
  <2>4. LeaseInv(c)'
    BY <1>1, <2>1, <2>2, <2>3 DEF LeaseInv, OpenStream, Neutral, NoneStreamed
  <2> QED BY <1>0, <1>1, <2>2, <2>4, LeaseMoves DEF OpenStream, TypeOK, lease
<1>2. CASE pc[c] = "serve" /\ UNCHANGED <<pc, process, stream>>
  <2>0. LeaseInv(c)
    BY <1>2, LeaseInvHolds
  <2>1. ASSUME UNCHANGED <<ws, down>>, op'[c].step = "tracked", op'[c].ctl \in tracked'[c],
               tracked[c] \subseteq tracked'[c], \A d \in Clients : d # c => op'[d] = op[d]
        PROVE  NeutralParts'
    <3>1. \A k : WillHold(c, k)' <=> WillHold(c, k)
      BY <2>1 DEF WillHold
    <3>2. LeaseInv(c)'
      BY <1>2, <2>0, <2>1, <3>1 DEF LeaseInv
    <3> QED BY <1>2, <2>1, <3>2, LeaseMoves
  <2>2. ASSUME NEW vk \in VKs, KeyDown(c, vk) PROVE NeutralParts'
    <3>1. CASE AliasHeld(virtual[c], KeyOf[vk])
      <4>1. UNCHANGED <<ws, down, tracked, op>>
        BY <2>2, <3>1 DEF KeyDown, kvmd
      <4>2. LeaseInv(c)'
        BY <1>2, <2>0, <4>1 DEF LeaseInv, WillHold
      <4> QED BY <1>2, <4>1, <4>2, LeaseMoves
    <3>2. CASE ~AliasHeld(virtual[c], KeyOf[vk])
      BY <1>0, <2>1, <2>2, <3>2 DEF KeyDown, Await, TypeOK, kvmd
    <3> QED BY <3>1, <3>2
  <2>3. ASSUME NEW vk \in VKs, KeyUp(c, vk) PROVE NeutralParts'
    <3>1. CASE op' = op
      <4>1. UNCHANGED <<ws, down, tracked, op>>
        BY <2>3, <3>1 DEF KeyUp, kvmd
      <4>2. LeaseInv(c)'
        BY <1>2, <2>0, <4>1 DEF LeaseInv, WillHold
      <4> QED BY <1>2, <4>1, <4>2, LeaseMoves
    <3>2. CASE Await(c, KeyOf[vk], FALSE) /\ KeyOf[vk] \in tracked[c]
      BY <1>0, <2>1, <2>3, <3>2 DEF KeyUp, Await, TypeOK, kvmd
    <3> QED BY <2>3, <3>1, <3>2 DEF KeyUp
  <2>4. ASSUME NEW b \in Buttons, ButtonDown(c, b) \/ ButtonUp(c, b) PROVE NeutralParts'
    BY <1>0, <2>1, <2>4 DEF ButtonDown, ButtonUp, Await, TypeOK, kvmd
  <2>5. CASE Send(c)
    <3>1. /\ op'[c] = [op[c] EXCEPT !.step = "sent"] /\ op[c].ctl \in tracked[c]
          /\ \A d \in Clients : d # c => op'[d] = op[d]
          /\ tracked' = tracked
      BY <1>0, <1>2, <2>0, <2>5 DEF Send, TypeOK, LeaseInv
    <3>2. op'[c].ctl = op[c].ctl /\ op'[c].down = op[c].down /\ op'[c].step = "sent"
      BY <1>0, <3>1 DEF Ops
    <3>3. \A k : WillHold(c, k)' <=> IF op[c].ctl = k THEN op[c].down ELSE WillHold(c, k)
      BY <1>0, <1>2, <2>0, <2>5, SendHolds DEF LeaseInv
    <3>4. /\ \A d \in Clients : d # c => ws'[d] = ws[d]
          /\ stream[c] # "alive" => ws'[c] = ws[c]
      BY <1>0, <2>5 DEF Send, TypeOK
    <3>5. LeaseInv(c)'
      BY <1>2, <2>0, <3>1, <3>2, <3>3, <3>4 DEF LeaseInv
    <3> QED BY <1>2, <3>1, <3>5, LeaseMoves
  <2>6. CASE Sent(c)
    <3>1. /\ op'[c].step = "idle" /\ \A d \in Clients : d # c => op'[d] = op[d]
          /\ UNCHANGED <<ws, down>>
          /\ tracked'[c] = IF op[c].down THEN tracked[c] ELSE tracked[c] \ {op[c].ctl}
      BY <1>0, <2>6 DEF Sent, TypeOK, NoOp, kvmd
    <3>2. \A k : WillHold(c, k)' <=> WillHold(c, k)
      BY <3>1 DEF WillHold
    <3>3. LeaseInv(c)'
      BY <1>2, <2>0, <2>6, <3>1, <3>2 DEF LeaseInv, Sent
    <3> QED BY <1>2, <3>1, <3>3, LeaseMoves
  <2> QED
    BY <1>2, <2>2, <2>3, <2>4, <2>5, <2>6 DEF OpenStream
<1>3. OpenStream(c) \/ (pc[c] = "serve" /\ UNCHANGED <<pc, process, stream>>)
  BY DEF KeyDown, KeyUp, ButtonDown, ButtonUp, Send, Sent, Idle
<1> QED BY <1>1, <1>2, <1>3

(* From the end of the connection to the confirmed release. *)
LEMMA CleanupNeutral ==
    ASSUME NeutralInv, StreamFaults = {}, NEW c \in Clients,
           \/ Revoke(c) \/ FlushAndClose(c)
           \/ \E k \in Controls : ReleaseAck(c, k) \/ ReleaseFail(c, k)
           \/ ReleaseComplete(c) \/ ReleaseIncomplete(c) \/ Retry(c) \/ LastReleaseDone(c)
    PROVE  NeutralParts'
<1> USE HidAssumption
<1>0. c \in Tasks /\ TypeOK /\ pc[c] \in Leased
  BY DEF NeutralInv, OwnerInv, TypeOK, Tasks, Revoke, FlushAndClose, ReleaseAck, ReleaseFail,
         ReleaseComplete, ReleaseIncomplete, Retry, LastReleaseDone
<1>1. LeaseInv(c)
  BY <1>0, LeaseInvHolds
<1>2. ASSUME NEW p \in Cleanup, pc' = [pc EXCEPT ![c] = p],
             UNCHANGED <<process, ws, down, tracked>>,
             op'[c].step = "idle", \A d \in Clients : d # c => op'[d] = op[d],
             p # "flush" \/ stream' = stream, p # "flush" => ws[c] = <<>>
      PROVE  NeutralParts'
  <2>1. pc'[c] = p /\ \A t \in Tasks : t # c => pc'[t] = pc[t]
    BY <1>0, <1>2 DEF TypeOK
  <2>2. \A k : WillHold(c, k)' <=> WillHold(c, k)
    BY <1>2 DEF WillHold
  <2>4. CASE p # "flush"
    <3>1. LeaseInv(c)'
      BY <1>1, <1>2, <2>1, <2>2, <2>4 DEF LeaseInv
    <3> QED BY <1>0, <1>2, <2>1, <3>1, LeaseMoves
  <2>5. CASE p = "flush"
    <3>1. stream[c] # "alive" => ws[c] = <<>>
      BY <1>0, <1>1 DEF LeaseInv
    <3>2. LeaseInv(c)'
      BY <1>1, <1>2, <2>1, <2>2, <2>5, <3>1 DEF LeaseInv
    <3> QED BY <1>0, <1>2, <2>1, <3>2, LeaseMoves
  <2> QED BY <2>4, <2>5
<1>3. CASE Revoke(c)
  <2>1. op'[c].step = "idle" /\ \A d \in Clients : d # c => op'[d] = op[d]
    BY <1>0, <1>3 DEF Revoke, TypeOK, NoOp
  <2>2. CASE stream[c] # "none"
    BY <1>2, <1>3, <2>1, <2>2 DEF Revoke, kvmd
  <2>3. CASE stream[c] = "none"
    <3>1. ws[c] = <<>>
      BY <1>1, <1>3, <2>3 DEF LeaseInv, Revoke
    <3> QED BY <1>2, <1>3, <2>1, <2>3, <3>1 DEF Revoke, kvmd
  <2> QED BY <2>2, <2>3
<1>4. CASE FlushAndClose(c)
  <2>1. op'[c].step = "idle" /\ op' = op /\ ws[c] = <<>>
    BY <1>1, <1>4 DEF FlushAndClose, LeaseInv
  <2> QED BY <1>2, <1>4, <2>1 DEF FlushAndClose, kvmd
<1>5. ASSUME NEW k \in Controls, ReleaseAck(c, k) \/ ReleaseFail(c, k) PROVE NeutralParts'
  <2>1. /\ ws[c] = <<>> /\ UNCHANGED <<ws, pc, process, op, stream>> /\ pc[c] \in Releasing
        /\ op[c].step = "idle"
    BY <1>1, <1>5 DEF ReleaseAck, ReleaseFail, LeaseInv, lease
  <2>2. \A x : WillHold(c, x)' <=> x \in down'
    BY <2>1, HeldEmpty DEF WillHold
  <2>3. \A x : WillHold(c, x) <=> x \in down
    BY <2>1, HeldEmpty DEF WillHold
  <2>4. \A x \in down' : x \in down /\ (x \in tracked[c] => x \in tracked'[c])
    <3>1. CASE ReleaseAck(c, k)
      BY <1>0, <3>1 DEF ReleaseAck, TypeOK
    <3>2. CASE ReleaseFail(c, k)
      BY <3>2 DEF ReleaseFail, lease
    <3> QED BY <1>5, <3>1, <3>2
  <2>5. LeaseInv(c)'
    BY <1>1, <2>1, <2>2, <2>3, <2>4 DEF LeaseInv
  <2> QED BY <1>0, <2>1, <2>5, LeaseMoves
<1>6. CASE ReleaseComplete(c)
  <2>1. ws[c] = <<>> /\ tracked[c] = {} /\ UNCHANGED <<ws, down>>
    BY <1>1, <1>6 DEF ReleaseComplete, LeaseInv, kvmd
  <2>2. \A k \in Controls \ {WakeKey} : k \notin down
    BY <1>1, <2>1, HeldEmpty DEF LeaseInv, WillHold
  <2>3. Neutral'
    BY <1>0, <1>1, <2>1, <2>2 DEF Neutral, NoneStreamed, LeaseInv, TypeOK
  <2> QED BY <1>0, <1>6, <2>3, HandlerEnds DEF ReleaseComplete
<1>7. CASE ReleaseIncomplete(c)
  <2>1. PICK p \in {"lastrelease", "retry"} : pc' = [pc EXCEPT ![c] = p]
    BY <1>7 DEF ReleaseIncomplete
  <2>2. op'[c].step = "idle" /\ op' = op /\ ws[c] = <<>> /\ tracked' = tracked
    BY <1>1, <1>7 DEF ReleaseIncomplete, LeaseInv, lease
  <2> QED BY <1>2, <1>7, <2>1, <2>2 DEF ReleaseIncomplete, kvmd
<1>8. CASE Retry(c)
  <2>1. op'[c].step = "idle" /\ op' = op /\ ws[c] = <<>> /\ tracked' = tracked
    BY <1>1, <1>8 DEF Retry, LeaseInv, lease
  <2> QED BY <1>2, <1>8, <2>1 DEF Retry, kvmd
<1>9. CASE LastReleaseDone(c)
  BY <1>0, <1>9, HandlerEnds DEF LastReleaseDone, process
<1> QED BY <1>3, <1>4, <1>5, <1>6, <1>7, <1>8, <1>9

(* check() and wake(), of a handler or of Boot. *)
LEMMA CheckNeutral ==
    ASSUME NeutralInv, NEW t \in Tasks, CheckNext(t)
    PROVE  NeutralParts'
<1> USE HidAssumption
<1>0. TypeOK /\ (t = Boot \/ t \in Clients)
  BY DEF NeutralInv, OwnerInv, Tasks
<1>1. IF t = Boot THEN pc[t] \in Checking ELSE pc[t] \in Admitted
  BY <1>0 DEF CheckNext, Refused, Checked, Offline, WakeDown, WakeUp, TypeOK
<1>2. UNCHANGED ws /\ down' \subseteq down \cup {WakeKey}
  BY DEF CheckNext, Refused, Checked, Offline, WakeDown, WakeUp, kvmd
<1>3. CASE LeaveEarly(t)
  BY <1>1, <1>2, <1>3, LeaveEarlyNeutral
<1>4. CASE ~LeaveEarly(t)
  <2>1. UNCHANGED <<process, stream, lease>>
    BY <1>4 DEF CheckNext, Refused, Checked, Offline, WakeDown, WakeUp
  <2>2. CASE t = Boot
    <3>1. FreeNeutral'
      BY <1>1, <2>1, <2>2 DEF FreeNeutral, NeutralInv, OwnerInv, BootPlace, process
    <3>2. CASE Checked(t)
      <4>1. /\ pc' = [pc EXCEPT ![Boot] = "sweep"]
            /\ todo'[Boot] = Controls /\ down' = down
        BY <1>0, <2>2, <3>2 DEF Checked, CheckedGoTo, TypeOK, Tasks, kvmd
      <4>2. down' \subseteq todo'[Boot]
        BY <1>0, <4>1 DEF TypeOK
      <4> QED BY <1>1, <1>2, <2>1, <2>2, <3>1, <4>1, <4>2, BootMoves
    <3>3. CASE ~Checked(t)
      <4>1. PICK p \in Checking : pc' = [pc EXCEPT ![Boot] = p]
        BY <1>4, <2>2, <3>3 DEF CheckNext, Refused, Offline, WakeDown, WakeUp
      <4> QED BY <1>1, <1>2, <2>1, <2>2, <3>1, <4>1, BootMoves
    <3> QED BY <3>2, <3>3
  <2>3. CASE t # Boot
    <3>1. UNCHANGED <<todo, failed>>
      BY <1>4, <2>3 DEF CheckNext, Refused, Checked, Offline, WakeDown, WakeUp
    <3>2. PICK p \in Admitted : pc' = [pc EXCEPT ![t] = p]
      <4>1. CheckedGoTo(t) \in Admitted
        BY <2>3 DEF CheckedGoTo
      <4> QED BY <1>4, <2>3, <4>1 DEF CheckNext, Refused, Checked, Offline, WakeDown, WakeUp
    <3> QED BY <1>0, <1>1, <1>2, <2>1, <2>3, <3>1, <3>2, AdmittedMoves
  <2> QED BY <2>2, <2>3
<1> QED BY <1>3, <1>4

LEMMA NeutralStep ==
    ASSUME NeutralInv, StreamFaults = {}, [Next]_vars
    PROVE  NeutralParts'
<1> USE HidAssumption
<1>0. /\ TypeOK /\ Boot \in Tasks /\ Clients \subseteq Tasks /\ Boot \notin Clients
  BY DEF NeutralInv, OwnerInv, Tasks
<1>1. ASSUME NEW t \in Tasks, CheckNext(t) PROVE NeutralParts'
  BY <1>1, CheckNeutral
<1>2. ASSUME NEW c \in Clients, HandlerNext(c) PROVE NeutralParts'
  <2>1. CASE Admit(c)
    <3>1. /\ Neutral /\ Neutral' /\ busy' /\ pc'[c] = "hello"
          /\ UNCHANGED <<pc[Boot], op>>
          /\ \A t \in Tasks : t # c => pc'[t] = pc[t]
      BY <1>0, <2>1 DEF Admit, TypeOK, NeutralInv, NeutralParts, FreeNeutral, Neutral, NoneStreamed,
                        lease, kvmd
    <3>2. pc[Boot] = "none" /\ \A d \in Clients : pc[d] = "none"
      BY <1>0, <2>1 DEF Admit, TypeOK, NeutralInv, OwnerInv, SingleOwner, BootPlace
    <3>3. FreeNeutral' /\ AdmittedNeutral' /\ BootNeutral'
      BY <3>1, <3>2 DEF FreeNeutral, AdmittedNeutral, BootNeutral
    <3>4. \A d \in Clients : pc'[d] \in {"none", "hello"}
      BY <1>0, <3>1, <3>2
    <3>5. OthersQuiet' /\ StreamQuiet' /\ UpIsLast' /\ TrackedCoversDown'
      BY <3>4 DEF OthersQuiet, StreamQuiet, UpIsLast, TrackedCoversDown
    <3>6. OpTracked'
      BY <3>1, <3>2, <3>4 DEF OpTracked, NeutralInv, NeutralParts
    <3> QED BY <3>3, <3>5, <3>6 DEF NeutralParts
  <2>2. CASE Hello(c)
    BY <2>2, AdmittedMoves DEF Hello, kvmd
  <2>3. CASE SetParams(c)
    <3>1. CASE LeaveEarly(c)
      BY <1>0, <2>3, <3>1, LeaveEarlyNeutral DEF SetParams
    <3>2. CASE ~LeaveEarly(c)
      BY <2>3, <3>2, AdmittedMoves DEF SetParams
    <3> QED BY <3>1, <3>2
  <2>4. CASE \/ OpenStream(c) \/ Send(c) \/ Sent(c)
             \/ \E vk \in VKs : KeyDown(c, vk) \/ KeyUp(c, vk)
             \/ \E b \in Buttons : ButtonDown(c, b) \/ ButtonUp(c, b)
    BY <2>4, ServeNeutral
  <2>5. CASE \/ Revoke(c) \/ FlushAndClose(c)
             \/ \E k \in Controls : ReleaseAck(c, k) \/ ReleaseFail(c, k)
             \/ ReleaseComplete(c) \/ ReleaseIncomplete(c) \/ Retry(c) \/ LastReleaseDone(c)
    BY <2>5, CleanupNeutral
  <2> QED BY <1>2, <2>1, <2>2, <2>3, <2>4, <2>5 DEF HandlerNext
<1>3. CASE BootNext
  <2>0. pc[Boot] # "none" /\ (phase = "run" => busy)
    BY <1>3 DEF BootNext, SweepAck, SweepFail, SweepDone, BootRetry, NeutralInv, OwnerInv, BootPlace
  <2>1. ASSUME NEW k \in Controls, SweepAck(k) \/ SweepFail(k) PROVE NeutralParts'
    <3>1. UNCHANGED <<process, pc, stream, lease, ws>> /\ pc[Boot] = "sweep"
      BY <2>1 DEF SweepAck, SweepFail
    <3>2. failed' \/ down' \subseteq todo'[Boot]
      <4>1. CASE SweepAck(k)
        BY <1>0, <4>1 DEF SweepAck, TypeOK, NeutralInv, NeutralParts, BootNeutral
      <4>2. CASE SweepFail(k)
        BY <4>2 DEF SweepFail
      <4> QED BY <2>1, <4>1, <4>2
    <3>3. FreeNeutral' /\ pc' = [pc EXCEPT ![Boot] = "sweep"]
      BY <1>0, <2>0, <3>1 DEF FreeNeutral, TypeOK, process
    <3> QED BY <3>1, <3>2, <3>3, BootMoves
  <2>2. CASE SweepDone
    <3>1. CASE LeaveEarly(Boot)
      BY <1>0, <2>2, <3>1, LeaveEarlyNeutral DEF SweepDone, kvmd
    <3>2. CASE ~LeaveEarly(Boot)
      <4>1. /\ pc' = [pc EXCEPT ![Boot] = "none"] /\ UNCHANGED <<stream, lease, ws, down>>
            /\ phase' = IF phase = "post" THEN "down" ELSE "run"
            /\ (~failed \/ phase = "post")
            /\ todo[Boot] = {} /\ pc[Boot] = "sweep"
        BY <2>2, <3>2 DEF SweepDone, kvmd
      <4>2. phase' = "run" => down' = {}
        BY <2>2, <4>1 DEF SweepDone, NeutralInv, NeutralParts, BootNeutral
      <4>3. NoneStreamed'
        BY <2>0, <4>1 DEF NeutralInv, NeutralParts, BootNeutral, NoneStreamed
      <4>4. FreeNeutral'
        BY <4>2, <4>3 DEF FreeNeutral, Neutral
      <4> QED BY <2>0, <4>1, <4>4, BootMoves
    <3> QED BY <3>1, <3>2
  <2>3. CASE BootRetry
    <3>1. FreeNeutral'
      BY <2>0, <2>3 DEF BootRetry, FreeNeutral, process
    <3>2. PICK p \in {"none", "check"} : pc' = [pc EXCEPT ![Boot] = p]
      BY <2>3 DEF BootRetry
    <3> QED BY <2>0, <2>3, <3>1, <3>2, BootMoves DEF BootRetry
  <2> QED BY <1>3, <2>1, <2>2, <2>3 DEF BootNext
<1>4. CASE ProcessNext
  <2>1. CASE Start \/ ReleaseAll
    <3>1. /\ NoneStreamed /\ UNCHANGED <<ws, down, op>> /\ phase' # "run" /\ phase # "run"
          /\ \A d \in Clients : pc'[d] = pc[d]
          /\ pc'[Boot] = "sweep" => todo'[Boot] = Controls
      BY <1>0, <2>1 DEF Start, ReleaseAll, Settled, NoneStreamed, TypeOK, lease, kvmd
    <3>2. \A d \in Clients : pc[d] = "none" /\ pc'[d] = "none"
      BY <1>0, <3>1 DEF TypeOK, NeutralInv, OwnerInv, SingleOwner
    <3>3. FreeNeutral' /\ AdmittedNeutral' /\ BootNeutral'
      BY <1>0, <3>1, <3>2 DEF FreeNeutral, AdmittedNeutral, BootNeutral, NoneStreamed, TypeOK
    <3>4. OthersQuiet' /\ StreamQuiet' /\ UpIsLast' /\ TrackedCoversDown'
      BY <3>2 DEF OthersQuiet, StreamQuiet, UpIsLast, TrackedCoversDown
    <3>5. OpTracked'
      BY <3>1, <3>2 DEF OpTracked, NeutralInv, NeutralParts
    <3> QED BY <3>3, <3>4, <3>5 DEF NeutralParts
  <2>2. CASE Stop
    BY <2>2 DEF Stop, NeutralInv, NeutralParts, FreeNeutral, AdmittedNeutral, BootNeutral, Neutral,
                NoneStreamed, OthersQuiet, StreamQuiet, OpTracked, UpIsLast, TrackedCoversDown,
                WillHold, lease, kvmd
  <2>3. CASE CancelHandlers
    <3>1. PICK c \in Clients : pc[c] \in {"flush", "release"}
      BY <2>3 DEF CancelHandlers
    <3>2. \A d \in Clients : pc[d] \in {"flush", "release"} <=> d = c
      BY <3>1 DEF NeutralInv, OwnerInv, SingleOwner
    <3>3. {d \in Clients : pc[d] \in {"flush", "release"}} = {c}
      BY <3>1, <3>2
    <3>4. Forget({c}) /\ UNCHANGED <<process, failed, ws>>
      BY <2>3, <3>3 DEF CancelHandlers
    <3> QED BY <3>1, <3>4, HandlerEnds DEF process
  <2>4. CASE Exit
    <3>1. \A t \in Tasks : pc'[t] = "none" /\ pc[t] = "none"
      BY <2>4 DEF Exit
    <3>2. OpTracked'
      BY <1>0, <2>4, <3>1 DEF Exit, OpTracked, NeutralInv, NeutralParts, lease
    <3> QED BY <1>0, <2>4, <3>1, <3>2
            DEF Exit, NeutralParts, FreeNeutral, AdmittedNeutral, BootNeutral, OthersQuiet,
                StreamQuiet, UpIsLast, TrackedCoversDown
  <2>5. CASE Crash
    <3>1. /\ \A t \in Tasks : pc'[t] = "none"
          /\ phase' = "down" /\ \A c \in Clients : op'[c] = NoOp
      BY <1>0, <2>5 DEF Crash, Forget
    <3>2. OpTracked'
      BY <1>0, <3>1 DEF OpTracked, NoOp
    <3> QED BY <1>0, <3>1, <3>2
            DEF NeutralParts, FreeNeutral, AdmittedNeutral, BootNeutral, OthersQuiet,
                StreamQuiet, UpIsLast, TrackedCoversDown
  <2> QED BY <1>4, <2>1, <2>2, <2>3, <2>4, <2>5 DEF ProcessNext
<1>5. ASSUME NEW c \in Clients, KvmdNext(c) PROVE NeutralParts'
  <2>0. UNCHANGED <<process, pc, todo, failed, lease>>
    BY <1>5 DEF KvmdNext, Dispatch, StreamBreak, DropClosed
  <2>1. CASE pc[c] \in Leased
    <3>0. LeaseInv(c) /\ ws[c] \in Seq(Events)
      BY <1>0, <2>1, LeaseInvHolds DEF TypeOK
    <3>1. CASE Dispatch(c)
      <4>1. \A k : WillHold(c, k)' <=> WillHold(c, k)
        BY <1>0, <3>0, <3>1, HeldDispatch DEF Dispatch, WillHold, TypeOK
      <4>2. \A d \in Clients : d # c => ws'[d] = <<>>
        BY <3>0, <3>1 DEF Dispatch, LeaseInv
      <4>3. LeaseInv(c)'
        BY <2>0, <3>0, <3>1, <4>1, <4>2 DEF LeaseInv, Dispatch, lease
      <4> QED BY <1>0, <2>0, <2>1, <4>3, LeaseMoves DEF lease
    <3>2. CASE StreamBreak(c)
      <4>1. ws[c] = <<>> /\ ws' = ws /\ down' = down
        BY <1>0, <3>2 DEF StreamBreak, TypeOK, kvmd
      <4>2. LeaseInv(c)'
        BY <2>0, <3>0, <4>1 DEF LeaseInv, WillHold, lease
      <4> QED BY <1>0, <2>0, <2>1, <4>2, LeaseMoves DEF lease
    <3>3. CASE DropClosed(c)
      BY <2>1, <3>0, <3>3 DEF DropClosed, LeaseInv
    <3> QED BY <1>5, <3>1, <3>2, <3>3 DEF KvmdNext
  <2>2. CASE pc[c] \notin Leased
    <3>1. CASE ws[c] = <<>>
      <4>1. ws' = ws /\ down' = down
        BY <1>0, <1>5, <3>1 DEF KvmdNext, Dispatch, StreamBreak, DropClosed, TypeOK, kvmd
      <4>2. \A d \in Clients : pc[d] \in {"serve", "flush"} => stream'[d] = stream[d]
        BY <1>0, <1>5, <2>2 DEF KvmdNext, Dispatch, StreamBreak, DropClosed, TypeOK
      <4>3. StreamQuiet'
        BY <2>0, <4>1, <4>2 DEF StreamQuiet, NeutralInv, NeutralParts
      <4> QED BY <2>0, <4>1, <4>3
              DEF NeutralInv, NeutralParts, FreeNeutral, AdmittedNeutral, BootNeutral, Neutral,
                  NoneStreamed, OthersQuiet, OpTracked, UpIsLast, TrackedCoversDown, WillHold,
                  process, lease
    <3>2. CASE ws[c] # <<>>
      <4>1. /\ ~(phase = "run" /\ ~busy) /\ pc[Boot] = "none"
            /\ \A d \in Clients : pc[d] \notin Owning
        <5>1. ~NoneStreamed
          BY <3>2 DEF NoneStreamed
        <5>2. \A d \in Clients : pc[d] \notin Leased
          BY <2>2, <3>2 DEF NeutralInv, NeutralParts, OthersQuiet
        <5> QED BY <5>1, <5>2 DEF NeutralInv, NeutralParts, FreeNeutral, AdmittedNeutral,
                                  BootNeutral, Neutral
      <4>2. OpTracked'
        BY <2>0 DEF OpTracked, NeutralInv, NeutralParts, lease
      <4> QED BY <2>0, <4>1, <4>2
              DEF NeutralParts, FreeNeutral, AdmittedNeutral, BootNeutral, OthersQuiet,
                  StreamQuiet, UpIsLast, TrackedCoversDown, process
    <3> QED BY <3>1, <3>2
  <2> QED BY <2>1, <2>2
<1>6. CASE Select \/ UNCHANGED vars
  BY <1>6, OnlySelects DEF NeutralInv, NeutralParts, FreeNeutral, AdmittedNeutral, BootNeutral, Neutral,
              NoneStreamed, OthersQuiet, StreamQuiet, OpTracked, UpIsLast, TrackedCoversDown,
              WillHold
<1> QED BY <1>1, <1>2, <1>3, <1>4, <1>5, <1>6 DEF Next

LEMMA NeutralInvariant ==
    ASSUME StreamFaults = {} PROVE Spec => []NeutralInv
<1>1. Init => NeutralInv
  <2> SUFFICES ASSUME Init PROVE NeutralInv
    OBVIOUS
  <2>1. OwnerInv
    BY TypeInit DEF Init, OwnerInv, SingleOwner, BootPlace, Tasks
  <2>2. NeutralParts
    BY DEF Init, NeutralParts, FreeNeutral, AdmittedNeutral, BootNeutral, OthersQuiet, StreamQuiet,
           OpTracked, UpIsLast, TrackedCoversDown, Tasks, NoOp
  <2> QED BY <2>1, <2>2 DEF NeutralInv
<1>2. NeutralInv /\ [Next]_vars => NeutralInv'
  BY TypeStep, OwnerStep, NeutralStep DEF NeutralInv, OwnerInv
<1> QED BY <1>1, <1>2, PTL DEF Spec

(* Whatever times out, is cancelled, fails, is retried or crashes, a       *)
(* bridge that would grant a lease holds nothing down but perhaps WakeKey, *)
(* and nothing of an earlier lease is on its way, provided kvmd dispatches *)
(* streamed events before flush() gives up and the stream never breaks     *)
(* with events undispatched.                                               *)
THEOREM FreeBridgeIsNeutral ==
    ASSUME StreamFaults = {} PROVE Spec => []NeutralWhenFree
<1>1. NeutralInv => NeutralWhenFree
  BY DEF NeutralInv, NeutralParts, FreeNeutral, Neutral, NoneStreamed, NeutralWhenFree
<1> QED BY <1>1, NeutralInvariant, PTL

(* Under the same assumption every control that is or will be down belongs *)
(* to the set that release() works through.                                *)
THEOREM LeaseTracksAll ==
    ASSUME StreamFaults = {} PROVE Spec => []TrackedCoversDown
<1>1. NeutralInv => TrackedCoversDown
  BY DEF NeutralInv, NeutralParts
<1> QED BY <1>1, NeutralInvariant, PTL

-----------------------------------------------------------------------------
(***************************************************************************)
(* Aliases.  HeldMatchesVirtual speaks of the moments between two events.  *)
(* AliasInv also covers an edge that Lease.apply is awaiting: until it is  *)
(* sent, the pending edge decides what the target will hold.               *)
(***************************************************************************)
Wanted(c, k) ==
    IF op[c].step = "tracked" /\ op[c].ctl = k THEN op[c].down ELSE WillHold(c, k)

AliasInv ==
    \A c \in Clients :
        /\ pc[c] \notin {"serve", "flush"} => virtual[c] = {}
        /\ pc[c] = "serve" =>
              \A k \in Keys \ {WakeKey} : AliasHeld(virtual[c], k) <=> Wanted(c, k)

(* Who is not served keeps AliasInv as long as his virtual keys are        *)
(* forgotten.                                                              *)
LEMMA AliasIdle ==
    ASSUME AliasInv,
           \A c \in Clients : /\ pc'[c] # "serve"
                              /\ virtual'[c] \in {virtual[c], {}}
                              /\ pc'[c] # "flush" /\ virtual'[c] # {} => pc[c] \notin {"serve", "flush"}
    PROVE  AliasInv'
BY DEF AliasInv

LEMMA ForgetAlias ==
    ASSUME OwnerInv, AliasInv, NEW c \in Clients, pc[c] \in Owning, Forget({c})
    PROVE  AliasInv'
<1>1. c \in Tasks /\ Clients \subseteq Tasks
  BY DEF Tasks
<1>2. \A d \in Clients : d # c => pc[d] = "none"
  BY DEF OwnerInv, TypeOK, SingleOwner
<1>3. \A d \in Clients : /\ pc'[d] = IF d = c THEN "none" ELSE pc[d]
                         /\ virtual'[d] = IF d = c THEN {} ELSE virtual[d]
  BY <1>1 DEF Forget
<1> QED BY <1>2, <1>3, AliasIdle

(* A step of the owner touches no lease but its own. *)
LEMMA AliasMoves ==
    ASSUME OwnerInv, AliasInv, NEW c \in Clients, pc[c] \in Owning,
           \A d \in Clients : d # c => pc'[d] = pc[d] /\ virtual'[d] = virtual[d],
           pc'[c] \notin {"serve", "flush"} => virtual'[c] = {},
           pc'[c] = "serve" =>
               \A k \in Keys \ {WakeKey} : AliasHeld(virtual'[c], k) <=> Wanted(c, k)'
    PROVE  AliasInv'
<1>1. \A d \in Clients : d # c => pc[d] = "none"
  BY DEF OwnerInv, TypeOK, SingleOwner
<1> QED BY <1>1 DEF AliasInv

(* Lease.apply and the stream. *)
LEMMA ServeAlias ==
    ASSUME NeutralInv, AliasInv, StreamFaults = {}, NEW c \in Clients,
           \/ OpenStream(c) \/ Send(c) \/ Sent(c)
           \/ \E vk \in VKs : KeyDown(c, vk) \/ KeyUp(c, vk)
           \/ \E b \in Buttons : ButtonDown(c, b) \/ ButtonUp(c, b)
    PROVE  AliasInv'
<1> USE HidAssumption
<1>0. c \in Tasks /\ OwnerInv /\ TypeOK /\ op[c] \in Ops /\ ws[c] \in Seq(Events)
  BY DEF NeutralInv, OwnerInv, TypeOK, Tasks
<1>1. CASE OpenStream(c)
  <2>1. Neutral /\ op[c].step = "idle" /\ virtual[c] = {}
    BY <1>1 DEF OpenStream, NeutralInv, NeutralParts, AdmittedNeutral, OpTracked, AliasInv
  <2>2. /\ UNCHANGED <<virtual, op, ws, down>> /\ pc'[c] = "serve"
        /\ \A d \in Clients : d # c => pc'[d] = pc[d]
    BY <1>0, <1>1 DEF OpenStream, TypeOK, Tasks, lease, kvmd
  <2>3. \A k \in Controls \ {WakeKey} : ~WillHold(c, k)'
    BY <2>1, <2>2, HeldEmpty DEF WillHold, Neutral, NoneStreamed
  <2>4. \A k \in Keys \ {WakeKey} : ~Wanted(c, k)' /\ ~AliasHeld(virtual'[c], k)
    BY <2>1, <2>2, <2>3 DEF Wanted, AliasHeld, Controls
  <2> QED BY <1>0, <1>1, <2>2, <2>4, AliasMoves DEF OpenStream
<1>2. CASE pc[c] = "serve" /\ pc' = pc
  <2>0. /\ LeaseInv(c)
        /\ \A k \in Keys \ {WakeKey} : AliasHeld(virtual[c], k) <=> Wanted(c, k)
    BY <1>2, LeaseInvHolds DEF AliasInv
  <2>1. ASSUME \A d \in Clients : d # c => virtual'[d] = virtual[d],
               \A k \in Keys \ {WakeKey} : AliasHeld(virtual'[c], k) <=> Wanted(c, k)'
        PROVE  AliasInv'
    BY <1>0, <1>2, <2>1, AliasMoves
  <2>2. ASSUME UNCHANGED <<ws, down>> PROVE \A k : WillHold(c, k)' <=> WillHold(c, k)
    BY <2>2 DEF WillHold
  <2>3. ASSUME NEW vk \in VKs, KeyDown(c, vk) PROVE AliasInv'
    <3>1. /\ \A d \in Clients : d # c => virtual'[d] = virtual[d]
          /\ virtual'[c] = virtual[c] \cup {vk} /\ op[c].step = "idle" /\ UNCHANGED <<ws, down>>
      BY <1>0, <2>3 DEF KeyDown, Idle, TypeOK, kvmd
    <3>2. \A k : AliasHeld(virtual'[c], k) <=> (AliasHeld(virtual[c], k) \/ k = KeyOf[vk])
      BY <3>1 DEF AliasHeld
    <3>3. CASE AliasHeld(virtual[c], KeyOf[vk])
      <4>1. op' = op
        BY <2>3, <3>3 DEF KeyDown
      <4>2. \A k : Wanted(c, k)' <=> Wanted(c, k)
        BY <2>2, <3>1, <4>1 DEF Wanted
      <4> QED BY <2>0, <2>1, <3>1, <3>2, <3>3, <4>2
    <3>4. CASE ~AliasHeld(virtual[c], KeyOf[vk])
      <4>1. op'[c] = [ctl |-> KeyOf[vk], down |-> TRUE, step |-> "tracked"]
        BY <1>0, <2>3, <3>4 DEF KeyDown, Await, TypeOK
      <4>2. \A k : Wanted(c, k)' <=> (k = KeyOf[vk] \/ Wanted(c, k))
        BY <2>2, <3>1, <4>1 DEF Wanted
      <4> QED BY <2>0, <2>1, <3>1, <3>2, <4>2
    <3> QED BY <3>3, <3>4
  <2>4. ASSUME NEW vk \in VKs, KeyUp(c, vk) PROVE AliasInv'
    <3>1. /\ \A d \in Clients : d # c => virtual'[d] = virtual[d]
          /\ virtual'[c] = virtual[c] \ {vk} /\ op[c].step = "idle" /\ UNCHANGED <<ws, down>>
      BY <1>0, <2>4 DEF KeyUp, Idle, TypeOK, kvmd
    <3>2. \A k : k # KeyOf[vk] => (AliasHeld(virtual'[c], k) <=> AliasHeld(virtual[c], k))
      BY <3>1 DEF AliasHeld
    <3>3. AliasHeld(virtual'[c], KeyOf[vk]) => AliasHeld(virtual[c], KeyOf[vk])
      BY <3>1 DEF AliasHeld
    <3>4. CASE op' = op
      <4>1. \A k : Wanted(c, k)' <=> Wanted(c, k)
        BY <2>2, <3>1, <3>4 DEF Wanted
      <4>2. CASE AliasHeld(virtual'[c], KeyOf[vk])
        BY <2>0, <2>1, <3>1, <3>2, <3>3, <4>1, <4>2
      <4>3. CASE ~AliasHeld(virtual'[c], KeyOf[vk])
        <5>1. KeyOf[vk] \notin tracked[c]
          <6>1. ASSUME KeyOf[vk] \in tracked[c] PROVE FALSE
            <7>1. op'[c].step = "tracked"
              BY <1>0, <2>4, <3>1, <4>3, <6>1 DEF KeyUp, Await, TypeOK
            <7> QED BY <3>1, <3>4, <7>1
          <6> QED BY <6>1
        <5>2. KeyOf[vk] \in Keys /\ KeyOf[vk] \in Controls
          BY DEF Controls
        <5>3. KeyOf[vk] # WakeKey => ~Wanted(c, KeyOf[vk])
          BY <2>0, <3>1, <5>1, <5>2 DEF LeaseInv, Wanted
        <5>4. \A k \in Keys \ {WakeKey} : AliasHeld(virtual'[c], k) <=> Wanted(c, k)
          BY <2>0, <3>2, <4>3, <5>3
        <5> QED BY <2>1, <3>1, <4>1, <5>4
      <4> QED BY <4>2, <4>3
    <3>5. CASE Await(c, KeyOf[vk], FALSE) /\ ~AliasHeld(virtual'[c], KeyOf[vk])
      <4>1. op'[c] = [ctl |-> KeyOf[vk], down |-> FALSE, step |-> "tracked"]
        BY <1>0, <3>5 DEF Await, TypeOK
      <4>2. \A k : Wanted(c, k)' <=> (k # KeyOf[vk] /\ Wanted(c, k))
        BY <2>2, <3>1, <4>1 DEF Wanted
      <4> QED BY <2>0, <2>1, <3>1, <3>2, <3>5, <4>2
    <3> QED BY <2>4, <3>1, <3>4, <3>5 DEF KeyUp
  <2>5. ASSUME NEW b \in Buttons, ButtonDown(c, b) \/ ButtonUp(c, b) PROVE AliasInv'
    <3>1. /\ op[c].step = "idle" /\ UNCHANGED <<virtual, ws, down>> /\ op'[c].ctl = b
      BY <1>0, <2>5 DEF ButtonDown, ButtonUp, Idle, Await, TypeOK, kvmd
    <3>2. \A k \in Keys : Wanted(c, k)' <=> Wanted(c, k)
      BY <2>2, <3>1 DEF Wanted
    <3> QED BY <2>0, <2>1, <3>1, <3>2
  <2>6. CASE Send(c)
    <3>1. op[c].step = "tracked" /\ op'[c].step = "sent" /\ virtual' = virtual
      BY <1>0, <2>6 DEF Send, TypeOK, Ops
    <3>2. \A k : WillHold(c, k)' <=> IF op[c].ctl = k THEN op[c].down ELSE WillHold(c, k)
      BY <1>0, <1>2, <2>0, <2>6, SendHolds DEF LeaseInv
    <3>3. \A k : Wanted(c, k)' <=> Wanted(c, k)
      BY <3>1, <3>2 DEF Wanted
    <3> QED BY <2>0, <2>1, <3>1, <3>3
  <2>7. CASE Sent(c)
    <3>1. op[c].step = "sent" /\ op'[c].step = "idle" /\ UNCHANGED <<virtual, ws, down>>
      BY <1>0, <2>7 DEF Sent, TypeOK, NoOp, kvmd
    <3>2. \A k : Wanted(c, k)' <=> Wanted(c, k)
      BY <2>2, <3>1 DEF Wanted
    <3> QED BY <2>0, <2>1, <3>1, <3>2
  <2> QED BY <1>2, <2>3, <2>4, <2>5, <2>6, <2>7 DEF OpenStream
<1>3. OpenStream(c) \/ (pc[c] = "serve" /\ pc' = pc)
  BY DEF KeyDown, KeyUp, ButtonDown, ButtonUp, Send, Sent, Idle
<1> QED BY <1>1, <1>2, <1>3

(* From the end of the connection to the confirmed release: release()      *)
(* starts by forgetting the virtual keys.                                  *)
LEMMA CleanupAlias ==
    ASSUME OwnerInv, AliasInv, NEW c \in Clients,
           \/ Revoke(c) \/ FlushAndClose(c)
           \/ \E k \in Controls : ReleaseAck(c, k) \/ ReleaseFail(c, k)
           \/ ReleaseComplete(c) \/ ReleaseIncomplete(c) \/ Retry(c) \/ LastReleaseDone(c)
    PROVE  AliasInv'
<1>0. c \in Tasks /\ Clients \subseteq Tasks /\ TypeOK
  BY DEF OwnerInv, Tasks
<1>1. CASE Forget({c})
  <2>1. pc[c] \in Owning
    BY DEF Revoke, FlushAndClose, ReleaseAck, ReleaseFail, ReleaseComplete, ReleaseIncomplete,
           Retry, LastReleaseDone
  <2> QED BY <1>1, <2>1, ForgetAlias
<1>2. CASE Revoke(c) \/ FlushAndClose(c)
  <2>1. /\ \A d \in Clients : d # c => pc'[d] = pc[d] /\ virtual'[d] = virtual[d]
        /\ pc'[c] \in {"flush", "release"} /\ (pc'[c] = "release" => virtual'[c] = {})
    BY <1>0, <1>2 DEF Revoke, FlushAndClose, TypeOK
  <2>2. pc[c] \in Owning
    BY <1>2 DEF Revoke, FlushAndClose
  <2> QED BY <2>1, <2>2, AliasMoves
<1>3. CASE \/ \E k \in Controls : ReleaseAck(c, k) \/ ReleaseFail(c, k)
           \/ ReleaseIncomplete(c) \/ Retry(c)
  <2>1. /\ \A d \in Clients : d # c => pc'[d] = pc[d]
        /\ pc'[c] \notin {"serve", "flush"} /\ pc[c] \in Owning /\ pc[c] \notin {"serve", "flush"}
    BY <1>0, <1>3 DEF ReleaseAck, ReleaseFail, ReleaseIncomplete, Retry, TypeOK
  <2>2. virtual' = virtual
    BY <1>3 DEF ReleaseAck, ReleaseFail, ReleaseIncomplete, Retry, lease
  <2>3. virtual[c] = {}
    BY <2>1 DEF AliasInv
  <2> QED BY <2>1, <2>2, <2>3, AliasMoves
<1> QED BY <1>1, <1>2, <1>3 DEF ReleaseComplete, LastReleaseDone

LEMMA AliasStep ==
    ASSUME NeutralInv, AliasInv, StreamFaults = {}, [Next]_vars
    PROVE  AliasInv'
<1> USE HidAssumption
<1>0. TypeOK /\ OwnerInv /\ Boot \in Tasks /\ Clients \subseteq Tasks /\ Boot \notin Clients
  BY DEF NeutralInv, OwnerInv, Tasks
<1>1. ASSUME NEW c \in Clients, pc[c] \in Admitted, NEW p \in Admitted,
             pc' = [pc EXCEPT ![c] = p], virtual' = virtual
      PROVE  AliasInv'
  <2>1. pc'[c] = p /\ (\A d \in Clients : d # c => pc'[d] = pc[d]) /\ virtual[c] = {}
    BY <1>0, <1>1 DEF TypeOK, AliasInv
  <2> QED BY <1>0, <1>1, <2>1, AliasMoves
<1>2. ASSUME pc[Boot] # "none" \/ phase # "run", virtual' = virtual,
             \A d \in Clients : pc'[d] = pc[d]
      PROVE  AliasInv'
  <2>1. \A d \in Clients : pc[d] = "none"
    BY <1>0, <1>2 DEF OwnerInv, SingleOwner, TypeOK
  <2> QED BY <1>2, <2>1, AliasIdle
<1>3. ASSUME NEW t \in Tasks, CheckNext(t) PROVE AliasInv'
  <2>1. CASE t = Boot
    <3>1. pc[Boot] # "none" /\ virtual' = virtual /\ \A d \in Clients : pc'[d] = pc[d]
      BY <1>0, <1>3, <2>1
         DEF CheckNext, Refused, Checked, Offline, WakeDown, WakeUp, LeaveEarly, TypeOK, lease
    <3> QED BY <1>2, <3>1
  <2>2. CASE t # Boot /\ LeaveEarly(t)
    <3>1. t \in Clients /\ pc[t] \in Owning /\ Forget({t})
      BY <1>3, <2>2
         DEF Tasks, CheckNext, Refused, Checked, Offline, WakeDown, WakeUp, LeaveEarly
    <3> QED BY <1>0, <3>1, ForgetAlias
  <2>3. CASE t # Boot /\ ~LeaveEarly(t)
    <3>1. t \in Clients /\ CheckedGoTo(t) \in Admitted
      BY <2>3 DEF Tasks, CheckedGoTo
    <3>2. pc[t] \in Admitted /\ virtual' = virtual
      BY <1>3, <2>3 DEF CheckNext, Refused, Checked, Offline, WakeDown, WakeUp, lease
    <3>3. PICK p \in Admitted : pc' = [pc EXCEPT ![t] = p]
      BY <1>3, <2>3, <3>1 DEF CheckNext, Refused, Checked, Offline, WakeDown, WakeUp
    <3> QED BY <1>1, <3>1, <3>2, <3>3
  <2> QED BY <2>1, <2>2, <2>3
<1>4. ASSUME NEW c \in Clients, HandlerNext(c) PROVE AliasInv'
  <2>1. CASE Admit(c)
    <3>1. \A d \in Clients : pc[d] = "none"
      BY <1>0, <2>1 DEF Admit, OwnerInv, SingleOwner, TypeOK
    <3>2. virtual' = virtual /\ \A d \in Clients : pc'[d] \in {"none", "hello"}
      BY <1>0, <2>1, <3>1 DEF Admit, TypeOK, lease
    <3> QED BY <3>1, <3>2, AliasIdle
  <2>2. CASE Hello(c) \/ SetParams(c)
    <3>1. CASE LeaveEarly(c)
      <4>1. Forget({c}) /\ pc[c] \in Owning
        BY <1>0, <2>2, <3>1 DEF LeaveEarly, Hello, SetParams
      <4> QED BY <1>0, <4>1, ForgetAlias
    <3>2. CASE ~LeaveEarly(c)
      BY <1>1, <2>2, <3>2 DEF Hello, SetParams, lease
    <3> QED BY <3>1, <3>2
  <2>3. CASE \/ OpenStream(c) \/ Send(c) \/ Sent(c)
             \/ \E vk \in VKs : KeyDown(c, vk) \/ KeyUp(c, vk)
             \/ \E b \in Buttons : ButtonDown(c, b) \/ ButtonUp(c, b)
    BY <2>3, ServeAlias
  <2>4. CASE \/ Revoke(c) \/ FlushAndClose(c)
             \/ \E k \in Controls : ReleaseAck(c, k) \/ ReleaseFail(c, k)
             \/ ReleaseComplete(c) \/ ReleaseIncomplete(c) \/ Retry(c) \/ LastReleaseDone(c)
    BY <1>0, <2>4, CleanupAlias
  <2> QED BY <1>4, <2>1, <2>2, <2>3, <2>4 DEF HandlerNext
<1>5. ASSUME NEW c \in Clients, KvmdNext(c) PROVE AliasInv'
  <2>0. UNCHANGED <<pc, virtual, op>>
    BY <1>5 DEF KvmdNext, Dispatch, StreamBreak, DropClosed, lease
  <2> SUFFICES ASSUME NEW d \in Clients, pc[d] = "serve"
               PROVE  \A k : WillHold(d, k)' <=> WillHold(d, k)
    <3>1. \A d \in Clients : pc[d] = "serve" =>
              \A k \in Keys : Wanted(d, k)' <=> Wanted(d, k)
      BY <2>0 DEF Wanted
    <3> QED BY <2>0, <3>1 DEF AliasInv
  <2>1. CASE c = d
    <3>0. LeaseInv(c) /\ ws[c] \in Seq(Events)
      BY <1>0, <2>1, LeaseInvHolds DEF TypeOK
    <3>1. CASE Dispatch(c)
      BY <1>0, <2>1, <3>0, <3>1, HeldDispatch DEF Dispatch, WillHold, TypeOK
    <3>2. CASE StreamBreak(c)
      BY <1>0, <2>1, <3>2 DEF StreamBreak, WillHold, TypeOK, kvmd
    <3>3. CASE DropClosed(c)
      BY <2>1, <3>0, <3>3 DEF DropClosed, LeaseInv
    <3> QED BY <1>5, <3>1, <3>2, <3>3 DEF KvmdNext
  <2>2. CASE c # d
    <3>1. ws[c] = <<>>
      BY <2>2 DEF NeutralInv, NeutralParts, OthersQuiet
    <3>2. UNCHANGED <<ws[d], down>>
      BY <1>0, <1>5, <2>2, <3>1 DEF KvmdNext, Dispatch, StreamBreak, DropClosed, TypeOK, kvmd
    <3> QED BY <3>2 DEF WillHold
  <2> QED BY <2>1, <2>2
<1>6. CASE BootNext
  <2>1. pc[Boot] # "none" /\ virtual' = virtual /\ \A d \in Clients : pc'[d] = pc[d]
    BY <1>0, <1>6
       DEF BootNext, SweepAck, SweepFail, SweepDone, BootRetry, LeaveEarly, TypeOK, lease
  <2> QED BY <1>2, <2>1
<1>7. CASE ProcessNext
  <2>1. CASE Start \/ ReleaseAll
    <3>1. phase # "run" /\ virtual' = virtual /\ \A d \in Clients : pc'[d] = pc[d]
      BY <1>0, <2>1 DEF Start, ReleaseAll, TypeOK, lease
    <3> QED BY <1>2, <3>1
  <2>2. CASE Stop \/ Exit
    BY <2>2 DEF Stop, Exit, AliasInv, Wanted, WillHold, lease, kvmd
  <2>3. CASE CancelHandlers
    <3>1. PICK c \in Clients : pc[c] \in {"flush", "release"}
      BY <2>3 DEF CancelHandlers
    <3>2. \A d \in Clients : pc[d] \in {"flush", "release"} <=> d = c
      BY <1>0, <3>1 DEF OwnerInv, SingleOwner
    <3>3. {d \in Clients : pc[d] \in {"flush", "release"}} = {c}
      BY <3>1, <3>2
    <3> QED BY <1>0, <2>3, <3>1, <3>3, ForgetAlias DEF CancelHandlers
  <2>4. CASE Crash
    <3>1. \A d \in Clients : pc'[d] = "none" /\ virtual'[d] = {}
      BY <1>0, <2>4 DEF Crash, Forget
    <3> QED BY <3>1, AliasIdle
  <2> QED BY <1>7, <2>1, <2>2, <2>3, <2>4 DEF ProcessNext
<1>8. CASE Select \/ UNCHANGED vars
  BY <1>8, OnlySelects DEF AliasInv, Wanted, WillHold
<1> QED BY <1>3, <1>4, <1>5, <1>6, <1>7, <1>8 DEF Next

(* For any keymap, however many virtual keys share a key, and any stream   *)
(* backlog: between two events the target holds a key exactly when the     *)
(* client holds some virtual key of it, provided the stream is dispatched  *)
(* before flush() gives up and does not break with events undispatched.    *)
THEOREM AliasesAgree ==
    ASSUME StreamFaults = {} PROVE Spec => []HeldMatchesVirtual
<1>1. Init => AliasInv
  BY DEF Init, AliasInv, Tasks
<1>2. NeutralInv /\ AliasInv /\ [Next]_vars => AliasInv'
  BY AliasStep
<1>3. AliasInv => HeldMatchesVirtual
  BY DEF AliasInv, Wanted, HeldMatchesVirtual, Idle
<1> QED BY <1>1, <1>2, <1>3, NeutralInvariant, PTL DEF Spec

-----------------------------------------------------------------------------
(* What kvmd has not dispatched belongs to a lease that is served or       *)
(* flushed, unless the bridge is on its way out.                           *)
StreamOwned ==
    phase = "run" /\ ~stopping =>
        \A c \in Clients : ws[c] # <<>> => pc[c] \in {"serve", "flush"}

LEMMA StreamOwnedStep ==
    ASSUME NeutralInv, StreamOwned, StreamFaults = {}, [Next]_vars
    PROVE  StreamOwned'
<1> USE HidAssumption
<1>0. TypeOK /\ Boot \in Tasks /\ Clients \subseteq Tasks /\ Boot \notin Clients
  BY DEF NeutralInv, OwnerInv, Tasks
<1>1. SUFFICES ASSUME phase' = "run", ~stopping', NEW c \in Clients, ws'[c] # <<>>
               PROVE  pc'[c] \in {"serve", "flush"}
  BY DEF StreamOwned
<1>2. CASE phase # "run"
  <2>1. NoneStreamed /\ ws' = ws
    <3>1. \A d \in Clients : pc[d] = "none"
      BY <1>0, <1>2 DEF NeutralInv, OwnerInv, TypeOK, SingleOwner
    <3>2. pc[Boot] # "none" /\ ws' = ws
      <4>1. ASSUME NEW t \in Tasks, CheckNext(t) PROVE t = Boot /\ pc[Boot] # "none" /\ ws' = ws
        BY <3>1, <4>1 DEF Tasks, CheckNext, Refused, Checked, Offline, WakeDown, WakeUp
      <4>2. ASSUME NEW d \in Clients PROVE ~HandlerNext(d)
        BY <1>2, <3>1 DEF HandlerNext, Admit, Hello, SetParams, OpenStream, KeyDown, KeyUp, ButtonDown,
              ButtonUp, Idle, Send, Sent, Revoke, FlushAndClose, ReleaseAck, ReleaseFail,
              ReleaseComplete, ReleaseIncomplete, Retry, LastReleaseDone
      <4>3. ASSUME NEW d \in Clients, KvmdNext(d) PROVE FALSE
        BY <1>1, <1>2, <4>3 DEF KvmdNext, Dispatch, StreamBreak, DropClosed, process
      <4>4. BootNext => pc[Boot] # "none" /\ ws' = ws
        BY DEF BootNext, SweepAck, SweepFail, SweepDone, BootRetry
      <4>5. ~ProcessNext
        BY <1>1, <1>2 DEF ProcessNext, Start, ReleaseAll, Stop, CancelHandlers, Exit, Crash
      <4>6. ~Select /\ vars' # vars
        BY <1>1, <1>2, OnlySelects
      <4> QED BY <4>1, <4>2, <4>3, <4>4, <4>5, <4>6 DEF Next
    <3> QED BY <3>2 DEF NeutralInv, NeutralParts, BootNeutral
  <2> QED BY <1>1, <2>1 DEF NoneStreamed
<1>3. CASE phase = "run"
  <2>0. ~stopping
    <3>1. ASSUME NEW t \in Tasks, CheckNext(t) PROVE stopping' = stopping
      BY <3>1 DEF CheckNext, Refused, Checked, Offline, WakeDown, WakeUp, LeaveEarly, process
    <3>2. ASSUME NEW d \in Clients, HandlerNext(d) PROVE stopping' = stopping
      BY <3>2 DEF HandlerNext, Admit, Hello, SetParams, OpenStream, KeyDown, KeyUp, ButtonDown,
              ButtonUp, Send, Sent, Revoke, FlushAndClose, ReleaseAck, ReleaseFail, LeaveEarly,
              ReleaseComplete, ReleaseIncomplete, Retry, LastReleaseDone, process
    <3>3. ASSUME NEW d \in Clients, KvmdNext(d) PROVE stopping' = stopping
      BY <3>3 DEF KvmdNext, Dispatch, StreamBreak, DropClosed, process
    <3>4. BootNext => stopping' = stopping
      BY DEF BootNext, SweepAck, SweepFail, SweepDone, BootRetry, LeaveEarly, process
    <3>5. ProcessNext => stopping' = stopping \/ stopping' = TRUE
      BY <1>1 DEF ProcessNext, Start, ReleaseAll, Stop, CancelHandlers, Exit, Crash, process
    <3> QED BY <1>1, <3>1, <3>2, <3>3, <3>4, <3>5, OnlySelects DEF Next
  <2>1. CASE ws[c] = <<>>
    <3>1. Send(c)
      <4>1. ASSUME NEW t \in Tasks, CheckNext(t) PROVE FALSE
        BY <1>1, <2>1, <4>1 DEF CheckNext, Refused, Checked, Offline, WakeDown, WakeUp
      <4>2. ASSUME NEW d \in Clients, HandlerNext(d), ~Send(d) PROVE FALSE
        BY <1>1, <2>1, <4>2 DEF HandlerNext, Admit, Hello, SetParams, OpenStream, KeyDown, KeyUp, ButtonDown,
              ButtonUp, Idle, Send, Sent, Revoke, FlushAndClose, ReleaseAck, ReleaseFail,
              ReleaseComplete, ReleaseIncomplete, Retry, LastReleaseDone
      <4>3. ASSUME NEW d \in Clients, Send(d), d # c PROVE FALSE
        BY <1>0, <1>1, <2>1, <4>3 DEF Send, TypeOK
      <4>4. ASSUME NEW d \in Clients, KvmdNext(d) PROVE FALSE
        BY <1>0, <1>1, <2>1, <4>4 DEF KvmdNext, Dispatch, StreamBreak, DropClosed, TypeOK
      <4>5. ~BootNext /\ ~ProcessNext
        BY <1>1, <2>1 DEF BootNext, SweepAck, SweepFail, SweepDone, BootRetry, ProcessNext, Start,
              ReleaseAll, Stop, CancelHandlers, Exit, Crash
      <4>6. ~Select /\ vars' # vars
        BY <1>1, <2>1, OnlySelects
      <4> QED BY <4>1, <4>2, <4>3, <4>4, <4>5, <4>6 DEF Next
    <3> QED BY <3>1 DEF Send
  <2>2. CASE ws[c] # <<>>
    <3>1. pc[c] \in {"serve", "flush"}
      BY <1>3, <2>0, <2>2 DEF StreamOwned
    <3>2. \A d \in Clients : d # c => pc[d] = "none"
      BY <3>1 DEF NeutralInv, OwnerInv, TypeOK, SingleOwner
    <3>3. pc[Boot] = "none" /\ busy
      BY <3>1 DEF NeutralInv, OwnerInv, SingleOwner
    <3>4. pc[c] = "serve" => stream[c] = "alive"
      BY <2>2 DEF NeutralInv, NeutralParts, StreamQuiet
    <3>5. CASE Revoke(c)
      BY <1>0, <3>4, <3>5 DEF Revoke, TypeOK
    <3>6. CASE ~Revoke(c)
      <4>1. ASSUME NEW t \in Tasks PROVE ~CheckNext(t)
        BY <3>1, <3>2, <3>3 DEF Tasks, CheckNext, Refused, Checked, Offline, WakeDown, WakeUp
      <4>2. ASSUME NEW d \in Clients, HandlerNext(d) PROVE pc' = pc
        BY <2>2, <3>1, <3>2, <3>3, <3>6, <4>2
           DEF HandlerNext, Admit, Hello, SetParams, OpenStream, KeyDown, KeyUp, ButtonDown,
              ButtonUp, Idle, Send, Sent, Revoke, FlushAndClose, ReleaseAck, ReleaseFail,
              ReleaseComplete, ReleaseIncomplete, Retry, LastReleaseDone
      <4>3. ASSUME NEW d \in Clients, KvmdNext(d) PROVE pc' = pc
        BY <4>3 DEF KvmdNext, Dispatch, StreamBreak, DropClosed
      <4>4. ~BootNext
        BY <3>3 DEF BootNext, SweepAck, SweepFail, SweepDone, BootRetry
      <4>5. ProcessNext => FALSE
        BY <1>1, <1>3, <2>0 DEF ProcessNext, Start, ReleaseAll, Stop, CancelHandlers, Exit, Crash
      <4>6. CASE pc' = pc
        BY <3>1, <4>6
      <4> QED BY <3>1, <4>1, <4>2, <4>3, <4>4, <4>5, <4>6, OnlySelects DEF Next
    <3> QED BY <3>5, <3>6
  <2> QED BY <2>1, <2>2
<1> QED BY <1>2, <1>3

-----------------------------------------------------------------------------
(***************************************************************************)
(* Restart.  BootNeutral needs no lease invariant, and holds even when the *)
(* stream may break: while Boot works, nobody owns the lease.              *)
(***************************************************************************)
LEMMA BootNeutralStep ==
    ASSUME OwnerInv, BootNeutral, "lag" \notin StreamFaults, [Next]_vars
    PROVE  /\ BootNeutral'
           /\ pc[Boot] # "none" /\ phase' = "run" /\ ~busy' => down' = {}
<1> USE HidAssumption
<1>0. TypeOK /\ Boot \in Tasks /\ Clients \subseteq Tasks /\ Boot \notin Clients
  BY DEF OwnerInv, Tasks
<1>1. CASE pc[Boot] = "none"
  <2>1. CASE Start \/ ReleaseAll
    <3>1. NoneStreamed /\ UNCHANGED <<ws, down>> /\ (pc'[Boot] = "sweep" => todo'[Boot] = Controls)
      BY <1>0, <2>1 DEF Start, ReleaseAll, Settled, NoneStreamed, TypeOK, kvmd
    <3> QED BY <1>0, <1>1, <3>1 DEF BootNeutral, NoneStreamed, TypeOK
  <2>2. CASE ~(Start \/ ReleaseAll)
    <3>1. ASSUME NEW t \in Tasks, CheckNext(t) PROVE pc'[Boot] = "none"
      <4>1. t \in Clients
        BY <1>0, <1>1, <3>1 DEF Tasks, CheckNext, Refused, Checked, Offline, WakeDown, WakeUp
      <4>2. CASE LeaveEarly(t)
        BY <1>0, <1>1, <4>1, <4>2 DEF LeaveEarly, Forget
      <4>3. CASE ~LeaveEarly(t)
        BY <1>0, <1>1, <3>1, <4>1, <4>3 DEF CheckNext, Refused, Checked, Offline, WakeDown, WakeUp, TypeOK
      <4> QED BY <4>2, <4>3
    <3>2. ASSUME NEW c \in Clients, HandlerNext(c) PROVE pc'[Boot] = "none"
      <4>1. CASE LeaveEarly(c) \/ Forget({c})
        BY <1>0, <1>1, <4>1 DEF LeaveEarly, Forget
      <4>2. CASE ~(LeaveEarly(c) \/ Forget({c}))
        BY <1>0, <1>1, <3>2, <4>2 DEF HandlerNext, Admit, Hello, SetParams, OpenStream, KeyDown, KeyUp,
              ButtonDown, ButtonUp, Send, Sent, Revoke, FlushAndClose, ReleaseAck, ReleaseFail,
              ReleaseComplete, ReleaseIncomplete, Retry, LastReleaseDone, TypeOK
      <4> QED BY <4>1, <4>2
    <3>3. ASSUME NEW c \in Clients, KvmdNext(c) PROVE pc'[Boot] = "none"
      BY <1>1, <3>3 DEF KvmdNext, Dispatch, StreamBreak, DropClosed
    <3>4. ~BootNext
      BY <1>1 DEF BootNext, SweepAck, SweepFail, SweepDone, BootRetry
    <3>5. ProcessNext => pc'[Boot] = "none"
      BY <1>0, <1>1, <2>2 DEF ProcessNext, Stop, CancelHandlers, Exit, Crash, Forget
    <3>6. pc'[Boot] = "none"
      BY <1>1, <3>1, <3>2, <3>3, <3>4, <3>5, OnlySelects DEF Next
    <3> QED BY <1>1, <3>6 DEF BootNeutral
  <2> QED BY <2>1, <2>2
<1>2. CASE pc[Boot] # "none"
  <2>0. /\ NoneStreamed /\ \A c \in Clients : pc[c] = "none"
        /\ phase = "run" => busy
    BY <1>0, <1>2 DEF BootNeutral, OwnerInv, TypeOK, SingleOwner, BootPlace
  <2>1. CASE \E t \in Tasks : CheckNext(t)
    <3>1. CheckNext(Boot) /\ pc[Boot] \in Checking
      <4>1. PICK t \in Tasks : CheckNext(t)
        BY <2>1
      <4>2. pc[t] # "none"
        BY <4>1 DEF CheckNext, Refused, Checked, Offline, WakeDown, WakeUp
      <4>3. t = Boot
        BY <2>0, <4>2 DEF Tasks
      <4> QED BY <1>0, <4>1, <4>3 DEF CheckNext, Refused, Checked, Offline, WakeDown, WakeUp, TypeOK
    <3>2. ws' = ws /\ (phase' = "run" => busy')
      BY <2>0, <3>1 DEF CheckNext, Refused, Checked, Offline, WakeDown, WakeUp, LeaveEarly, process
    <3>3. pc'[Boot] = "sweep" => todo'[Boot] = Controls /\ down' = down
      BY <1>0, <3>1 DEF CheckNext, Refused, Checked, Offline, WakeDown, WakeUp, LeaveEarly, CheckedGoTo,
                        TypeOK, kvmd
    <3> QED BY <1>0, <2>0, <3>2, <3>3 DEF BootNeutral, NoneStreamed, TypeOK
  <2>2. CASE \E k \in Controls : SweepAck(k) \/ SweepFail(k)
    BY <1>0, <2>0, <2>2 DEF SweepAck, SweepFail, BootNeutral, NoneStreamed, TypeOK, process
  <2>3. CASE SweepDone
    <3>1. pc'[Boot] \in {"none", "wait"} /\ ws' = ws /\ down' = down
      BY <1>0, <2>3 DEF SweepDone, LeaveEarly, TypeOK, kvmd
    <3>2. phase' = "run" /\ ~busy' => ~failed
      BY <2>3 DEF SweepDone, LeaveEarly
    <3> QED BY <2>0, <2>3, <3>1, <3>2 DEF SweepDone, BootNeutral, NoneStreamed
  <2>4. CASE BootRetry \/ Stop
    <3>1. /\ UNCHANGED <<ws, down, todo, failed>> /\ (phase' = "run" => busy')
          /\ pc'[Boot] = "sweep" => pc[Boot] = "sweep"
      BY <1>0, <2>0, <2>4 DEF BootRetry, Stop, TypeOK, process, kvmd
    <3> QED BY <2>0, <3>1 DEF BootNeutral, NoneStreamed
  <2>5. CASE Crash
    BY <1>0, <2>5 DEF Crash, Forget, BootNeutral
  <2>6. CASE (Select \/ UNCHANGED vars) \/ \E c \in Clients : KvmdNext(c)
    <3>1. UNCHANGED <<ws, down, pc, todo, failed, process>>
      <4>1. ASSUME NEW c \in Clients, KvmdNext(c) PROVE UNCHANGED <<ws, down, pc, todo, failed, process>>
        BY <1>0, <2>0, <4>1 DEF KvmdNext, Dispatch, StreamBreak, DropClosed, NoneStreamed, TypeOK, kvmd
      <4>2. CASE Select \/ UNCHANGED vars
        BY <4>2, OnlySelects DEF process
      <4> QED BY <2>6, <4>1, <4>2
    <3> QED BY <2>0, <3>1 DEF BootNeutral, NoneStreamed, process
  <2>7. ASSUME NEW c \in Clients, HandlerNext(c) PROVE FALSE
    BY <2>0, <2>7 DEF HandlerNext, Admit, Hello, SetParams, OpenStream, KeyDown, KeyUp, ButtonDown,
              ButtonUp, Idle, Send, Sent, Revoke, FlushAndClose, ReleaseAck, ReleaseFail,
              ReleaseComplete, ReleaseIncomplete, Retry, LastReleaseDone
  <2>8. ~Start /\ ~ReleaseAll /\ ~CancelHandlers /\ ~Exit
    BY <1>0, <1>2, <2>0 DEF Start, ReleaseAll, CancelHandlers, Exit, OwnerInv, BootPlace, TypeOK
  <2> QED BY <2>1, <2>2, <2>3, <2>4, <2>5, <2>6, <2>7, <2>8 DEF Next, BootNext, ProcessNext
<1> QED BY <1>1, <1>2

(* After any crash, however kvmd was left, leases are accepted only when   *)
(* nothing at all is down; this needs a kvmd without lag, but not an       *)
(* unbroken stream.                                                        *)
THEOREM RestartIsNeutral ==
    ASSUME "lag" \notin StreamFaults PROVE Spec => StartsNeutral
<1> DEFINE A == pc[Boot] # "none" /\ phase' = "run" /\ ~busy' => down' = {}
<1>1. Init => OwnerInv /\ BootNeutral
  BY TypeInit DEF Init, OwnerInv, SingleOwner, BootPlace, BootNeutral, Tasks
<1>2. OwnerInv /\ BootNeutral /\ [Next]_vars => OwnerInv' /\ BootNeutral'
  BY TypeStep, OwnerStep, BootNeutralStep DEF OwnerInv
<1>3. OwnerInv /\ BootNeutral /\ [Next]_vars => [A]_vars
  BY BootNeutralStep
<1> QED BY <1>1, <1>2, <1>3, PTL DEF Spec, StartsNeutral

(***************************************************************************)
(* HidServer implements InputLease when kvmd dispatches streamed events    *)
(* before flush() gives up and a stream breaks only without undispatched   *)
(* events (StreamFaults = {}).                                             *)
(***************************************************************************)
(* The refinement mapping by name. *)
Serving == phase = "run" /\ ~stopping /\ pc[Boot] = "none"
HoldersOf == {c \in Clients : pc[c] \in Owning}
EndingOf == {c \in Clients : pc[c] \in Releasing \cup {"retry"}}

(* retry_release makes its last attempt only in a bridge that stops. *)
LastStopping == \A c \in Clients : pc[c] = "lastrelease" => stopping

(* One lemma for each abstract step. *)
LEMMA IsGrant ==
    ASSUME Serving, Serving', NEW c \in Clients, HoldersOf = {}, down \subseteq {WakeKey},
           HoldersOf' = {c}, EndingOf' = EndingOf, down' = down
    PROVE  Abstract!Next
BY DEF Abstract!Next, Abstract!Grant, Serving, HoldersOf, EndingOf

LEMMA IsPress ==
    ASSUME Serving, Serving', NEW k \in Controls, HoldersOf # {}, EndingOf = {},
           HoldersOf' = HoldersOf, EndingOf' = EndingOf, down' = down \cup {k}
    PROVE  Abstract!Next
BY DEF Abstract!Next, Abstract!Press, Serving, HoldersOf, EndingOf

LEMMA IsLift ==
    ASSUME Serving, Serving', NEW k \in Controls, HoldersOf # {},
           HoldersOf' = HoldersOf, EndingOf' = EndingOf, down' = down \ {k}
    PROVE  Abstract!Next
BY DEF Abstract!Next, Abstract!Lift, Serving, HoldersOf, EndingOf

LEMMA IsEnd ==
    ASSUME Serving, Serving', EndingOf = {}, EndingOf' = HoldersOf,
           HoldersOf' = HoldersOf, down' = down
    PROVE  Abstract!Next
BY DEF Abstract!Next, Abstract!End, Serving, HoldersOf, EndingOf

LEMMA IsReturn ==
    ASSUME Serving, Serving', HoldersOf # {}, down \subseteq {WakeKey}, down' \subseteq {WakeKey},
           HoldersOf' = {}, EndingOf' = {}
    PROVE  Abstract!Next
BY DEF Abstract!Next, Abstract!Return, Serving, HoldersOf, EndingOf

LEMMA IsShut ==
    ASSUME Serving, ~Serving', down' = down,
           \/ HoldersOf' = HoldersOf /\ EndingOf' = EndingOf
           \/ HoldersOf' = {} /\ EndingOf' = {}
    PROVE  Abstract!Next
BY DEF Abstract!Next, Abstract!Shut, Serving, HoldersOf, EndingOf

LEMMA IsUnserved ==
    ASSUME ~Serving, ~Serving', TypeOK'
    PROVE  Abstract!Next
BY DEF Abstract!Next, Abstract!Unserved, Serving, TypeOK

LEMMA IsOpen ==
    ASSUME ~Serving, Serving', HoldersOf' = {}, EndingOf' = {}, down' = {}
    PROVE  Abstract!Next
BY DEF Abstract!Next, Abstract!Open, Serving, HoldersOf, EndingOf

LEMMA IsStutter ==
    ASSUME Serving' = Serving, HoldersOf' = HoldersOf, EndingOf' = EndingOf, down' = down
    PROVE  UNCHANGED Abstract!vars
BY DEF Abstract!vars, Serving, HoldersOf, EndingOf

-----------------------------------------------------------------------------
(* The owner is the only holder. *)
LEMMA OwnerHolds ==
    ASSUME OwnerInv, NEW c \in Clients, pc[c] \in Owning
    PROVE  /\ HoldersOf = {c}
           /\ EndingOf = IF pc[c] \in Releasing \cup {"retry"} THEN {c} ELSE {}
           /\ \A d \in Clients : d # c => pc[d] = "none"
           /\ pc[Boot] = "none" /\ phase = "run" /\ busy
<1>1. \A d \in Clients : d # c => pc[d] = "none"
  BY DEF OwnerInv, TypeOK, SingleOwner
<1> QED BY <1>1 DEF OwnerInv, SingleOwner, HoldersOf, EndingOf

(* The owner moves on and keeps the lease. *)
LEMMA OwnerMoves ==
    ASSUME OwnerInv, Serving, NEW c \in Clients, pc[c] \in Owning, NEW p \in Owning,
           pc' = [pc EXCEPT ![c] = p], UNCHANGED process
    PROVE  /\ Serving' /\ HoldersOf' = {c}
           /\ EndingOf' = IF p \in Releasing \cup {"retry"} THEN {c} ELSE {}
<1>1. c \in Tasks /\ Boot \in Tasks /\ Boot # c /\ Clients \subseteq Tasks
  BY HidAssumption DEF Tasks
<1>2. pc'[c] = p /\ \A t \in Tasks : t # c => pc'[t] = pc[t]
  BY <1>1 DEF OwnerInv, TypeOK
<1>3. \A d \in Clients : d # c => pc'[d] = "none"
  BY <1>1, <1>2, OwnerHolds
<1> QED BY <1>1, <1>2, <1>3 DEF Serving, HoldersOf, EndingOf, process

(* The owner ends, and with it the lease. *)
LEMMA OwnerForgotten ==
    ASSUME OwnerInv, Serving, NEW c \in Clients, pc[c] \in Owning, Forget({c}),
           UNCHANGED <<phase, stopping>>
    PROVE  Serving' /\ HoldersOf' = {} /\ EndingOf' = {}
<1>1. c \in Tasks /\ Boot \in Tasks /\ Boot # c /\ Clients \subseteq Tasks
  BY HidAssumption DEF Tasks
<1>2. \A t \in Tasks : pc'[t] = IF t = c THEN "none" ELSE pc[t]
  BY DEF Forget
<1>3. \A d \in Clients : pc'[d] = "none"
  BY <1>1, <1>2, OwnerHolds
<1> QED BY <1>1, <1>2, <1>3 DEF Serving, HoldersOf, EndingOf

LEMMA Quiet ==
    ASSUME UNCHANGED <<phase, stopping, pc>>
    PROVE  Serving' = Serving /\ HoldersOf' = HoldersOf /\ EndingOf' = EndingOf
BY DEF Serving, HoldersOf, EndingOf

LEMMA LeaveEarlyReturns ==
    ASSUME NeutralInv, Serving, NEW c \in Clients, pc[c] \in Admitted, LeaveEarly(c),
           down' \subseteq down \cup {WakeKey}
    PROVE  Abstract!Next
<1>1. c # Boot
  BY HidAssumption
<1>2. Forget({c}) /\ UNCHANGED <<phase, stopping>>
  BY <1>1 DEF LeaveEarly
<1>3. down \subseteq {WakeKey}
  BY DEF NeutralInv, NeutralParts, AdmittedNeutral, Neutral
<1>4. HoldersOf # {}
  BY OwnerHolds DEF NeutralInv
<1> QED BY <1>2, <1>3, <1>4, OwnerForgotten, IsReturn DEF NeutralInv

(* check(), wake() and the end of an admission. *)
LEMMA CheckAbstract ==
    ASSUME NeutralInv, Serving, NEW t \in Tasks, CheckNext(t)
    PROVE  Abstract!Next \/ UNCHANGED Abstract!vars
<1> USE HidAssumption
<1>1. t \in Clients /\ pc[t] \in Admitted /\ t # Boot
  BY DEF Serving, Tasks, CheckNext, Refused, Checked, Offline, WakeDown, WakeUp
<1>2. HoldersOf = {t} /\ EndingOf = {} /\ WakeKey \in Controls
  BY <1>1, OwnerHolds DEF NeutralInv, Controls
<1>3. CASE LeaveEarly(t)
  <2>1. down' \subseteq down \cup {WakeKey}
    BY <1>1 DEF CheckNext, Refused, Checked, Offline, WakeDown, WakeUp, kvmd
  <2> QED BY <1>1, <1>3, <2>1, LeaveEarlyReturns
<1>4. CASE ~LeaveEarly(t)
  <2>1. PICK p \in Admitted : pc' = [pc EXCEPT ![t] = p]
    BY <1>1, <1>4 DEF CheckNext, Refused, Checked, CheckedGoTo, Offline, WakeDown, WakeUp
  <2>2. UNCHANGED process
    BY <1>4 DEF CheckNext, Refused, Checked, Offline, WakeDown, WakeUp
  <2>3. Serving' /\ HoldersOf' = HoldersOf /\ EndingOf' = EndingOf
    BY <1>1, <1>2, <2>1, <2>2, OwnerMoves DEF NeutralInv
  <2>4. \/ down' = down \/ down' = down \cup {WakeKey} \/ down' = down \ {WakeKey}
    BY <1>4 DEF CheckNext, Refused, Checked, Offline, WakeDown, WakeUp, kvmd
  <2> QED BY <1>2, <2>3, <2>4, IsPress, IsLift, IsStutter
<1> QED BY <1>3, <1>4

(* Admission, and a handler that has not yet a Lease. *)
LEMMA AdmitAbstract ==
    ASSUME NeutralInv, Serving, NEW c \in Clients,
           Admit(c) \/ Hello(c) \/ SetParams(c) \/ OpenStream(c)
    PROVE  Abstract!Next \/ UNCHANGED Abstract!vars
<1> USE HidAssumption
<1>0. c \in Tasks /\ Boot \in Tasks /\ Boot # c /\ Clients \subseteq Tasks
  BY DEF Tasks
<1>1. CASE Admit(c)
  <2>1. \A d \in Clients : pc[d] \notin Owning
    BY <1>1 DEF Admit, NeutralInv, OwnerInv, SingleOwner
  <2>2. HoldersOf = {} /\ EndingOf = {}
    BY <2>1 DEF HoldersOf, EndingOf
  <2>3. down \subseteq {WakeKey} /\ down' = down
    BY <1>1 DEF Admit, NeutralInv, NeutralParts, FreeNeutral, Neutral, kvmd
  <2>4. pc'[c] = "hello" /\ \A t \in Tasks : t # c => pc'[t] = pc[t]
    BY <1>0, <1>1 DEF Admit, NeutralInv, OwnerInv, TypeOK
  <2>5. HoldersOf' = {c} /\ EndingOf' = {} /\ Serving'
    BY <1>0, <1>1, <2>1, <2>4 DEF Admit, Serving, HoldersOf, EndingOf
  <2> QED BY <2>2, <2>3, <2>5, IsGrant
<1>2. CASE Hello(c) \/ OpenStream(c) \/ SetParams(c)
  <2>1. pc[c] \in Admitted /\ down' = down
    BY <1>2 DEF Hello, OpenStream, SetParams, kvmd
  <2>2. HoldersOf = {c} /\ EndingOf = {}
    BY <2>1, OwnerHolds DEF NeutralInv
  <2>3. CASE LeaveEarly(c)
    BY <2>1, <2>3, LeaveEarlyReturns
  <2>4. CASE ~LeaveEarly(c)
    <3>1. PICK p \in {"check", "serve"} : pc' = [pc EXCEPT ![c] = p]
      BY <1>2, <2>4 DEF Hello, OpenStream, SetParams
    <3>2. UNCHANGED process
      BY <1>2, <2>4 DEF Hello, OpenStream, SetParams
    <3>3. Serving' /\ HoldersOf' = HoldersOf /\ EndingOf' = EndingOf
      BY <2>1, <2>2, <3>1, <3>2, OwnerMoves DEF NeutralInv
    <3> QED BY <2>1, <3>3, IsStutter
  <2> QED BY <2>3, <2>4
<1> QED BY <1>1, <1>2

(* The events of a served lease. *)
LEMMA ServeAbstract ==
    ASSUME NeutralInv, Serving, NEW c \in Clients,
           \/ Send(c) \/ Sent(c)
           \/ \E vk \in VKs : KeyDown(c, vk) \/ KeyUp(c, vk)
           \/ \E b \in Buttons : ButtonDown(c, b) \/ ButtonUp(c, b)
    PROVE  Abstract!Next \/ UNCHANGED Abstract!vars
<1>1. pc[c] = "serve" /\ UNCHANGED <<phase, stopping, pc>>
  BY DEF Send, Sent, KeyDown, KeyUp, ButtonDown, ButtonUp, Idle, process
<1>2. HoldersOf = {c} /\ EndingOf = {}
  BY <1>1, OwnerHolds DEF NeutralInv
<1>3. Serving' /\ HoldersOf' = HoldersOf /\ EndingOf' = EndingOf
  BY <1>1, Quiet
<1>4. op[c].ctl \in Controls
  BY DEF NeutralInv, OwnerInv, TypeOK, Ops
<1>5. down' = down \/ down' = down \cup {op[c].ctl} \/ down' = down \ {op[c].ctl}
  BY DEF Send, Sent, KeyDown, KeyUp, ButtonDown, ButtonUp, Effect, kvmd
<1> QED BY <1>2, <1>3, <1>4, <1>5, IsPress, IsLift, IsStutter

(* The end of a lease, up to its return. *)
LEMMA CleanupAbstract ==
    ASSUME NeutralInv, LastStopping, Serving, NEW c \in Clients,
           \/ Revoke(c) \/ FlushAndClose(c)
           \/ \E k \in Controls : ReleaseAck(c, k) \/ ReleaseFail(c, k)
           \/ ReleaseComplete(c) \/ ReleaseIncomplete(c) \/ Retry(c) \/ LastReleaseDone(c)
    PROVE  Abstract!Next \/ UNCHANGED Abstract!vars
<1>0. pc[c] \in Leased
  BY DEF Revoke, FlushAndClose, ReleaseAck, ReleaseFail, ReleaseComplete, ReleaseIncomplete,
         Retry, LastReleaseDone
<1>1. /\ HoldersOf = {c}
      /\ EndingOf = IF pc[c] \in Releasing \cup {"retry"} THEN {c} ELSE {}
  BY <1>0, OwnerHolds DEF NeutralInv
<1>2. CASE Revoke(c) \/ FlushAndClose(c)
  <2>1. PICK p \in {"flush", "release"} : pc' = [pc EXCEPT ![c] = p]
    BY <1>2 DEF Revoke, FlushAndClose
  <2>2. pc[c] \in {"serve", "flush"} /\ UNCHANGED process /\ down' = down
    BY <1>2 DEF Revoke, FlushAndClose, kvmd
  <2>3. Serving' /\ HoldersOf' = {c} /\ EndingOf' = IF p = "release" THEN {c} ELSE {}
    BY <1>0, <2>1, <2>2, OwnerMoves DEF NeutralInv
  <2> QED BY <1>1, <2>2, <2>3, IsEnd, IsStutter
<1>3. CASE \E k \in Controls : ReleaseAck(c, k) \/ ReleaseFail(c, k)
  <2>1. PICK k \in Controls : ReleaseAck(c, k) \/ ReleaseFail(c, k)
    BY <1>3
  <2>2. UNCHANGED <<phase, stopping, pc>> /\ (down' = down \/ down' = down \ {k})
    BY <2>1 DEF ReleaseAck, ReleaseFail, process
  <2> QED BY <1>1, <2>2, Quiet, IsLift, IsStutter
<1>4. CASE ReleaseComplete(c)
  <2>1. Forget({c}) /\ UNCHANGED <<phase, stopping, down>> /\ tracked[c] = {} /\ pc[c] \in Releasing
    BY <1>4 DEF ReleaseComplete, kvmd
  <2>2. ws[c] = <<>>
    BY <2>1 DEF NeutralInv, NeutralParts, StreamQuiet
  <2>3. \A k \in Controls : WillHold(c, k) <=> k \in down
    BY <2>2, HeldEmpty DEF WillHold
  <2>4. down \subseteq {WakeKey}
    BY <1>0, <2>1, <2>3 DEF NeutralInv, OwnerInv, TypeOK, NeutralParts, TrackedCoversDown
  <2> QED BY <1>0, <1>1, <2>1, <2>4, OwnerForgotten, IsReturn DEF NeutralInv
<1>5. CASE ReleaseIncomplete(c) \/ Retry(c)
  <2>1. PICK p \in {"retry", "rerelease"} : pc' = [pc EXCEPT ![c] = p]
    BY <1>5 DEF ReleaseIncomplete, Retry, Serving
  <2>2. pc[c] \in Releasing \cup {"retry"} /\ UNCHANGED process /\ down' = down
    BY <1>5 DEF ReleaseIncomplete, Retry, kvmd
  <2>3. Serving' /\ HoldersOf' = {c} /\ EndingOf' = {c}
    BY <1>0, <2>1, <2>2, OwnerMoves DEF NeutralInv
  <2> QED BY <1>1, <2>2, <2>3, IsStutter
<1>6. ~LastReleaseDone(c)
  BY DEF LastReleaseDone, LastStopping, Serving
<1> QED BY <1>2, <1>3, <1>4, <1>5, <1>6

(* kvmd dispatches what the served or flushed lease streamed. *)
LEMMA KvmdAbstract ==
    ASSUME NeutralInv, StreamOwned, Serving, NEW c \in Clients, KvmdNext(c)
    PROVE  Abstract!Next \/ UNCHANGED Abstract!vars
<1>1. UNCHANGED <<phase, stopping, pc>>
  BY DEF KvmdNext, Dispatch, StreamBreak, DropClosed, process
<1>2. Serving' /\ HoldersOf' = HoldersOf /\ EndingOf' = EndingOf
  BY <1>1, Quiet
<1>3. CASE Dispatch(c)
  <2>1. pc[c] \in {"serve", "flush"}
    BY <1>3 DEF Dispatch, StreamOwned, Serving
  <2>2. HoldersOf = {c} /\ EndingOf = {}
    BY <2>1, OwnerHolds DEF NeutralInv
  <2>3. Head(ws[c]) \in Events
    BY <1>3 DEF Dispatch, NeutralInv, OwnerInv, TypeOK
  <2>4. PICK k \in Controls : down' = down \cup {k} \/ down' = down \ {k}
    BY <1>3, <2>3 DEF Dispatch, Effect, Events
  <2> QED BY <1>2, <2>2, <2>4, IsPress, IsLift
<1>4. CASE StreamBreak(c) \/ DropClosed(c)
  BY <1>2, <1>4, IsStutter DEF StreamBreak, DropClosed, kvmd
<1> QED BY <1>3, <1>4 DEF KvmdNext

LEMMA ProcessAbstract ==
    ASSUME NeutralInv, Serving, BootNext \/ ProcessNext
    PROVE  Abstract!Next \/ UNCHANGED Abstract!vars
<1>0. Boot \in Tasks /\ Clients \subseteq Tasks
  BY DEF Tasks
<1>1. Stop \/ Crash
  BY DEF Serving, BootNext, SweepAck, SweepFail, SweepDone, BootRetry, ProcessNext, Start,
         ReleaseAll, CancelHandlers, Exit
<1>2. CASE Stop
  <2>1. UNCHANGED <<pc, down>> /\ ~Serving'
    BY <1>2 DEF Stop, Serving, kvmd
  <2>2. HoldersOf' = HoldersOf /\ EndingOf' = EndingOf
    BY <2>1 DEF HoldersOf, EndingOf
  <2> QED BY <2>1, <2>2, IsShut
<1>3. CASE Crash
  <2>1. down' = down /\ ~Serving' /\ \A t \in Tasks : pc'[t] = "none"
    BY <1>3 DEF Crash, Serving, Forget, kvmd
  <2>2. HoldersOf' = {} /\ EndingOf' = {}
    BY <1>0, <2>1 DEF HoldersOf, EndingOf
  <2> QED BY <2>1, <2>2, IsShut
<1> QED BY <1>1, <1>2, <1>3

-----------------------------------------------------------------------------
(* Service begins with the end of a sweep that was acknowledged completely. *)
LEMMA OpenAbstract ==
    ASSUME NeutralInv, StreamFaults = {}, ~Serving, Serving', [Next]_vars
    PROVE  Abstract!Next
<1> USE HidAssumption
<1>0. TypeOK /\ Boot \in Tasks /\ Clients \subseteq Tasks /\ Boot \notin Clients
  BY DEF NeutralInv, OwnerInv, Tasks
<1>1. SweepDone
  <2>1. ASSUME NEW t \in Tasks, CheckNext(t) PROVE FALSE
    <3>1. CASE t = Boot
      <4>1. pc[Boot] # "none" /\ pc'[Boot] # "none"
        BY <1>0, <2>1, <3>1 DEF CheckNext, Refused, Checked, CheckedGoTo, Offline, WakeDown, WakeUp,
              LeaveEarly, TypeOK
      <4> QED BY <4>1 DEF Serving
    <3>2. CASE t \in Clients
      <4>1. pc[t] \in Owning
        BY <2>1 DEF CheckNext, Refused, Checked, Offline, WakeDown, WakeUp
      <4>2. UNCHANGED <<phase, stopping>>
        BY <1>0, <2>1, <3>2 DEF CheckNext, Refused, Checked, Offline, WakeDown, WakeUp, LeaveEarly, process
      <4> QED BY <3>2, <4>1, <4>2, OwnerHolds DEF NeutralInv, Serving
    <3> QED BY <3>1, <3>2 DEF Tasks
  <2>2. ASSUME NEW c \in Clients, HandlerNext(c) PROVE FALSE
    <3>1. UNCHANGED <<phase, stopping>>
      BY <1>0, <2>2 DEF HandlerNext, Admit, Hello, SetParams, OpenStream, KeyDown, KeyUp, ButtonDown,
              ButtonUp, Send, Sent, Revoke, FlushAndClose, ReleaseAck, ReleaseFail, LeaveEarly,
              ReleaseComplete, ReleaseIncomplete, Retry, LastReleaseDone, process
    <3>2. CASE Admit(c)
      BY <3>1, <3>2 DEF Admit, Serving, NeutralInv, OwnerInv, BootPlace
    <3>3. CASE ~Admit(c)
      <4>1. pc[c] \in Owning
        BY <2>2, <3>3 DEF HandlerNext, Hello, SetParams, OpenStream, KeyDown, KeyUp, ButtonDown,
              ButtonUp, Idle, Send, Sent, Revoke, FlushAndClose, ReleaseAck, ReleaseFail,
              ReleaseComplete, ReleaseIncomplete, Retry, LastReleaseDone
      <4> QED BY <3>1, <4>1, OwnerHolds DEF NeutralInv, Serving
    <3> QED BY <3>2, <3>3
  <2>3. ASSUME NEW c \in Clients, KvmdNext(c) PROVE FALSE
    BY <2>3 DEF KvmdNext, Dispatch, StreamBreak, DropClosed, process, Serving
  <2>4. ASSUME BootNext, ~SweepDone PROVE FALSE
    BY <1>0, <2>4 DEF BootNext, SweepAck, SweepFail, BootRetry, process, Serving, TypeOK
  <2>5. ~ProcessNext
    BY DEF ProcessNext, Start, ReleaseAll, Stop, CancelHandlers, Exit, Crash, process, Serving
  <2>6. ~Select /\ vars' # vars
    BY OnlySelects DEF Serving
  <2> QED BY <2>1, <2>2, <2>3, <2>4, <2>5, <2>6 DEF Next
<1>2. pc[Boot] # "none" /\ ~busy' /\ pc' = [pc EXCEPT ![Boot] = "none"]
  BY <1>0, <1>1 DEF SweepDone, LeaveEarly, Serving, TypeOK
<1>3. down' = {}
  BY <1>2, BootNeutralStep DEF NeutralInv, NeutralParts, Serving
<1>4. \A c \in Clients : pc'[c] = "none"
  BY <1>0, <1>2 DEF NeutralInv, OwnerInv, SingleOwner, TypeOK
<1>5. HoldersOf' = {} /\ EndingOf' = {}
  BY <1>4 DEF HoldersOf, EndingOf
<1> QED BY <1>3, <1>5, IsOpen

LEMMA LastStoppingStep ==
    ASSUME TypeOK, LastStopping, [Next]_vars PROVE LastStopping'
<1> USE HidAssumption
<1>0. Boot \in Tasks /\ Clients \subseteq Tasks /\ Boot \notin Clients
  BY DEF Tasks
<1>1. ASSUME NEW D \in SUBSET Tasks, Forget(D), UNCHANGED stopping PROVE LastStopping'
  BY <1>0, <1>1 DEF Forget, LastStopping
<1>2. ASSUME NEW t \in Tasks, CheckNext(t) PROVE LastStopping'
  <2>1. CASE LeaveEarly(t)
    BY <1>0, <1>1, <2>1 DEF LeaveEarly, LastStopping, TypeOK
  <2>2. CASE ~LeaveEarly(t)
    BY <1>0, <1>2, <2>2 DEF CheckNext, Refused, Checked, CheckedGoTo, Offline, WakeDown, WakeUp,
          LastStopping, TypeOK, process
  <2> QED BY <2>1, <2>2
<1>3. ASSUME NEW c \in Clients, HandlerNext(c) PROVE LastStopping'
  <2>1. CASE LeaveEarly(c)
    BY <1>0, <1>1, <2>1 DEF LeaveEarly
  <2>2. CASE ReleaseComplete(c) \/ LastReleaseDone(c)
    BY <1>0, <1>1, <2>2 DEF ReleaseComplete, LastReleaseDone, process
  <2>3. CASE ReleaseIncomplete(c)
    BY <1>0, <2>3 DEF ReleaseIncomplete, LastStopping, TypeOK, process
  <2>4. CASE ~(LeaveEarly(c) \/ ReleaseComplete(c) \/ LastReleaseDone(c) \/ ReleaseIncomplete(c))
    BY <1>0, <1>3, <2>4, ZenonT(30) DEF HandlerNext, Admit, Hello, SetParams, OpenStream, KeyDown, KeyUp, ButtonDown,
          ButtonUp, Send, Sent, Revoke, FlushAndClose, ReleaseAck, ReleaseFail, Retry,
          LastStopping, TypeOK, process
  <2> QED BY <2>1, <2>2, <2>3, <2>4
<1>4. ASSUME NEW c \in Clients, KvmdNext(c) PROVE LastStopping'
  BY <1>4 DEF KvmdNext, Dispatch, StreamBreak, DropClosed, LastStopping, process
<1>5. CASE BootNext
  BY <1>0, <1>5 DEF BootNext, SweepAck, SweepFail, SweepDone, BootRetry, LeaveEarly, LastStopping,
        TypeOK, process
<1>6. CASE ProcessNext
  BY <1>0, <1>1, <1>6 DEF ProcessNext, Start, ReleaseAll, Stop, CancelHandlers, Exit, Crash, Forget,
        LastStopping, TypeOK, process
<1>7. CASE Select \/ UNCHANGED vars
  BY <1>7, OnlySelects DEF LastStopping
<1> QED BY <1>2, <1>3, <1>4, <1>5, <1>6, <1>7 DEF Next

(* Every step of the bridge is a step of the lease or leaves it alone. *)
LEMMA StepAbstract ==
    ASSUME NeutralInv, NeutralInv', StreamOwned, LastStopping, StreamFaults = {}, [Next]_vars
    PROVE  [Abstract!Next]_(Abstract!vars)
<1>1. CASE ~Serving
  <2>1. CASE Serving'
    BY <1>1, <2>1, OpenAbstract
  <2>2. CASE ~Serving'
    BY <1>1, <2>2, IsUnserved DEF NeutralInv, OwnerInv
  <2> QED BY <2>1, <2>2
<1>2. CASE Serving
  <2>1. ASSUME NEW t \in Tasks, CheckNext(t) PROVE Abstract!Next \/ UNCHANGED Abstract!vars
    BY <1>2, <2>1, CheckAbstract
  <2>2. ASSUME NEW c \in Clients, HandlerNext(c) PROVE Abstract!Next \/ UNCHANGED Abstract!vars
    BY <1>2, <2>2, AdmitAbstract, ServeAbstract, CleanupAbstract DEF HandlerNext
  <2>3. ASSUME NEW c \in Clients, KvmdNext(c) PROVE Abstract!Next \/ UNCHANGED Abstract!vars
    BY <1>2, <2>3, KvmdAbstract
  <2>4. CASE BootNext \/ ProcessNext
    BY <1>2, <2>4, ProcessAbstract
  <2>5. CASE Select \/ UNCHANGED vars
    BY <2>5, OnlySelects, Quiet, IsStutter
  <2> QED BY <2>1, <2>2, <2>3, <2>4, <2>5 DEF Next
<1> QED BY <1>1, <1>2

(* The bridge implements the abstract lease: one holder at a time, nothing *)
(* pressed for a lease that is ending, the lease returned or first granted *)
(* only with the target let go of, whatever requests time out, fail or are *)
(* cancelled and wherever the process is stopped or killed.                *)
THEOREM BridgeIsLease ==
    ASSUME StreamFaults = {} PROVE Spec => ImplementsLease
<1>1. Init => Abstract!Init
  <2> SUFFICES ASSUME Init PROVE Abstract!Init
    OBVIOUS
  <2>1. \A c \in Clients : pc[c] = "none"
    BY DEF Init, Tasks
  <2> QED BY <2>1 DEF Init, Abstract!Init
<1>2. Init => StreamOwned /\ LastStopping
  BY DEF Init, StreamOwned, LastStopping, Tasks
<1>3. NeutralInv /\ StreamOwned /\ LastStopping /\ [Next]_vars => StreamOwned' /\ LastStopping'
  BY StreamOwnedStep, LastStoppingStep DEF NeutralInv, OwnerInv
<1>4. NeutralInv /\ NeutralInv' /\ StreamOwned /\ LastStopping /\ [Next]_vars
        => [Abstract!Next]_(Abstract!vars)
  BY StepAbstract
<1> QED BY <1>1, <1>2, <1>3, <1>4, NeutralInvariant, PTL DEF Spec, ImplementsLease, Abstract!Spec
==============================================================================
