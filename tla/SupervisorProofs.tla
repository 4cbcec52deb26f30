-------------------------- MODULE SupervisorProofs --------------------------
(***************************************************************************)
(* Theorems about Supervisor, for any number of runs of the unit and of    *)
(* the operator and any process ids.  Those about the target, the bridge   *)
(* and the exit code hold when children only linger where nobody but       *)
(* systemd acts (NoBystander); those about control.json and run.py stop    *)
(* need no assumption.                                                     *)
(***************************************************************************)
EXTENDS Supervisor, TLAPS

NoBystander == Linger => Hands = {}

(* Whoever runs holds the lock. *)
LockInv ==
    /\ \A s \in Starts : pc[s] \in Running => lock = s
    /\ \A r \in Releasers : rpc[r] # "idle" => lock = r

(* The unit's processes are those of its current main process, and the     *)
(* ExecStopPost recovery runs after all of them.                           *)
UnitInv ==
    /\ \A s \in Units :
          Alive(s) \/ hid[s] \in Live \/ sun[s] \in Live => unit = "active" /\ main = s
    /\ rpc["post"] # "idle" => unit = "post"
    /\ rpc["hand"] # "idle" => Hands # {}

(* A child lives while its supervisor is where it may have one, or is an   *)
(* orphan.                                                                 *)
ChildInv ==
    \A s \in Starts :
        /\ hid[s] \in Live =>
              pc[s] \in {"mark", "wait", "serve", "stopsun", "stophid"} \/ (Linger /\ pc[s] = "end")
        /\ sun[s] \in Live => pc[s] \in {"serve", "stopsun"} \/ (Linger /\ pc[s] = "end")

ProcessInv == TypeOK /\ LockInv /\ UnitInv /\ ChildInv

(* The marker covers what is held from before Sunshine starts until a      *)
(* release is confirmed.                                                   *)
MarkInv ==
    /\ dirty => marker
    /\ \A s \in Starts : pc[s] \in {"wait", "serve"} \/ sun[s] \in Live => marker
    /\ \A s \in Starts : pc[s] = "unmark" => ~dirty
    /\ \A r \in Releasers : rpc[r] = "unmark" => ~dirty

(***************************************************************************)
(* Types.                                                                  *)
(***************************************************************************)
(* What run.py stop knows. *)
Stoppers == [step : {"idle", "read", "open", "send"}, rec : Records,
             target : Starts \cup {"none", "other"}]

(* What stands for no record and no stop is typed. *)
LEMMA NoneTyped == NoRecord \in Records /\ NoStop \in Stoppers
<1>1. NoRecord \in Records BY DEF NoRecord, Records
<1>2. QED BY <1>1 DEF NoStop, Stoppers

(* The types hold when nothing has been started. *)
LEMMA TypeInit == Init => TypeOK
<1> SUFFICES ASSUME Init PROVE TypeOK
  OBVIOUS
<1>1. /\ pc \in [Starts -> Running \cup {"idle", "lock", "end"}]
      /\ hid \in [Starts -> Live \cup {"none", "gone"}]
  BY DEF Init
<1>2. QED BY <1>1, NoneTyped DEF Init, TypeOK, Stoppers

(* The end of a process: kept apart because six actions use it.            *)
LEMMA TypeExits ==
    ASSUME TypeOK, NEW s \in Starts, Exits(s)
    PROVE  /\ pc' \in [Starts -> Running \cup {"idle", "lock", "end"}]
           /\ pid' \in [Starts -> Pids \cup {"none"}]
           /\ stopping' \in [Starts -> BOOLEAN] /\ failed' \in [Starts -> BOOLEAN]
           /\ lock' \in Starts \cup Releasers \cup {"none"}
BY DEF TypeOK, Exits, Goto

(* The supervisor's own steps keep the types. *)
LEMMA TypeSupervisor ==
    ASSUME TypeOK, NEW s \in Starts, SupervisorStep(s)
    PROVE  TypeOK'
<1> USE DEF TypeOK, Goto
<1>1. CASE Lock(s)
  <2>1. CASE Exits(s)
    BY <1>1, <2>1, TypeExits DEF Lock, children, operator
  <2>2. CASE lock' = s /\ Goto(s, "preflight") /\ UNCHANGED <<pid, stopping, failed>>
    BY <1>1, <2>2 DEF Lock, children, operator, Running
  <2>3. QED BY <1>1, <2>1, <2>2 DEF Lock
<1>2. CASE Preflight(s)
  <2>1. CASE Exits(s) /\ record' = record
    BY <1>2, <2>1, TypeExits DEF Preflight, children, operator
  <2>2. CASE record' = [pid |-> pid[s], start |-> s] /\ Goto(s, "probe")
             /\ UNCHANGED <<pid, stopping, failed, lock>>
    BY <1>2, <2>2 DEF Preflight, children, operator, Running, Records
  <2>3. QED BY <1>2, <2>1, <2>2 DEF Preflight
<1>3. CASE Return(s)
  BY <1>3, TypeExits DEF Return, children, operator
<1>4. CASE Probe(s)
  <2>1. /\ pc' \in [Starts -> Running \cup {"idle", "lock", "end"}]
        /\ failed' \in [Starts -> BOOLEAN] /\ sock' \in Starts \cup {"none"}
        /\ hid' \in [Starts -> Live \cup {"none", "gone"}]
    BY <1>4, ZenonT(30) DEF Probe, Running, Cleaning, Live
  <2>2. QED BY <1>4, <2>1 DEF Probe, operator, files
<1>5. CASE Mark(s)
  <2>1. /\ pc' \in [Starts -> Running \cup {"idle", "lock", "end"}]
        /\ failed' \in [Starts -> BOOLEAN] /\ marker' \in BOOLEAN
    BY <1>5, ZenonT(30) DEF Mark, Running, Cleaning
  <2>2. QED BY <1>5, <2>1 DEF Mark, children, operator
<1>6. CASE AwaitSocket(s)
  <2>1. /\ pc' \in [Starts -> Running \cup {"idle", "lock", "end"}]
        /\ failed' \in [Starts -> BOOLEAN]
        /\ sun' \in [Starts -> {"none", "run", "stop", "gone"}]
    BY <1>6, ZenonT(30) DEF AwaitSocket, Running, Cleaning
  <2>2. QED BY <1>6, <2>1 DEF AwaitSocket, operator, files
<1>7. CASE Watch(s)
  <2>1. failed' \in [Starts -> BOOLEAN] BY <1>7 DEF Watch
  <2>2. QED BY <1>7, <2>1 DEF Watch, children, operator, files, Running, Cleaning
<1>8. CASE TermSun(s)
  BY <1>8 DEF TermSun, operator, files
<1>9. CASE ReapSun(s)
  BY <1>9 DEF ReapSun, operator, files, Running, Cleaning
<1>10. CASE TermHid(s)
  BY <1>10 DEF TermHid, Term, operator, files, Live
<1>11. CASE ReapHid(s)
  BY <1>11 DEF ReapHid, operator, files, Running, Cleaning
<1>12. CASE Release(s)
  <2>1. /\ pc' \in [Starts -> Running \cup {"idle", "lock", "end"}]
        /\ failed' \in [Starts -> BOOLEAN] /\ dirty' \in BOOLEAN
    BY <1>12, ZenonT(30) DEF Release, Running, Cleaning
  <2>2. QED BY <1>12, <2>1 DEF Release, operator, files
<1>13. CASE Unmark(s)
  BY <1>13, ZenonT(30) DEF Unmark, children, operator, Running, Cleaning
<1>14. CASE Finish(s)
  BY <1>14, NoneTyped DEF Finish, children, operator, Running, Cleaning
<1>15. CASE Escape(s)
  BY <1>15 DEF Escape, children, operator, files, Running, Cleaning
<1>16. QED
  BY <1>1, <1>2, <1>3, <1>4, <1>5, <1>6, <1>7, <1>8, <1>9, <1>10, <1>11, <1>12, <1>13, <1>14,
     <1>15 DEF SupervisorStep

(* So do signals, kills and the children's steps. *)
LEMMA TypeChildren ==
    ASSUME TypeOK, NEW s \in Starts,
           Die(s) \/ Launch(s) \/ Stop(s) \/ BridgeUp(s) \/ BridgeRecovers(s) \/ Input(s)
               \/ BridgeExits(s) \/ ChildDies(s)
    PROVE  TypeOK'
<1>1. CASE Die(s)
  <2>1. /\ hid' \in [Starts -> Live \cup {"none", "gone"}]
        /\ sun' \in [Starts -> {"none", "run", "stop", "gone"}]
    BY <1>1 DEF Die, Orphaned, Term, TypeOK, Live
  <2>2. QED BY <1>1, <2>1, TypeExits DEF Die, TypeOK, operator
<1>2. CASE Launch(s)
  BY <1>2 DEF Launch, FreePids, Goto, TypeOK, children, files, operator
<1>3. CASE Stop(s)
  <2>1. /\ hid' \in [Starts -> Live \cup {"none", "gone"}]
        /\ sun' \in [Starts -> {"none", "run", "stop", "gone"}]
        /\ stopping' \in [Starts -> BOOLEAN]
    BY <1>3 DEF Stop, Signalled, Term, TypeOK, Live
  <2>2. QED BY <1>3, <2>1 DEF Stop, TypeOK, operator, files
<1>4. CASE BridgeUp(s)
  <2>1. /\ dirty' \in BOOLEAN /\ swept' \in [Starts -> BOOLEAN]
    BY <1>4 DEF BridgeUp, TypeOK
  <2>2. /\ sock' \in Starts \cup {"none"}
        /\ hid' \in [Starts -> Live \cup {"none", "gone"}]
    BY <1>4 DEF BridgeUp, TypeOK, Live
  <2>3. QED BY <1>4, <2>1, <2>2 DEF BridgeUp, TypeOK, operator, files
<1>5. CASE BridgeRecovers(s)
  BY <1>5, ZenonT(30) DEF BridgeRecovers, TypeOK, operator, files
<1>6. CASE BridgeExits(s)
  <2>1. dirty' \in BOOLEAN BY <1>6 DEF BridgeExits, TypeOK
  <2>2. QED BY <1>6, <2>1 DEF BridgeExits, TypeOK, operator, files
<1>7. CASE Input(s)
  <2>1. dirty' \in BOOLEAN BY <1>7 DEF Input
  <2>2. QED BY <1>7, <2>1 DEF Input, TypeOK, operator, files
<1>8. CASE ChildDies(s)
  BY <1>8 DEF ChildDies, TypeOK, operator, files
<1>9. QED BY <1>1, <1>2, <1>3, <1>4, <1>5, <1>6, <1>7, <1>8

(* So do systemd, the recovery and the operator. *)
LEMMA TypeOthers ==
    ASSUME TypeOK,
           \/ \E r \in Releasers : RRelease(r) \/ RUnmark(r)
           \/ UnitPost \/ PostStart \/ HandRelease
           \/ OtherProcess \/ StopRead \/ StopOpen \/ StopCheck \/ StopSend
    PROVE  TypeOK'
<1>1. ASSUME NEW r \in Releasers, RRelease(r) \/ RUnmark(r) PROVE TypeOK'
  <2>1. dirty' \in BOOLEAN /\ marker' \in BOOLEAN
    BY <1>1 DEF RRelease, RUnmark, TypeOK, children
  <2>2. /\ rpc' \in [Releasers -> {"idle", "release", "unmark"}]
        /\ lock' \in Starts \cup Releasers \cup {"none"} /\ unit' \in {"inactive", "active", "post"}
    BY <1>1, ZenonT(30) DEF RRelease, RUnmark, RReturn, TypeOK
  <2>3. CASE RRelease(r) BY <2>1, <2>2, <2>3 DEF RRelease, TypeOK, operator
  <2>4. CASE RUnmark(r) BY <2>1, <2>2, <2>4 DEF RUnmark, TypeOK, children, operator
  <2>5. QED BY <1>1, <2>3, <2>4
<1>2. CASE UnitPost
  BY <1>2 DEF UnitPost, TypeOK, children, operator, files
<1>3. CASE PostStart
  BY <1>3 DEF PostStart, TypeOK, children, operator, Releasers
<1>4. CASE HandRelease
  BY <1>4 DEF HandRelease, TypeOK, children, operator, Releasers
<1>5. CASE OtherProcess
  <2>1. others' \in SUBSET Pids BY <1>5 DEF OtherProcess, FreePids, TypeOK
  <2>2. QED BY <1>5, <2>1 DEF OtherProcess, TypeOK, children, files
<1>6. CASE StopRead
  <2>1. stopper' \in Stoppers BY <1>6, NoneTyped DEF StopRead, TypeOK, Stoppers
  <2>2. QED BY <1>6, <2>1 DEF StopRead, TypeOK, children, files, Stoppers
<1>7. CASE StopCheck
  <2>1. stopper' \in Stoppers BY <1>7, NoneTyped DEF StopCheck, TypeOK, Stoppers
  <2>2. QED BY <1>7, <2>1 DEF StopCheck, TypeOK, children, files, Stoppers
<1>8. CASE StopOpen
  <2>1. At(stopper.rec.pid) \subseteq Starts \cup {"other"} BY DEF At, Holder
  <2>2. stopper' \in Stoppers
    <3>1. CASE stopper' = NoStop BY <3>1, NoneTyped
    <3>2. CASE \E t \in At(stopper.rec.pid) :
                  stopper' = [stopper EXCEPT !.step = "open", !.target = t]
      <4>1. PICK t \in Starts \cup {"other"} :
                  stopper' = [stopper EXCEPT !.step = "open", !.target = t]
        BY <2>1, <3>2
      <4>2. QED BY <4>1 DEF TypeOK, Stoppers
    <3>3. QED BY <1>8, <3>1, <3>2 DEF StopOpen
  <2>3. QED BY <1>8, <2>2 DEF StopOpen, TypeOK, children, files, Stoppers
<1>9. CASE StopSend
  <2>1. /\ hid' \in [Starts -> Live \cup {"none", "gone"}]
        /\ sun' \in [Starts -> {"none", "run", "stop", "gone"}]
        /\ stopping' \in [Starts -> BOOLEAN]
    <3>1. CASE UNCHANGED <<stopping, hid, sun>> BY <3>1 DEF TypeOK
    <3>2. CASE stopper.target \in Starts /\ Signalled(stopper.target, FALSE)
      BY <3>2 DEF Signalled, TypeOK
    <3>3. QED BY <1>9, <3>1, <3>2 DEF StopSend
  <2>2. strayed' \in BOOLEAN
    BY <1>9, Zenon DEF StopSend, TypeOK
  <2>3. QED BY <1>9, <2>1, <2>2, NoneTyped DEF StopSend, TypeOK, files, Stoppers
<1>10. QED BY <1>1, <1>2, <1>3, <1>4, <1>5, <1>6, <1>7, <1>8, <1>9

(* Every step keeps the types. *)
LEMMA TypeNext == TypeOK /\ [Next]_vars => TypeOK'
<1> SUFFICES ASSUME TypeOK, [Next]_vars PROVE TypeOK'
  OBVIOUS
<1>1. CASE UNCHANGED vars BY <1>1 DEF vars, TypeOK
<1>2. CASE Next BY <1>2, TypeSupervisor, TypeChildren, TypeOthers DEF Next
<1>3. QED BY <1>1, <1>2

(* Every variable of the supervisor's world keeps its type; the targets of *)
(* run.py stop are supervisors, or strangers.                              *)
THEOREM SupervisorTypes == Spec => []TypeOK
<1>1. QED BY TypeInit, TypeNext, PTL DEF Spec

(***************************************************************************)
(* Who runs and who lives.                                                 *)
(***************************************************************************)
(* Initially nobody runs. *)
LEMMA ProcessInit == Init => LockInv /\ UnitInv /\ ChildInv
BY DEF Init, LockInv, UnitInv, ChildInv, Alive, Running, Cleaning, Live, Starts, Releasers

(* A supervisor that moves on inside start().                              *)
LEMMA Moves ==
    ASSUME ProcessInv, NEW s \in Starts, pc[s] \in Running,
           NEW l \in Running, pc' = [pc EXCEPT ![s] = l],
           NEW h, hid' = [hid EXCEPT ![s] = h], NEW u, sun' = [sun EXCEPT ![s] = u],
           h \in Live => l \in {"mark", "wait", "serve", "stopsun", "stophid"},
           u \in Live => l \in {"serve", "stopsun"},
           UNCHANGED <<rpc, unit, main, lock>>
    PROVE  LockInv' /\ UnitInv' /\ ChildInv'
<1> USE DEF ProcessInv, TypeOK
<1>1. LockInv' BY DEF LockInv
<1>2. UnitInv' BY DEF UnitInv, Alive
<1>3. ChildInv' BY DEF ChildInv
<1>4. QED BY <1>1, <1>2, <1>3

(* A process that ends, with the children it leaves behind.                *)
LEMMA Ends ==
    ASSUME ProcessInv, NEW s \in Starts, Alive(s), Exits(s),
           NEW h, hid' = [hid EXCEPT ![s] = h], NEW u, sun' = [sun EXCEPT ![s] = u],
           h \in Live => Linger, u \in Live => Linger,
           UNCHANGED <<rpc, unit, main>>
    PROVE  LockInv' /\ UnitInv' /\ ChildInv'
<1> USE DEF ProcessInv, TypeOK, Exits, Goto
<1>0. \A r \in Releasers : r # s
  BY SupervisorAssumption DEF Starts, Releasers
<1>1. LockInv' BY <1>0 DEF LockInv, Running, Cleaning
<1>2. UnitInv' BY DEF UnitInv, Alive, Running, Cleaning
<1>3. ChildInv' BY DEF ChildInv
<1>4. QED BY <1>1, <1>2, <1>3

(* Signals, kills and steps of children bring no child to life.            *)
LEMMA Dwindles ==
    ASSUME ProcessInv,
           \A s \in Starts : /\ hid'[s] \in Live => hid[s] \in Live
                             /\ sun'[s] \in Live => sun[s] \in Live,
           UNCHANGED <<pc, rpc, unit, main, lock>>
    PROVE  LockInv' /\ UnitInv' /\ ChildInv'
<1> USE DEF ProcessInv
<1>1. LockInv' BY DEF LockInv
<1>2. UnitInv' BY DEF UnitInv, Alive, Starts
<1>3. ChildInv' BY DEF ChildInv
<1>4. QED BY <1>1, <1>2, <1>3

(* The statements of start() keep lock, unit and children in order. *)
LEMMA ProcessSupervisor ==
    ASSUME ProcessInv, NEW s \in Starts, SupervisorStep(s)
    PROVE  LockInv' /\ UnitInv' /\ ChildInv'
<1>t. /\ hid = [hid EXCEPT ![s] = hid[s]] /\ sun = [sun EXCEPT ![s] = sun[s]]
      /\ hid[s] \in Live => pc[s] \in {"mark", "wait", "serve", "stopsun", "stophid", "end"}
      /\ sun[s] \in Live => pc[s] \in {"serve", "stopsun", "end"}
  BY DEF ProcessInv, TypeOK, ChildInv
<1>1. CASE Lock(s)
  <2>1. CASE Exits(s)
    BY <1>1, <1>t, <2>1, Ends DEF Lock, children, Alive
  <2>2. CASE lock = "none" /\ lock' = s /\ Goto(s, "preflight")
    <3> USE <1>1, <2>2 DEF Lock, children, Goto, ProcessInv, TypeOK
    <3>1. \A t \in Starts \cup Releasers : t # "none"
      BY SupervisorAssumption DEF Starts, Releasers
    <3>2. LockInv' BY <3>1 DEF LockInv
    <3>3. UnitInv' BY DEF UnitInv, Alive
    <3>4. ChildInv' BY <1>t DEF ChildInv
    <3>5. QED BY <3>2, <3>3, <3>4
  <2>3. QED BY <1>1, <2>1, <2>2 DEF Lock
<1>2. CASE Preflight(s)
  <2>1. CASE Exits(s)
    BY <1>2, <1>t, <2>1, Ends DEF Preflight, children, Alive, Running
  <2>2. CASE Goto(s, "probe") /\ UNCHANGED lock
    BY <1>2, <1>t, <2>2, Moves DEF Preflight, children, Running, Goto
  <2>3. QED BY <1>2, <2>1, <2>2 DEF Preflight
<1>3. CASE Return(s)
  BY <1>3, <1>t, Ends DEF Return, children, Alive, Running, Cleaning
<1>4. CASE Probe(s)
  <2>1. CASE hid' = [hid EXCEPT ![s] = "boot"] /\ Goto(s, "mark")
    BY <1>4, <1>t, <2>1, Moves DEF Probe, Running, Goto, files
  <2>2. CASE hid' = hid /\ Goto(s, "finish")
    BY <1>4, <1>t, <2>2, Moves DEF Probe, Running, Cleaning, Goto, files
  <2>3. QED BY <1>4, <2>1, <2>2 DEF Probe
<1>5. CASE Mark(s)
  BY <1>5, <1>t, Moves DEF Mark, children, Running, Cleaning, Goto
<1>6. CASE AwaitSocket(s)
  <2>1. CASE sun' = [sun EXCEPT ![s] = "run"] /\ Goto(s, "serve")
    BY <1>6, <1>t, <2>1, Moves DEF AwaitSocket, Running, Goto, files
  <2>2. CASE sun' = sun /\ Goto(s, "stopsun")
    BY <1>6, <1>t, <2>2, Moves DEF AwaitSocket, Running, Cleaning, Goto, files
  <2>3. QED BY <1>6, <2>1, <2>2 DEF AwaitSocket
<1>7. CASE Watch(s)
  BY <1>7, <1>t, Moves DEF Watch, children, Running, Cleaning, Goto, files
<1>8. CASE TermSun(s)
  BY <1>8, Dwindles DEF TermSun, files, Live, ProcessInv, TypeOK
<1>9. CASE ReapSun(s)
  <2>1. (IF sun[s] = "stop" THEN "gone" ELSE sun[s]) \notin Live
    BY <1>9 DEF ReapSun, Live, ProcessInv, TypeOK
  <2>2. QED BY <1>9, <1>t, <2>1, Moves DEF ReapSun, Running, Cleaning, Goto, files
<1>10. CASE TermHid(s)
  BY <1>10, Dwindles DEF TermHid, files, Live, ProcessInv, TypeOK
<1>11. CASE ReapHid(s)
  <2>1. "gone" \notin Live BY DEF Live
  <2>2. sun[s] \notin Live BY <1>11, <1>t DEF ReapHid
  <2>3. QED BY <1>11, <1>t, <2>1, <2>2, Moves DEF ReapHid, Running, Cleaning, Goto, files
<1>12. CASE Release(s)
  BY <1>12, <1>t, Moves DEF Release, Running, Cleaning, Goto, files
<1>13. CASE Unmark(s)
  BY <1>13, <1>t, Moves DEF Unmark, children, Running, Cleaning, Goto
<1>14. CASE Finish(s)
  BY <1>14, <1>t, Moves DEF Finish, children, Running, Cleaning, Goto
<1>15. CASE Escape(s)
  BY <1>15, <1>t, Moves DEF Escape, children, files, Running, Cleaning, Goto
<1>16. QED
  BY <1>1, <1>2, <1>3, <1>4, <1>5, <1>6, <1>7, <1>8, <1>9, <1>10, <1>11, <1>12, <1>13, <1>14,
     <1>15 DEF SupervisorStep

(* So do launches, kills, signals and what children do. *)
LEMMA ProcessChildren ==
    ASSUME ProcessInv, NEW s \in Starts,
           Die(s) \/ Launch(s) \/ Stop(s) \/ BridgeUp(s) \/ BridgeRecovers(s) \/ Input(s)
               \/ BridgeExits(s) \/ ChildDies(s)
    PROVE  LockInv' /\ UnitInv' /\ ChildInv'
<1>1. CASE Die(s)
  <2>1. \A h : Orphaned(h) \in Live => Linger
    BY DEF Orphaned, Term, Live
  <2>2. QED BY <1>1, <2>1, Ends DEF Die
<1>2. CASE Launch(s)
  <2> USE <1>2 DEF Launch, Goto, children, files, ProcessInv, TypeOK
  <2>1. LockInv' BY DEF LockInv, Running, Cleaning
  <2>2. UnitInv'
    <3>1. CASE s \in Hands /\ UNCHANGED <<unit, main>>
      BY <3>1, SupervisorAssumption DEF UnitInv, Alive
    <3>2. CASE s \in Units /\ unit = "inactive" /\ unit' = "active" /\ main' = s
      BY <3>2 DEF UnitInv, Alive, Starts
    <3>3. QED BY <3>1, <3>2
  <2>3. ChildInv' BY DEF ChildInv
  <2>4. QED BY <2>1, <2>2, <2>3
<1>3. CASE Stop(s)
  BY <1>3, Dwindles DEF Stop, Signalled, Term, Live, files, ProcessInv, TypeOK
<1>4. CASE BridgeUp(s)
  BY <1>4, Dwindles DEF BridgeUp, Live, files, ProcessInv, TypeOK
<1>5. CASE BridgeRecovers(s)
  BY <1>5, Dwindles DEF BridgeRecovers, files
<1>6. CASE BridgeExits(s)
  BY <1>6, Dwindles DEF BridgeExits, Live, files, ProcessInv, TypeOK
<1>7. CASE Input(s)
  BY <1>7, Dwindles DEF Input, files
<1>8. CASE ChildDies(s)
  BY <1>8, Dwindles DEF ChildDies, Live, files, ProcessInv, TypeOK
<1>9. QED BY <1>1, <1>2, <1>3, <1>4, <1>5, <1>6, <1>7, <1>8

(* So do systemd, the recovery and the operator. *)
LEMMA ProcessOthers ==
    ASSUME ProcessInv,
           \/ \E r \in Releasers : RRelease(r) \/ RUnmark(r)
           \/ UnitPost \/ PostStart \/ HandRelease
           \/ OtherProcess \/ StopRead \/ StopOpen \/ StopCheck \/ StopSend
    PROVE  LockInv' /\ UnitInv' /\ ChildInv'
<1>n. \A t \in Starts : t \notin Releasers /\ t # "none"
  BY SupervisorAssumption DEF Starts, Releasers
<1>1. ASSUME NEW r \in Releasers, RRelease(r) \/ RUnmark(r)
      PROVE  LockInv' /\ UnitInv' /\ ChildInv'
  <2>1. /\ lock = r /\ UNCHANGED <<pc, hid, sun, main>>
        /\ \/ rpc' = [rpc EXCEPT ![r] = "unmark"] /\ UNCHANGED <<lock, unit>>
           \/ RReturn(r)
    BY <1>1 DEF RRelease, RUnmark, children, ProcessInv, LockInv
  <2> USE <2>1 DEF ProcessInv, TypeOK, RReturn
  <2>2. LockInv' BY <1>n DEF LockInv
  <2>3. UnitInv'
    <3>1. r = "post" => unit = "post" BY <1>1 DEF UnitInv, RRelease, RUnmark
    <3>2. r = "hand" => Hands # {} BY <1>1 DEF UnitInv, RRelease, RUnmark
    <3>3. QED BY <3>1, <3>2 DEF UnitInv, Alive, Releasers
  <2>4. ChildInv' BY DEF ChildInv
  <2>5. QED BY <2>2, <2>3, <2>4
<1>2. CASE UnitPost
  <2> USE <1>2 DEF UnitPost, ProcessInv, TypeOK, children, files
  <2>1. \A s \in Units : ~(Alive(s) \/ hid[s] \in Live \/ sun[s] \in Live)
    BY DEF UnitInv, Alive, Running, Cleaning
  <2>2. LockInv' /\ ChildInv' BY DEF LockInv, ChildInv
  <2>3. UnitInv' BY <2>1 DEF UnitInv, Alive
  <2>4. QED BY <2>2, <2>3
<1>3. CASE PostStart
  <2> USE <1>3 DEF PostStart, ProcessInv, TypeOK, children
  <2>1. LockInv' BY <1>n DEF LockInv, Releasers
  <2>2. UnitInv' BY DEF UnitInv, Alive, Releasers
  <2>3. ChildInv' BY DEF ChildInv
  <2>4. QED BY <2>1, <2>2, <2>3
<1>4. CASE HandRelease
  <2> USE <1>4 DEF HandRelease, ProcessInv, TypeOK, children
  <2>1. LockInv' BY <1>n DEF LockInv, Releasers
  <2>2. UnitInv' BY DEF UnitInv, Alive, Releasers
  <2>3. ChildInv' BY DEF ChildInv
  <2>4. QED BY <2>1, <2>2, <2>3
<1>5. CASE OtherProcess \/ StopRead \/ StopOpen \/ StopCheck
  BY <1>5, Dwindles DEF OtherProcess, StopRead, StopOpen, StopCheck, children, files
<1>6. CASE StopSend
  BY <1>6, Dwindles DEF StopSend, Signalled, files, ProcessInv, TypeOK
<1>7. QED BY <1>1, <1>2, <1>3, <1>4, <1>5, <1>6

(* Every step keeps the process invariant. *)
LEMMA ProcessNext == ProcessInv /\ [Next]_vars => ProcessInv'
<1> SUFFICES ASSUME ProcessInv, [Next]_vars PROVE ProcessInv'
  OBVIOUS
<1>1. TypeOK' BY TypeNext DEF ProcessInv
<1>2. LockInv' /\ UnitInv' /\ ChildInv'
  <2>1. CASE UNCHANGED vars BY <2>1, Dwindles DEF vars
  <2>2. CASE Next BY <2>2, ProcessSupervisor, ProcessChildren, ProcessOthers DEF Next
  <2>3. QED BY <2>1, <2>2
<1>3. QED BY <1>1, <1>2 DEF ProcessInv

(* The lock is held by whoever runs, the unit's processes belong to its    *)
(* main process, and children to a supervisor (main(), rkmoon.service).    *)
THEOREM Processes == Spec => []ProcessInv
<1>1. Init => ProcessInv BY TypeInit, ProcessInit DEF ProcessInv
<1>2. QED BY <1>1, ProcessNext, PTL DEF Spec

(***************************************************************************)
(* Release and marker.                                                     *)
(***************************************************************************)
(* Whoever releases, or removes the marker, is alone: no child of any      *)
(* supervisor lives, orphans included.                                     *)
LEMMA Alone ==
    ASSUME ProcessInv, NoBystander,
           \/ \E r \in Releasers : rpc[r] # "idle"
           \/ \E s \in Starts : pc[s] \in {"release", "unmark"}
    PROVE  \A t \in Starts : hid[t] \notin Live /\ sun[t] \notin Live
<1> SUFFICES ASSUME NEW t \in Starts, hid[t] \in Live \/ sun[t] \in Live PROVE FALSE
  OBVIOUS
<1>1. pc[t] \in {"mark", "wait", "serve", "stopsun", "stophid"} \/ (Linger /\ pc[t] = "end")
  BY DEF ProcessInv, ChildInv
<1>2. CASE pc[t] \in {"mark", "wait", "serve", "stopsun", "stophid"}
  <2>1. lock = t BY <1>2 DEF ProcessInv, LockInv, Running, Cleaning
  <2>2. t \notin Releasers BY SupervisorAssumption DEF Starts, Releasers
  <2>3. QED BY <1>2, <2>1, <2>2 DEF ProcessInv, LockInv, Running, Cleaning
<1>3. CASE Linger /\ pc[t] = "end"
  <2>1. Hands = {} /\ t \in Units BY <1>3 DEF NoBystander, Starts
  <2>2. unit = "active" /\ main = t BY <2>1 DEF ProcessInv, UnitInv
  <2>3. ASSUME NEW r \in Releasers, rpc[r] # "idle" PROVE FALSE
    BY <2>1, <2>2, <2>3 DEF ProcessInv, UnitInv, Releasers
  <2>4. ASSUME NEW s \in Starts, pc[s] \in {"release", "unmark"} PROVE FALSE
    BY <1>3, <2>1, <2>2, <2>4 DEF ProcessInv, UnitInv, Alive, Running, Cleaning, Starts
  <2>5. QED BY <2>3, <2>4
<1>4. QED BY <1>1, <1>2, <1>3

(* An independent release, by the supervisor, ExecStopPost or release-all, *)
(* never runs beside a bridge that listens.                                *)
THEOREM ReleaseIsAlone == ASSUME NoBystander PROVE Spec => []ReleaseAlone
<1>1. ProcessInv => ReleaseAlone BY Alone DEF ReleaseAlone, Live
<1>2. QED BY <1>1, Processes, PTL

(* Initially nothing is held. *)
LEMMA MarkInit == Init => MarkInv
BY DEF Init, MarkInv, Live, Starts, Releasers

(* Steps that press nothing, start no Sunshine and leave the marker.       *)
LEMMA Quiet ==
    ASSUME MarkInv, marker' = marker, dirty' \in {FALSE, dirty},
           \A s \in Starts : /\ pc'[s] \in {"wait", "serve"} => pc[s] \in {"wait", "serve"}
                             /\ pc'[s] = "unmark" => pc[s] = "unmark"
                             /\ sun'[s] \in Live =>
                                    sun[s] \in Live \/ pc[s] \in {"wait", "serve"},
           \A r \in Releasers : rpc'[r] = "unmark" => rpc[r] = "unmark"
    PROVE  MarkInv'
<1>1. dirty' => dirty BY Zenon
<1>2. (dirty => marker)' BY <1>1, Zenon DEF MarkInv
<1>3. QED BY <1>1, <1>2 DEF MarkInv

(* Every step keeps the marker invariant, given who runs. *)
LEMMA MarkNext ==
    ASSUME ProcessInv, NoBystander, MarkInv, [Next]_vars
    PROVE  MarkInv'
<1> USE DEF ProcessInv
<1>1. ASSUME NEW s \in Starts, SupervisorStep(s) PROVE MarkInv'
  <2> USE DEF TypeOK, Goto
  <2>1. CASE Lock(s)
    BY <2>1, Quiet DEF Lock, Exits, children
  <2>2. CASE Preflight(s)
    BY <2>2, Quiet DEF Preflight, Exits, children
  <2>3. CASE Probe(s)
    BY <2>3, Quiet DEF Probe, files
  <2>4. CASE Mark(s)
    BY <2>4 DEF Mark, MarkInv, children
  <2>5. CASE AwaitSocket(s)
    BY <2>5, Quiet DEF AwaitSocket, files
  <2>6. CASE Watch(s)
    BY <2>6, Quiet DEF Watch, children, files
  <2>7. CASE TermSun(s)
    BY <2>7, Quiet DEF TermSun, files, Live
  <2>8. CASE ReapSun(s)
    BY <2>8, Quiet DEF ReapSun, files, Live
  <2>9. CASE TermHid(s)
    BY <2>9, Quiet DEF TermHid, files
  <2>10. CASE ReapHid(s)
    BY <2>10, Quiet DEF ReapHid, files
  <2>11. CASE Release(s)
    <3>1. \/ ~dirty' /\ pc' = [pc EXCEPT ![s] = "unmark"]
          \/ dirty' \in {FALSE, dirty} /\ pc' = [pc EXCEPT ![s] = "finish"]
      BY <2>11 DEF Release
    <3>2. CASE ~dirty'
      <4>1. \A t \in Starts : pc'[t] \in {"wait", "serve"} => pc[t] \in {"wait", "serve"}
        BY <3>1, ZenonT(30)
      <4>2. UNCHANGED <<sun, rpc, marker>> BY <2>11 DEF Release, files
      <4>3. QED BY <3>2, <4>1, <4>2 DEF MarkInv
    <3>3. CASE dirty' \in {FALSE, dirty} /\ pc' = [pc EXCEPT ![s] = "finish"]
      BY <2>11, <3>3, Quiet DEF Release, files
    <3>4. QED BY <3>1, <3>2, <3>3
  <2>12. CASE Unmark(s)
    <3>1. \A t \in Starts : sun[t] \notin Live BY <2>12, Alone DEF Unmark
    <3>2. \A t \in Starts : pc'[t] \notin {"wait", "serve"}
      BY <2>12 DEF Unmark, LockInv, Running, Cleaning
    <3>3. ~dirty BY <2>12 DEF Unmark, MarkInv
    <3>4. QED BY <2>12, <3>1, <3>2, <3>3 DEF Unmark, MarkInv, children
  <2>13. CASE Finish(s)
    BY <2>13, Quiet DEF Finish, children
  <2>14. CASE Return(s)
    BY <2>14, Quiet DEF Return, Exits, children
  <2>15. CASE Escape(s)
    BY <2>15, Quiet DEF Escape, children, files
  <2>16. QED
    BY <1>1, <2>1, <2>2, <2>3, <2>4, <2>5, <2>6, <2>7, <2>8, <2>9, <2>10, <2>11, <2>12, <2>13,
       <2>14, <2>15 DEF SupervisorStep
<1>2. ASSUME NEW s \in Starts,
             Die(s) \/ Launch(s) \/ Stop(s) \/ BridgeUp(s) \/ BridgeRecovers(s) \/ Input(s)
                 \/ BridgeExits(s) \/ ChildDies(s)
      PROVE  MarkInv'
  <2> USE DEF TypeOK, Goto
  <2>1. CASE Die(s)
    BY <2>1, Quiet DEF Die, Exits, Orphaned, Term, Live
  <2>2. CASE Launch(s)
    BY <2>2, Quiet DEF Launch, children, files
  <2>3. CASE Stop(s)
    BY <2>3, Quiet DEF Stop, Signalled, Term, Live, files
  <2>4. CASE BridgeUp(s)
    BY <2>4, Quiet DEF BridgeUp, files
  <2>5. CASE BridgeRecovers(s)
    BY <2>5, Quiet DEF BridgeRecovers, files
  <2>6. CASE Input(s)
    <3>1. sun[s] \in Live BY <2>6 DEF Input, Live
    <3>2. marker /\ (\A t \in Starts : pc[t] # "unmark") /\ (\A r \in Releasers : rpc[r] # "unmark")
      BY <3>1, Alone DEF MarkInv
    <3>3. QED BY <2>6, <3>2 DEF Input, MarkInv, files
  <2>7. CASE BridgeExits(s)
    BY <2>7, Quiet DEF BridgeExits, files
  <2>8. CASE ChildDies(s)
    BY <2>8, Quiet DEF ChildDies, Live, files
  <2>9. QED BY <1>2, <2>1, <2>2, <2>3, <2>4, <2>5, <2>6, <2>7, <2>8
<1>3. ASSUME NEW r \in Releasers, RRelease(r) \/ RUnmark(r) PROVE MarkInv'
  <2>1. \A t \in Starts : sun[t] \notin Live
    BY <1>3, Alone DEF RRelease, RUnmark
  <2>2. \A t \in Starts : pc[t] \notin {"wait", "serve", "unmark"}
    <3>1. lock = r BY <1>3 DEF LockInv, RRelease, RUnmark
    <3>2. QED BY <3>1, SupervisorAssumption DEF LockInv, Running, Cleaning, Starts, Releasers
  <2>3. CASE RRelease(r)
    <3>1. \/ ~dirty'
          \/ dirty' \in {FALSE, dirty} /\ rpc' = [rpc EXCEPT ![r] = "idle"]
      BY <2>3 DEF RRelease, RReturn
    <3>2. CASE ~dirty'
      BY <2>1, <2>2, <2>3, <3>2 DEF RRelease, MarkInv
    <3>3. CASE dirty' \in {FALSE, dirty} /\ rpc' = [rpc EXCEPT ![r] = "idle"]
      BY <2>3, <3>3, Quiet, ZenonT(30) DEF RRelease, TypeOK
    <3>4. QED BY <3>1, <3>2, <3>3
  <2>4. CASE RUnmark(r)
    BY <2>1, <2>2, <2>4 DEF RUnmark, RReturn, MarkInv, TypeOK, children
  <2>5. QED BY <1>3, <2>3, <2>4
<1>4. CASE UnitPost
  BY <1>4, Quiet DEF UnitPost, children, files
<1>5. CASE PostStart
  BY <1>5, Quiet DEF PostStart, children, TypeOK, Releasers
<1>6. CASE HandRelease
  BY <1>6, Quiet DEF HandRelease, children, TypeOK, Releasers
<1>7. CASE OtherProcess \/ StopRead \/ StopOpen \/ StopCheck
  BY <1>7, Quiet DEF OtherProcess, StopRead, StopOpen, StopCheck, children, files
<1>8. CASE StopSend
  BY <1>8, Quiet DEF StopSend, Signalled, files, TypeOK
<1>9. CASE UNCHANGED vars
  BY <1>9, Quiet DEF vars
<1>10. QED BY <1>1, <1>2, <1>3, <1>4, <1>5, <1>6, <1>7, <1>8, <1>9 DEF Next

(* As long as the target may hold what a lease pressed, the marker says    *)
(* that a release is due: across kills of supervisor and children at any   *)
(* point, failed releases and later starts.                                *)
THEOREM HeldLeavesMarker == ASSUME NoBystander PROVE Spec => []HeldIsMarked
<1>1. Init => MarkInv BY MarkInit
<1>2. ProcessInv /\ MarkInv /\ [Next]_vars => MarkInv' BY MarkNext
<1>3. MarkInv => HeldIsMarked BY DEF MarkInv, HeldIsMarked
<1>4. QED BY <1>1, <1>2, <1>3, Processes, PTL DEF Spec

(***************************************************************************)
(* Who can be stopped.  control.json is read long before the signal is     *)
(* sent, so the proof follows an identity through time: a supervisor that  *)
(* was launched once never runs again, and keeps its process id until it   *)
(* ends.                                                                   *)
(***************************************************************************)
(* A launched supervisor does not become another one. *)
Ages(s) ==
    pc[s] # "idle" => pc'[s] # "idle" /\ (Alive(s)' => Alive(s) /\ pid'[s] = pid[s])

(* Live processes have process ids of their own. *)
PidInv ==
    /\ \A s \in Starts : Alive(s) => pid[s] \in Pids \ others
    /\ \A s, t \in Starts : Alive(s) /\ Alive(t) /\ pid[s] = pid[t] => s = t

(* A record that was written once: its supervisor has its process id, or   *)
(* is no more.                                                             *)
Known(rec) ==
    /\ rec.start \in Starts /\ pc[rec.start] # "idle"
    /\ Alive(rec.start) => pid[rec.start] = rec.pid

RecordInv == record = NoRecord \/ Known(record)

(* The descriptor that run.py stop has opened is that of the supervisor it *)
(* read about, unless that one is no more.                                 *)
StopperInv ==
    /\ stopper.step # "idle" => Known(stopper.rec)
    /\ stopper.step = "open" /\ Alive(stopper.rec.start) => stopper.target = stopper.rec.start
    /\ stopper.step = "send" => stopper.target = stopper.rec.start

StopInv == ProcessInv /\ Stoppable /\ PidInv /\ RecordInv /\ StopperInv /\ ~strayed

(* The end of a process ages it. *)
LEMMA ExitAges ==
    ASSUME TypeOK, NEW s \in Starts, Exits(s)
    PROVE  \A t \in Starts : Ages(t)
BY DEF TypeOK, Exits, Goto, Ages, Alive, Running, Cleaning

(* A step inside start() does not change who is alive. *)
LEMMA MoveAges ==
    ASSUME TypeOK, NEW s \in Starts, Alive(s), NEW l \in Running, Goto(s, l), pid' = pid
    PROVE  \A t \in Starts : Ages(t)
BY DEF TypeOK, Goto, Ages, Alive, Running, Cleaning

(* No step but a launch gives a supervisor life. *)
LEMMA StepAges ==
    ASSUME TypeOK, [Next]_vars
    PROVE  \A t \in Starts : Ages(t)
<1>1. ASSUME NEW s \in Starts, SupervisorStep(s) PROVE \A t \in Starts : Ages(t)
  <2>1. CASE Exits(s)
    BY <2>1, ExitAges
  <2>2. CASE UNCHANGED <<pc, pid>>
    BY <2>2 DEF Ages, Alive
  <2>3. CASE ~Exits(s) /\ ~UNCHANGED <<pc, pid>>
    <3>1. Alive(s) /\ pid' = pid /\ \E l \in Running : Goto(s, l)
      BY <1>1, <2>3
         DEF SupervisorStep, Lock, Preflight, Probe, Mark, AwaitSocket, Watch, TermSun, ReapSun,
             TermHid, ReapHid, Release, Unmark, Finish, Escape, Return, Alive, Running, Cleaning
    <3>2. QED BY <3>1, MoveAges
  <2>4. QED BY <2>1, <2>2, <2>3
<1>2. ASSUME NEW s \in Starts, Die(s) PROVE \A t \in Starts : Ages(t)
  BY <1>2, ExitAges DEF Die
<1>3. ASSUME NEW s \in Starts, Launch(s) PROVE \A t \in Starts : Ages(t)
  BY <1>3 DEF Launch, Goto, TypeOK, Ages, Alive
<1>4. ASSUME UNCHANGED <<pc, pid>> PROVE \A t \in Starts : Ages(t)
  BY <1>4 DEF Ages, Alive
<1>5. ASSUME NEW s \in Starts,
             Stop(s) \/ BridgeUp(s) \/ BridgeRecovers(s) \/ Input(s) \/ BridgeExits(s) \/ ChildDies(s)
      PROVE  UNCHANGED <<pc, pid>>
  BY <1>5 DEF Stop, BridgeUp, BridgeRecovers, Input, BridgeExits, ChildDies
<1>6. ASSUME NEW r \in Releasers, RRelease(r) \/ RUnmark(r) PROVE UNCHANGED <<pc, pid>>
  BY <1>6 DEF RRelease, RUnmark
<1>7. ASSUME \/ UnitPost \/ PostStart \/ HandRelease \/ OtherProcess
             \/ StopRead \/ StopOpen \/ StopCheck \/ StopSend \/ UNCHANGED vars
      PROVE  UNCHANGED <<pc, pid>>
  BY <1>7 DEF UnitPost, PostStart, HandRelease, OtherProcess, StopRead, StopOpen, StopCheck,
              StopSend, vars
<1>8. QED BY <1>1, <1>2, <1>3, <1>4, <1>5, <1>6, <1>7 DEF Next

(* What is known of a record stays known. *)
LEMMA KnownStays ==
    ASSUME \A t \in Starts : Ages(t)
    PROVE  \A rec : Known(rec) => Known(rec)'
BY DEF Known, Ages

(* Process ids stay apart: a launch and an unrelated process take free ones. *)
LEMMA PidNext ==
    ASSUME TypeOK, PidInv, [Next]_vars
    PROVE  PidInv'
<1>0. \A t \in Starts : Ages(t)
  BY StepAges
<1>1. ASSUME NEW s \in Starts, Launch(s) PROVE PidInv'
  <2>1. PICK p \in FreePids : pid' = [pid EXCEPT ![s] = p]
    BY <1>1 DEF Launch
  <2>2. p \in Pids \ others /\ \A t \in Starts : Alive(t) => pid[t] # p
    BY <2>1 DEF FreePids, Holder
  <2>3. others' = others /\ \A t \in Starts : t # s => (Alive(t)' <=> Alive(t)) /\ pid'[t] = pid[t]
    BY <1>1, <2>1 DEF Launch, Goto, TypeOK, Alive, operator
  <2>4. pid'[s] = p BY <2>1 DEF TypeOK
  <2>5. QED BY <2>2, <2>3, <2>4 DEF PidInv
<1>2. CASE OtherProcess
  <2>1. UNCHANGED <<pc, pid>> BY <1>2 DEF OtherProcess
  <2>2. \A t \in Starts : Alive(t) => pid[t] \notin others'
    BY <1>2 DEF OtherProcess, FreePids, Holder, PidInv
  <2>3. QED BY <2>1, <2>2 DEF PidInv, Alive
<1>3. ASSUME others' = others, \A t \in Starts : pc[t] = "idle" => pc'[t] = "idle" PROVE PidInv'
  <2>1. \A t \in Starts : Alive(t)' => Alive(t) /\ pid'[t] = pid[t]
    BY <1>0, <1>3 DEF Ages, Alive, Running, Cleaning
  <2>2. QED BY <1>3, <2>1 DEF PidInv
<1>4. ASSUME NEW s \in Starts, SupervisorStep(s) \/ Die(s)
      PROVE  others' = others /\ \A t \in Starts : pc[t] = "idle" => pc'[t] = "idle"
  <2>1. others' = others
    BY <1>4 DEF SupervisorStep, Lock, Preflight, Probe, Mark, AwaitSocket, Watch, TermSun, ReapSun,
             TermHid, ReapHid, Release, Unmark, Finish, Escape, Return, Die, operator
  <2>2. Alive(s)
    BY <1>4 DEF SupervisorStep, Lock, Preflight, Probe, Mark, AwaitSocket, Watch, TermSun, ReapSun,
             TermHid, ReapHid, Release, Unmark, Finish, Escape, Return, Die, Alive, Running, Cleaning
  <2>3. pc' = pc \/ \E l : Goto(s, l)
    BY <1>4 DEF SupervisorStep, Lock, Preflight, Probe, Mark, AwaitSocket, Watch, TermSun, ReapSun,
             TermHid, ReapHid, Release, Unmark, Finish, Escape, Return, Die, Exits
  <2>4. QED BY <2>1, <2>2, <2>3 DEF Goto, TypeOK, Alive, Running, Cleaning
<1>5. ASSUME NEW s \in Starts,
             Stop(s) \/ BridgeUp(s) \/ BridgeRecovers(s) \/ Input(s) \/ BridgeExits(s) \/ ChildDies(s)
      PROVE  UNCHANGED <<pc, others>>
  BY <1>5 DEF Stop, BridgeUp, BridgeRecovers, Input, BridgeExits, ChildDies, operator
<1>6. ASSUME NEW r \in Releasers, RRelease(r) \/ RUnmark(r) PROVE UNCHANGED <<pc, others>>
  BY <1>6 DEF RRelease, RUnmark, operator
<1>7. ASSUME \/ UnitPost \/ PostStart \/ HandRelease
             \/ StopRead \/ StopOpen \/ StopCheck \/ StopSend \/ UNCHANGED vars
      PROVE  UNCHANGED <<pc, others>>
  BY <1>7 DEF UnitPost, PostStart, HandRelease, StopRead, StopOpen, StopCheck, StopSend, vars, operator
<1>8. QED BY <1>1, <1>2, <1>3, <1>4, <1>5, <1>6, <1>7 DEF Next

(* control.json is written and unlinked by the holder of the lock only, so *)
(* it names every supervisor that may have children, and whoever it names  *)
(* was launched.                                                           *)
LEMMA RecordNext ==
    ASSUME ProcessInv, Stoppable, RecordInv, [Next]_vars
    PROVE  Stoppable' /\ RecordInv'
<1>0. (\A t \in Starts : Ages(t)) /\ TypeOK
  BY StepAges DEF ProcessInv
<1>1. ASSUME record' = record,
             \A t \in Starts : pc'[t] \in Running \ {"preflight", "return"} =>
                 pc[t] \in Running \ {"preflight", "return"}
      PROVE  Stoppable' /\ RecordInv'
  <2>1. Stoppable'
    BY <1>0, <1>1 DEF Stoppable, Ages, Alive, Running, Cleaning
  <2>2. QED BY <1>0, <1>1, <2>1, KnownStays DEF RecordInv
<1>2. ASSUME NEW s \in Starts, SupervisorStep(s) PROVE Stoppable' /\ RecordInv'
  <2> USE DEF Goto
  <2>1. CASE Preflight(s)
    <3>1. CASE record' = record /\ Exits(s)
      BY <1>0, <1>1, <3>1 DEF Exits, TypeOK, Running, Cleaning
    <3>2. CASE record' = [pid |-> pid[s], start |-> s] /\ Goto(s, "probe") /\ pid' = pid
      <4>1. pc[s] = "preflight" /\ \A t \in Starts : t # s => pc[t] \notin Running /\ pc'[t] = pc[t]
        BY <1>0, <2>1, <3>2 DEF Preflight, ProcessInv, LockInv, Running, TypeOK
      <4>2. pc'[s] = "probe" BY <1>0, <3>2 DEF TypeOK
      <4>3. Stoppable' BY <3>2, <4>1, <4>2 DEF Stoppable
      <4>4. Known(record)' BY <3>2, <4>2 DEF Known
      <4>5. QED BY <4>3, <4>4 DEF RecordInv
    <3>3. QED BY <2>1, <3>1, <3>2 DEF Preflight
  <2>2. CASE Finish(s)
    <3>1. \A t \in Starts : pc'[t] \notin Running \ {"preflight", "return"}
      BY <1>0, <2>2 DEF Finish, ProcessInv, LockInv, Running, Cleaning, TypeOK
    <3>2. record' = NoRecord BY <2>2 DEF Finish
    <3>3. QED BY <3>1, <3>2 DEF Stoppable, RecordInv
  <2>3. CASE Lock(s) \/ Return(s)
    BY <1>0, <1>1, <2>3 DEF Lock, Return, Exits, TypeOK, Running, Cleaning
  <2>4. CASE TermSun(s) \/ TermHid(s)
    BY <1>1, <2>4 DEF TermSun, TermHid, files
  <2>5. CASE \/ Probe(s) \/ Mark(s) \/ AwaitSocket(s) \/ Watch(s) \/ ReapSun(s) \/ ReapHid(s)
             \/ Release(s) \/ Unmark(s) \/ Escape(s)
    <3>1. record' = record
      BY <2>5 DEF Probe, Mark, AwaitSocket, Watch, ReapSun, ReapHid, Release, Unmark, Escape, files
    <3>2. pc[s] \in Running \ {"preflight", "return"} /\ \E l : pc' = [pc EXCEPT ![s] = l]
      BY <2>5 DEF Probe, Mark, AwaitSocket, Watch, ReapSun, ReapHid, Release, Unmark, Escape,
                  Running, Cleaning
    <3>3. QED BY <1>0, <1>1, <3>1, <3>2 DEF TypeOK
  <2>6. QED BY <1>2, <2>1, <2>2, <2>3, <2>4, <2>5 DEF SupervisorStep
<1>3. ASSUME NEW s \in Starts, Die(s) \/ Launch(s) PROVE Stoppable' /\ RecordInv'
  BY <1>0, <1>1, <1>3 DEF Die, Exits, Launch, Goto, files, TypeOK, Running, Cleaning
<1>4. ASSUME NEW s \in Starts,
             Stop(s) \/ BridgeUp(s) \/ BridgeRecovers(s) \/ Input(s) \/ BridgeExits(s) \/ ChildDies(s)
      PROVE  UNCHANGED <<pc, record>>
  BY <1>4 DEF Stop, BridgeUp, BridgeRecovers, Input, BridgeExits, ChildDies, files
<1>5. ASSUME NEW r \in Releasers, RRelease(r) \/ RUnmark(r) PROVE UNCHANGED <<pc, record>>
  BY <1>5 DEF RRelease, RUnmark
<1>6. ASSUME \/ UnitPost \/ PostStart \/ HandRelease \/ OtherProcess
             \/ StopRead \/ StopOpen \/ StopCheck \/ StopSend \/ UNCHANGED vars
      PROVE  UNCHANGED <<pc, record>>
  BY <1>6 DEF UnitPost, PostStart, HandRelease, OtherProcess, StopRead, StopOpen, StopCheck,
              StopSend, vars, files
<1>7. QED BY <1>1, <1>2, <1>3, <1>4, <1>5, <1>6 DEF Next

(* Each step of run.py stop keeps what it knows of its supervisor; nothing *)
(* else can make the descriptor stand for another process.                 *)
LEMMA StopperNext ==
    ASSUME TypeOK, PidInv, RecordInv, StopperInv, ~strayed, [Next]_vars
    PROVE  StopperInv' /\ ~strayed'
<1>0. (\A t \in Starts : Ages(t)) /\ \A rec : Known(rec) => Known(rec)'
  BY StepAges, KnownStays
<1>1. CASE UNCHANGED <<stopper, strayed>>
  BY <1>0, <1>1 DEF StopperInv, Known, Ages
<1>2. CASE StopRead
  <2>1. /\ stopper'.step = "read" /\ stopper'.rec = record /\ UNCHANGED <<pc, pid, strayed>>
    BY <1>2 DEF StopRead, NoStop
  <2>2. Known(record) BY <1>2 DEF StopRead, RecordInv
  <2>3. QED BY <2>1, <2>2 DEF StopperInv, Known, Alive
<1>3. CASE StopOpen
  <2>0. Known(stopper.rec) /\ UNCHANGED <<pc, pid, strayed>>
    BY <1>3 DEF StopOpen, StopperInv
  <2>1. CASE stopper' = NoStop
    BY <2>0, <2>1 DEF StopperInv, NoStop
  <2>2. CASE \E t \in At(stopper.rec.pid) : stopper' = [stopper EXCEPT !.step = "open", !.target = t]
    <3>1. PICK t \in At(stopper.rec.pid) : stopper' = [stopper EXCEPT !.step = "open", !.target = t]
      BY <2>2
    <3>2. stopper'.step = "open" /\ stopper'.target = t /\ stopper'.rec = stopper.rec
      BY <3>1 DEF TypeOK
    <3>3. Alive(stopper.rec.start) => t = stopper.rec.start
      BY <2>0 DEF Known, At, Holder, PidInv
    <3>4. QED BY <2>0, <3>2, <3>3 DEF StopperInv, Known, Alive
  <2>3. QED BY <1>3, <2>1, <2>2 DEF StopOpen
<1>4. CASE StopCheck
  <2>0. Known(stopper.rec) /\ UNCHANGED <<pc, pid, strayed>>
    BY <1>4 DEF StopCheck, StopperInv
  <2>1. CASE stopper' = NoStop
    BY <2>0, <2>1 DEF StopperInv, NoStop
  <2>2. CASE stopper' # NoStop
    <3>1. stopper.rec.start \in At(stopper.rec.pid) /\ stopper' = [stopper EXCEPT !.step = "send"]
      BY <1>4, <2>2 DEF StopCheck
    <3>2. /\ stopper'.step = "send" /\ stopper'.target = stopper.target
          /\ stopper'.rec = stopper.rec
      BY <3>1 DEF TypeOK
    <3>3. stopper.rec.start # "other"
      BY <2>0, SupervisorAssumption DEF Known, Starts
    <3>4. Alive(stopper.rec.start) BY <3>1, <3>3 DEF At, Holder
    <3>5. stopper.target = stopper.rec.start BY <1>4, <3>4 DEF StopCheck, StopperInv
    <3>6. QED BY <2>0, <3>2, <3>5 DEF StopperInv, Known, Alive
  <2>3. QED BY <2>1, <2>2
<1>5. CASE StopSend
  <2>1. stopper.target = stopper.rec.start BY <1>5 DEF StopSend, StopperInv
  <2>2. QED BY <1>5, <2>1 DEF StopSend, StopperInv, NoStop
<1>6. ASSUME NEW s \in Starts,
             \/ SupervisorStep(s) \/ Die(s) \/ Launch(s) \/ Stop(s)
             \/ BridgeUp(s) \/ BridgeRecovers(s) \/ Input(s) \/ BridgeExits(s) \/ ChildDies(s)
      PROVE  UNCHANGED <<stopper, strayed>>
  <2>1. CASE SupervisorStep(s)
    BY <2>1 DEF SupervisorStep, Lock, Preflight, Probe, Mark, AwaitSocket, Watch, TermSun, ReapSun,
             TermHid, ReapHid, Release, Unmark, Finish, Escape, Return, operator, files
  <2>2. CASE ~SupervisorStep(s)
    BY <1>6, <2>2 DEF Die, Launch, Stop, BridgeUp, BridgeRecovers, Input, BridgeExits, ChildDies, operator
  <2>3. QED BY <2>1, <2>2
<1>7. ASSUME NEW r \in Releasers, RRelease(r) \/ RUnmark(r) PROVE UNCHANGED <<stopper, strayed>>
  BY <1>7 DEF RRelease, RUnmark, operator
<1>8. ASSUME UnitPost \/ PostStart \/ HandRelease \/ OtherProcess \/ UNCHANGED vars
      PROVE  UNCHANGED <<stopper, strayed>>
  BY <1>8 DEF UnitPost, PostStart, HandRelease, OtherProcess, vars, operator
<1>9. QED BY <1>1, <1>2, <1>3, <1>4, <1>5, <1>6, <1>7, <1>8 DEF Next

(* The invariant behind run.py stop. *)
LEMMA StopInvariant == Spec => []StopInv
<1>1. Init => StopInv
  <2> SUFFICES ASSUME Init PROVE StopInv
    OBVIOUS
  <2>1. ProcessInv BY TypeInit, ProcessInit DEF ProcessInv
  <2>2. \A s \in Starts : pc[s] = "idle" /\ ~Alive(s) BY DEF Init, Alive, Running, Cleaning
  <2>3. Stoppable /\ PidInv BY <2>2 DEF Stoppable, PidInv, Running, Cleaning
  <2>4. RecordInv /\ StopperInv /\ ~strayed BY DEF Init, RecordInv, StopperInv, NoStop
  <2>5. QED BY <2>1, <2>3, <2>4 DEF StopInv
<1>2. StopInv /\ [Next]_vars => StopInv'
  BY ProcessNext, PidNext, RecordNext, StopperNext DEF StopInv, ProcessInv
<1>3. QED BY <1>1, <1>2, PTL DEF Spec

(* From before its first child is spawned until control.json is unlinked,  *)
(* a supervisor is the one control.json names: refused second starts,      *)
(* releases and the crash of an earlier supervisor do not overwrite or     *)
(* remove it (start() in run.py).                                          *)
THEOREM ControlNamesSupervisor == Spec => []Stoppable
<1>1. StopInv => Stoppable BY DEF StopInv
<1>2. QED BY <1>1, StopInvariant, PTL

(* run.py stop signals the supervisor of the control.json it read, or      *)
(* nobody, for any number of processes and any reuse of process ids in     *)
(* between: comparing the start time after pidfd_open is enough.           *)
THEOREM StopIsAimed == Spec => []StopHitsSupervisor
<1>1. StopInv => StopHitsSupervisor BY DEF StopInv, StopHitsSupervisor
<1>2. QED BY <1>1, StopInvariant, PTL

(***************************************************************************)
(* The bridge's socket.                                                    *)
(***************************************************************************)
(* At most one supervisor has living children, orphans included. *)
LEMMA OneFamily ==
    ASSUME ProcessInv, NoBystander, NEW s \in Starts, NEW t \in Starts,
           hid[s] \in Live, hid[t] \in Live
    PROVE  s = t
<1>1. CASE Linger
  BY <1>1 DEF NoBystander, Starts, ProcessInv, UnitInv
<1>2. CASE ~Linger
  BY <1>2 DEF ProcessInv, ChildInv, LockInv, Running, Cleaning
<1>3. QED BY <1>1, <1>2

(* InputReachable is not inductive: a bridge may listen before its         *)
(* supervisor serves, and after it has ended.                              *)
ListenInv == \A s \in Starts : hid[s] = "run" => sock = s

(* Steps that neither touch the file nor let a bridge listen. *)
LEMMA ListenKept ==
    ASSUME ListenInv, sock' = sock, \A t \in Starts : hid'[t] = "run" => hid[t] = "run"
    PROVE  ListenInv'
BY DEF ListenInv

(* Only a bridge with the path to itself makes, keeps or unlinks the file. *)
LEMMA ListenNext ==
    ASSUME ProcessInv, NoBystander, ListenInv, [Next]_vars
    PROVE  ListenInv'
<1>0. TypeOK /\ "none" \notin Starts
  BY SupervisorAssumption DEF ProcessInv, Starts
<1>1. ASSUME NEW s \in Starts, SupervisorStep(s) PROVE ListenInv'
  <2>1. CASE Probe(s)
    <3>1. CASE ~Listening /\ sock' = "none" /\ hid' = [hid EXCEPT ![s] = "boot"]
      <4>1. \A t \in Starts : hid[t] # "run" BY <1>0, <3>1 DEF Listening, ListenInv
      <4>2. QED BY <1>0, <3>1, <4>1 DEF ListenInv, TypeOK
    <3>2. CASE UNCHANGED <<sock, hid>> BY <3>2, ListenKept
    <3>3. QED BY <2>1, <3>1, <3>2 DEF Probe
  <2>2. CASE TermHid(s) \/ ReapHid(s)
    BY <1>0, <2>2, ListenKept DEF TermHid, ReapHid, Term, TypeOK
  <2>3. CASE ~(Probe(s) \/ TermHid(s) \/ ReapHid(s))
    <3>1. UNCHANGED <<sock, hid>>
      BY <1>1, <2>3 DEF SupervisorStep, Lock, Preflight, Mark, AwaitSocket, Watch, TermSun, ReapSun,
                        Release, Unmark, Finish, Escape, Return, children
    <3>2. QED BY <3>1, ListenKept
  <2>4. QED BY <2>1, <2>2, <2>3
<1>2. ASSUME NEW s \in Starts, Die(s) \/ Stop(s) \/ ChildDies(s) PROVE ListenInv'
  BY <1>0, <1>2, ListenKept DEF Die, Orphaned, Stop, Signalled, Term, ChildDies, TypeOK
<1>3. ASSUME NEW s \in Starts, BridgeUp(s) PROVE ListenInv'
  <2>1. \A t \in Starts : hid[t] # "run"
    BY <1>3, OneFamily DEF BridgeUp, Live
  <2>2. \A t \in Starts : t # s => hid'[t] = hid[t] BY <1>0, <1>3 DEF BridgeUp, TypeOK
  <2>3. hid'[s] = "run" => sock' = s BY <1>0, <1>3 DEF BridgeUp, TypeOK
  <2>4. QED BY <2>1, <2>2, <2>3 DEF ListenInv
<1>4. ASSUME NEW s \in Starts, BridgeExits(s) PROVE ListenInv'
  <2>1. \A t \in Starts : hid[t] # "run"
    BY <1>4, OneFamily DEF BridgeExits, Live
  <2>2. QED BY <1>0, <1>4, <2>1 DEF BridgeExits, ListenInv, TypeOK
<1>5. ASSUME NEW s \in Starts, Launch(s) \/ BridgeRecovers(s) \/ Input(s) PROVE ListenInv'
  BY <1>5, ListenKept DEF Launch, BridgeRecovers, Input, children
<1>6. ASSUME NEW r \in Releasers, RRelease(r) \/ RUnmark(r) PROVE ListenInv'
  BY <1>6, ListenKept DEF RRelease, RUnmark, children
<1>7. CASE \/ UnitPost \/ PostStart \/ HandRelease \/ OtherProcess
           \/ StopRead \/ StopOpen \/ StopCheck \/ UNCHANGED vars
  BY <1>7, ListenKept DEF UnitPost, PostStart, HandRelease, OtherProcess, StopRead, StopOpen,
                          StopCheck, vars, children
<1>8. CASE StopSend
  BY <1>0, <1>8, ListenKept DEF StopSend, Signalled, TypeOK
<1>9. QED BY <1>1, <1>2, <1>3, <1>4, <1>5, <1>6, <1>7, <1>8 DEF Next

(* Clients of a supervisor that serves reach its own bridge: an exit or a  *)
(* start of another supervisor, or an orphaned bridge, has not unlinked    *)
(* hid.sock or taken its path (stale_socket(), the bridge's close()).      *)
THEOREM InputIsReachable == ASSUME NoBystander PROVE Spec => []InputReachable
<1>1. Init => ListenInv BY DEF Init, ListenInv
<1>2. ProcessInv /\ ListenInv /\ [Next]_vars => ListenInv' BY ListenNext
<1>3. ListenInv => InputReachable BY DEF ListenInv, InputReachable
<1>4. QED BY <1>1, <1>2, <1>3, Processes, PTL DEF Spec

(***************************************************************************)
(* The exit code.                                                          *)
(***************************************************************************)
(* A supervisor past its cleanup that has nothing to report has released   *)
(* the target and removed the marker, and neither comes back before it     *)
(* exits.                                                                  *)
ExitInv ==
    \A s \in Starts : pc[s] \in {"finish", "return"} /\ ~failed[s] => ~dirty /\ ~marker

(* Steps that bring nobody past the cleanup, and set neither flag. *)
LEMMA ExitKept ==
    ASSUME ExitInv, dirty' => dirty, marker' => marker,
           \A t \in Starts : pc'[t] \in {"finish", "return"} /\ ~failed'[t] =>
               pc[t] \in {"finish", "return"} /\ ~failed[t]
    PROVE  ExitInv'
BY DEF ExitInv

(* Nobody else is past the cleanup while a supervisor runs, and no child   *)
(* lives once one is.                                                      *)
LEMMA ExitAlone ==
    ASSUME ProcessInv, NoBystander, NEW s \in Starts, pc[s] \in {"finish", "return"}
    PROVE  /\ \A t \in Starts : pc[t] \in Running => t = s
           /\ \A t \in Starts : sun[t] \notin Live
<1>1. \A t \in Starts : pc[t] \in Running => t = s
  BY DEF ProcessInv, LockInv, Running, Cleaning
<1>2. ASSUME NEW t \in Starts, sun[t] \in Live PROVE FALSE
  <2>1. pc[t] \in {"serve", "stopsun"} \/ (Linger /\ pc[t] = "end")
    BY <1>2 DEF ProcessInv, ChildInv
  <2>2. CASE pc[t] \in {"serve", "stopsun"}
    BY <1>1, <2>2 DEF Running, Cleaning
  <2>3. CASE Linger /\ pc[t] = "end"
    BY <1>2, <2>3 DEF NoBystander, Starts, ProcessInv, UnitInv, Alive, Running, Cleaning
  <2>4. QED BY <2>1, <2>2, <2>3
<1>3. QED BY <1>1, <1>2

(* Every step keeps what the exit code will say. *)
LEMMA ExitNext ==
    ASSUME ProcessInv, NoBystander, MarkInv, ExitInv, [Next]_vars
    PROVE  ExitInv'
<1>0. TypeOK
  BY DEF ProcessInv
<1>1. ASSUME NEW s \in Starts, SupervisorStep(s) PROVE ExitInv'
  <2> USE <1>0 DEF TypeOK, Goto
  <2>1. CASE Lock(s) \/ Preflight(s) \/ Return(s)
    <3>1. UNCHANGED <<dirty, marker>> BY <2>1 DEF Lock, Preflight, Return, children
    <3>2. CASE Exits(s) BY <3>1, <3>2, ExitKept DEF Exits
    <3>3. CASE ~Exits(s) BY <2>1, <3>1, <3>3, ExitKept DEF Lock, Preflight, Return
    <3>4. QED BY <3>2, <3>3
  <2>2. CASE Probe(s)
    BY <2>2, ExitKept DEF Probe, files
  <2>3. CASE Mark(s)
    <3>1. \A t \in Starts : pc'[t] \notin {"finish", "return"}
      BY <2>3, ExitAlone DEF Mark, Running, Cleaning
    <3>2. QED BY <3>1 DEF ExitInv
  <2>4. CASE AwaitSocket(s)
    BY <2>4, ExitKept DEF AwaitSocket, files
  <2>5. CASE Watch(s)
    BY <2>5, ExitKept DEF Watch, children, files
  <2>6. CASE TermSun(s) \/ ReapSun(s) \/ TermHid(s) \/ ReapHid(s)
    BY <2>6, ExitKept DEF TermSun, ReapSun, TermHid, ReapHid, files
  <2>7. CASE Release(s)
    <3>1. /\ dirty' \in {FALSE, dirty} /\ marker' = marker
          /\ pc'[s] = "finish" => failed'[s]
          /\ pc'[s] \in {"unmark", "finish"}
          /\ \A t \in Starts : t # s => pc'[t] = pc[t] /\ failed'[t] = failed[t]
      BY <2>7, ZenonT(30) DEF Release, files
    <3>2. dirty' => dirty BY <3>1
    <3>3. QED BY <3>1, <3>2, ExitKept
  <2>8. CASE Unmark(s)
    <3>1. ~dirty' /\ ~marker' BY <2>8 DEF Unmark, MarkInv, children
    <3>2. QED BY <3>1 DEF ExitInv
  <2>9. CASE Finish(s)
    BY <2>9, ExitKept DEF Finish, children
  <2>10. CASE Escape(s)
    BY <2>10, ExitKept DEF Escape, children, files
  <2>11. QED
    BY <1>1, <2>1, <2>2, <2>3, <2>4, <2>5, <2>6, <2>7, <2>8, <2>9, <2>10 DEF SupervisorStep
<1>2. ASSUME NEW s \in Starts, Die(s) \/ Launch(s) PROVE ExitInv'
  BY <1>0, <1>2, ExitKept DEF Die, Exits, Launch, Goto, files, children, TypeOK
<1>3. ASSUME NEW s \in Starts, Input(s) PROVE ExitInv'
  <2>1. \A t \in Starts : pc[t] \notin {"finish", "return"}
    BY <1>3, ExitAlone DEF Input, Live
  <2>2. pc' = pc BY <1>3 DEF Input
  <2>3. QED BY <2>1, <2>2 DEF ExitInv
<1>4. ASSUME dirty' \in {FALSE, dirty}, marker' \in {FALSE, marker}, UNCHANGED <<pc, failed>>
      PROVE  ExitInv'
  <2>1. dirty' => dirty BY <1>4, Zenon
  <2>2. marker' => marker BY <1>4, Zenon
  <2>3. QED BY <1>4, <2>1, <2>2, ExitKept
<1>5. ASSUME NEW s \in Starts,
             Stop(s) \/ BridgeUp(s) \/ BridgeRecovers(s) \/ BridgeExits(s) \/ ChildDies(s)
      PROVE  ExitInv'
  BY <1>4, <1>5 DEF Stop, BridgeUp, BridgeRecovers, BridgeExits, ChildDies, files
<1>6. ASSUME NEW r \in Releasers, RRelease(r) \/ RUnmark(r) PROVE ExitInv'
  BY <1>4, <1>6 DEF RRelease, RUnmark, children
<1>7. CASE \/ UnitPost \/ PostStart \/ HandRelease \/ OtherProcess
           \/ StopRead \/ StopOpen \/ StopCheck \/ StopSend \/ UNCHANGED vars
  BY <1>4, <1>7 DEF UnitPost, PostStart, HandRelease, OtherProcess, StopRead, StopOpen, StopCheck,
                    StopSend, vars, children, files
<1>8. QED BY <1>1, <1>2, <1>3, <1>5, <1>6, <1>7 DEF Next

(* Exit code 0 of a supervisor means that the release was confirmed and    *)
(* the marker is gone; nobody pressed a key or wrote a marker since.       *)
THEOREM ExitCodeIsTrue == ASSUME NoBystander PROVE Spec => ExitTellsRelease
<1> DEFINE A == \A s \in Starts : Return(s) /\ ~failed[s] => ~dirty /\ ~marker
<1>1. Init => MarkInv /\ ExitInv
  BY MarkInit DEF Init, ExitInv
<1>2. ProcessInv /\ MarkInv /\ ExitInv /\ [Next]_vars => MarkInv' /\ ExitInv'
  BY MarkNext, ExitNext
<1>3. ExitInv => A BY DEF ExitInv, Return
<1>4. QED BY <1>1, <1>2, <1>3, Processes, PTL DEF Spec, ExitTellsRelease
=============================================================================
