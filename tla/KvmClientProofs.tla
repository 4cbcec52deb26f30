--------------------------- MODULE KvmClientProofs ---------------------------
(***************************************************************************)
(* Theorems about KvmClient, for every set of display modes and every      *)
(* limit.  One inductive invariant carries them: who guarantees that there *)
(* is a host (HostInv), that the user asked (AskInv), and that something   *)
(* will happen (DriveInv).                                                 *)
(***************************************************************************)
EXTENDS KvmClient, TLAPS

(* Whoever may lead to a session has a computer, and a session its own.    *)
(* The question is only open while nothing connects, so that its answer    *)
(* cannot take the computer from a connect.                                *)
HostInv ==
    /\ w.want \/ w.start \/ connecting = "apps" \/ Streaming => computer # "none"
    /\ Streaming => used = computer
    /\ dialog => connecting = "no"

(* A wish is the user's, unless a quit is still to be seen.                *)
AskInv == w.want => asked \/ (Streaming /\ quit)

(* A wish keeps the poll timer running; a pending attempt has its timer    *)
(* and excludes a session and a queued launch.                             *)
DriveInv ==
    /\ w.want => w.poll
    /\ w.pending => w.want /\ w.timer /\ ~Streaming /\ ~queued
    /\ queued => ~Streaming

ClientInv == TypeOK /\ HostInv /\ AskInv /\ DriveInv

(***************************************************************************)
(* The helpers on the window's flags.                                      *)
(***************************************************************************)
(* What DriveInv says of the flags alone. *)
Driven(x) == x \in Window /\ (x.want => x.poll) /\ (x.pending => x.want /\ x.timer)

(* The counters may be reset.                                               *)
LEMMA Zero == 0 \in 0 .. ReconnectLimit /\ 0 \in 0 .. PollFailureLimit /\ 0 \in 0 .. StablePolls - 1
BY ClientAssumption

(* stopFollowing() leaves no wish and no attempt, and keeps Start as it is. *)
LEMMA Stopped ==
    ASSUME NEW x \in Window
    PROVE  LET y == StopFollowing(x)
           IN  y \in Window /\ ~y.want /\ ~y.pending /\ y.start = x.start
BY Zero DEF StopFollowing, Window

(* resumeInfoPolling() touches nothing but the poll timer, and stops it     *)
(* never.                                                                   *)
LEMMA Resumed ==
    ASSUME NEW x \in Window
    PROVE  LET y == ResumeInfoPolling(x)
           IN  /\ y \in Window /\ y.want = x.want /\ y.pending = x.pending
               /\ y.timer = x.timer /\ y.start = x.start /\ (x.poll => y.poll)
BY DEF ResumeInfoPolling, Window

(* Giving up: stopFollowing(), then resumeInfoPolling().                    *)
LEMMA GivenUp ==
    ASSUME NEW x \in Window
    PROVE  LET y == ResumeInfoPolling(StopFollowing(x))
           IN  Driven(y) /\ ~y.want /\ ~y.pending /\ y.start = x.start
<1>1. StopFollowing(x) \in Window /\ ~StopFollowing(x).want /\ ~StopFollowing(x).pending
      /\ StopFollowing(x).start = x.start
  BY Stopped
<1>2. QED BY <1>1, Resumed DEF Driven

(* What a rejected poll, a connect and a forget leave. *)
LEMMA LetGo ==
    ASSUME NEW x \in Window
    PROVE  LET y == Disconnected(x)
           IN  Driven(y) /\ ~y.want /\ ~y.pending /\ ~y.start
<1>1. StopFollowing(x) \in Window /\ ~StopFollowing(x).want /\ ~StopFollowing(x).pending
  BY Stopped
<1>2. QED BY <1>1 DEF Disconnected, Driven, Window

(* scheduleReconnect() is driven by its timer, or gives up; it wishes       *)
(* nothing that was not wished.                                             *)
LEMMA Scheduled ==
    ASSUME NEW x, Driven(x), x.want
    PROVE  Driven(ScheduleReconnect(x))
<1>1. x \in Window BY DEF Driven
<1>2. CASE x.attempt >= ReconnectLimit
  BY <1>1, <1>2, GivenUp DEF ScheduleReconnect
<1>3. CASE ~(x.attempt >= ReconnectLimit)
  <2>1. x.attempt + 1 \in 0 .. ReconnectLimit
    BY <1>1, <1>3, ClientAssumption DEF Window
  <2>2. QED BY <1>1, <1>3, <2>1 DEF ScheduleReconnect, Driven, Window
<1>4. QED BY <1>2, <1>3

(* sessionEnded() wishes on only when the user has not quit.                *)
LEMMA Ended ==
    ASSUME NEW x, Driven(x), NEW byUser \in BOOLEAN
    PROVE  LET y == SessionEnded(x, byUser)
           IN  Driven(y) /\ (y.want => x.want /\ ~byUser)
<1> DEFINE y == [x EXCEPT !.want = @ /\ ~byUser, !.restart = FALSE, !.polls = 0]
<1>1. /\ y \in Window /\ (y.want <=> x.want /\ ~byUser) /\ y.poll = x.poll
      /\ y.pending = x.pending /\ y.timer = x.timer
  BY Zero DEF Driven, Window
<1>2. CASE ~y.want
  <2> DEFINE z == [y EXCEPT !.timer = FALSE, !.pending = FALSE, !.attempt = 0]
  <2>1. z \in Window /\ ~z.want /\ ~z.pending
    BY <1>1, <1>2, Zero DEF Window
  <2>2. SessionEnded(x, byUser) = ResumeInfoPolling(z)
    BY <1>2 DEF SessionEnded
  <2> HIDE DEF z
  <2>3. QED BY <2>1, <2>2, Resumed DEF Driven
<1>3. CASE y.want
  <2>1. Driven(y) BY <1>1, <1>3 DEF Driven
  <2>2. x.want /\ ~byUser BY <1>1, <1>3
  <2>3. SessionEnded(x, byUser) \in
            {y, ResumeInfoPolling(StopFollowing(y)), ScheduleReconnect(y)}
    BY <1>3 DEF SessionEnded
  <2> HIDE DEF y
  <2>4. QED BY <1>1, <1>3, <2>1, <2>2, <2>3, GivenUp, Scheduled
<1>4. QED BY <1>2, <1>3

(* launchFailed() *)
LEMMA Failed ==
    ASSUME NEW x, Driven(x), NEW transport \in BOOLEAN
    PROVE  LET y == LaunchFailed(x, transport)
           IN  Driven(y) /\ (y.want => x.want)
<1> DEFINE y == [x EXCEPT !.start = TRUE]
<1>1. Driven(y) /\ y \in Window /\ y.want = x.want
  BY DEF Driven, Window
<1>2. \/ LaunchFailed(x, transport) = ScheduleReconnect(y) /\ y.want
      \/ LaunchFailed(x, transport) = ResumeInfoPolling(StopFollowing(y))
  BY DEF LaunchFailed
<1> HIDE DEF y
<1>3. QED BY <1>1, <1>2, Scheduled, GivenUp

(***************************************************************************)
(* The invariant holds initially and every action keeps it.                *)
(***************************************************************************)
(* The window as it is shown. *)
LEMMA ClientInit == Init => ClientInv
<1> SUFFICES ASSUME Init PROVE ClientInv
  OBVIOUS
<1>1. w \in Window BY Zero DEF Init, Window
<1>2. TypeOK BY <1>1 DEF Init, TypeOK, Displays
<1>3. HostInv /\ AskInv /\ DriveInv
  BY DEF Init, HostInv, AskInv, DriveInv, Streaming
<1>4. QED BY <1>2, <1>3 DEF ClientInv

(* Each kind of event keeps the invariant. *)
LEMMA ClientNext == ClientInv /\ [Next]_vars => ClientInv'
<1> SUFFICES ASSUME ClientInv, [Next]_vars PROVE ClientInv'
  OBVIOUS
<1> USE DEF ClientInv
<1>w. Driven(w) /\ w \in Window
  BY DEF Driven, DriveInv, TypeOK
<1>1. CASE ClickConnect
  <2>1. Driven(w') /\ ~w'.want /\ ~w'.pending /\ ~w'.start
    BY <1>w, <1>1, LetGo DEF ClickConnect
  <2>2. QED BY <1>1, <2>1 DEF ClickConnect, Clickable, TypeOK, HostInv, AskInv, DriveInv,
                 Driven, Streaming, stream
<1>2. CASE ClickStart
  <2>1. CASE w.want
    <3>1. Driven(w') /\ ~w'.want /\ ~w'.pending /\ w'.start = w.start
      BY <1>w, <1>2, <2>1, GivenUp DEF ClickStart
    <3>2. QED BY <1>2, <2>1, <3>1 DEF ClickStart, Clickable, TypeOK, HostInv, AskInv, DriveInv,
                   Driven, Streaming, stream, modal, host
  <2>2. CASE ~w.want
    <3>1. /\ StopFollowing(w) \in Window /\ ~StopFollowing(w).pending
          /\ StopFollowing(w).start = w.start
      BY <1>w, Stopped
    <3>2. w' = [StopFollowing(w) EXCEPT !.want = TRUE, !.poll = TRUE]
      BY <1>2, <2>2 DEF ClickStart
    <3>3. w' \in Window /\ w'.want /\ w'.poll /\ ~w'.pending /\ w'.start = w.start
      BY <3>1, <3>2 DEF Window
    <3>4. QED BY <1>2, <2>2, <3>3 DEF ClickStart, Clickable, TypeOK, HostInv, AskInv, DriveInv,
                   Streaming, stream, modal, host
  <2>3. QED BY <2>1, <2>2
<1>3. CASE ClickForget
  BY <1>3 DEF ClickForget, Clickable, TypeOK, HostInv, AskInv, DriveInv, Streaming, stream, host
<1>4. CASE AnswerForget
  <2>1. CASE UNCHANGED <<w, computer, bound, asked>>
    BY <1>4, <2>1 DEF AnswerForget, TypeOK, HostInv, AskInv, DriveInv, Streaming, stream
  <2>2. CASE w' = Disconnected(w) /\ computer' = "none" /\ bound' = FALSE /\ asked' = FALSE
    <3>1. Driven(w') /\ ~w'.want /\ ~w'.pending /\ ~w'.start
      BY <1>w, <2>2, LetGo
    <3>2. QED BY <1>4, <2>2, <3>1 DEF AnswerForget, TypeOK, HostInv, AskInv, DriveInv, Driven,
                   Streaming, stream
  <2>3. QED BY <1>4, <2>1, <2>2 DEF AnswerForget
<1>5. CASE ClickSettings \/ CloseSettings
  BY <1>5 DEF ClickSettings, CloseSettings, Clickable, TypeOK, HostInv, AskInv, DriveInv,
              Streaming, stream, host
<1>6. CASE ConnectInfo
  BY <1>6 DEF ConnectInfo, AcceptInfo, TypeOK, HostInv, AskInv, DriveInv, Streaming, stream, host
<1>7. CASE ConnectApps
  <2>1. /\ w' \in Window /\ w'.want = w.want /\ w'.pending = w.pending /\ w'.timer = w.timer
        /\ (w.poll => w'.poll)
    BY <1>w, <1>7, Zero DEF ConnectApps, Window
  <2>2. QED BY <1>7, <2>1 DEF ConnectApps, TypeOK, HostInv, AskInv, DriveInv, Streaming, stream, host
<1>8. CASE PollTick
  BY <1>8 DEF PollTick, TypeOK, HostInv, AskInv, DriveInv, Streaming, stream, modal, host
<1>9. CASE PollFails
  <2> DEFINE n == IF w.failures < PollFailureLimit THEN w.failures + 1 ELSE w.failures
             x == [w EXCEPT !.failures = n]
  <2>1. n \in 0 .. PollFailureLimit
    BY <1>w, ClientAssumption DEF Window
  <2>2. /\ Driven(x) /\ x \in Window /\ x.want = w.want /\ x.pending = w.pending
        /\ x.timer = w.timer /\ x.start = w.start
    <3> HIDE DEF n
    <3>1. QED BY <1>w, <2>1 DEF Driven, Window
  <2>3. \/ w' = x /\ stopFlag' = stopFlag
        \/ w' = ScheduleReconnect(x) /\ w.want /\ ~Streaming /\ stopFlag' = stopFlag
        \/ w' = Disconnected(x) /\ stopFlag' = (stopFlag \/ Streaming)
    BY <1>9 DEF PollFails, EndSession
  <2> HIDE DEF x
  <2>4. /\ Driven(w')
        /\ \/ w'.want = w.want /\ w'.pending = w.pending /\ w'.start = w.start
           \/ w.want /\ ~Streaming
           \/ ~w'.want /\ ~w'.pending /\ ~w'.start
    BY <2>2, <2>3, Scheduled, LetGo
  <2>5. busy' \in BOOLEAN /\ stopFlag' \in BOOLEAN
    BY <1>9, <2>3 DEF PollFails, TypeOK, Streaming
  <2>6. QED BY <1>9, <2>4, <2>5 DEF PollFails, TypeOK, HostInv, AskInv, DriveInv, Driven, Streaming,
                 stream, modal, host
<1>10. CASE PollSucceeds
  <2> DEFINE x == [w EXCEPT !.failures = 0, !.want = @ /\ ~(quit /\ Streaming)]
  <2>1. /\ x \in Window /\ (x.want <=> w.want /\ ~(quit /\ Streaming)) /\ x.pending = w.pending
        /\ x.timer = w.timer /\ x.start = w.start /\ x.poll = w.poll
    BY <1>w, Zero DEF Window
  <2>2. PICK d \in Displays :
          /\ AcceptInfo(d)
          /\ \/ session = "exec" /\ x.want /\ ~x.restart /\ Follow(x, d) /\ queued' = queued
             \/ /\ w' = x
                /\ queued' = (queued \/ (~Streaming /\ x.want /\ ~x.pending /\ CanStart(d)))
                /\ UNCHANGED <<pendingMode, stopFlag>>
    BY <1>10 DEF PollSucceeds
  <2> HIDE DEF x
  <2>3. /\ w' \in Window /\ (w'.want <=> w.want /\ ~(quit /\ Streaming)) /\ w'.pending = w.pending
        /\ w'.timer = w.timer /\ w'.start = w.start /\ w'.poll = w.poll
        /\ pendingMode' \in Displays /\ stopFlag' \in BOOLEAN
    <3>1. CASE Follow(x, d)
      <4>1. CASE d = running
        BY <2>1, <3>1, <4>1, Zero DEF Follow, Window, TypeOK
      <4>2. CASE d # running
        <5> DEFINE n == IF x.polls > 0 /\ d = pendingMode THEN x.polls + 1 ELSE 1
                   m == IF n < StablePolls THEN n ELSE 0
        <5>1. m \in 0 .. StablePolls - 1 /\ (n >= StablePolls) \in BOOLEAN
          BY <2>1, ClientAssumption DEF Window
        <5>2. /\ w' = [x EXCEPT !.polls = m, !.restart = (n >= StablePolls)]
              /\ pendingMode' = d /\ stopFlag' = (stopFlag \/ n >= StablePolls)
          BY <3>1, <4>2 DEF Follow
        <5> HIDE DEF n, m
        <5>3. stopFlag' \in BOOLEAN BY <5>2, Zenon DEF TypeOK
        <5>4. /\ w' \in Window /\ w'.want = x.want /\ w'.pending = x.pending
              /\ w'.timer = x.timer /\ w'.start = x.start /\ w'.poll = x.poll
          BY <2>1, <5>1, <5>2 DEF Window
        <5>5. QED BY <2>1, <5>2, <5>3, <5>4
      <4>3. QED BY <4>1, <4>2
    <3>2. CASE w' = x /\ UNCHANGED <<pendingMode, stopFlag>>
      BY <2>1, <3>2 DEF TypeOK
    <3>3. QED BY <2>2, <3>1, <3>2
  <2>4. /\ display' \in Displays /\ bound' \in BOOLEAN /\ computer' \in {"a", "b", computer}
        /\ (Streaming => computer' = computer) /\ (~Streaming => computer' # "none")
    BY <2>2 DEF AcceptInfo, TypeOK
  <2>5. queued' \in BOOLEAN /\ (queued' => ~Streaming /\ ~w.pending)
    <3>1. ~queued BY <1>10 DEF PollSucceeds
    <3>2. \/ queued' = queued
          \/ queued' = (queued \/ (~Streaming /\ x.want /\ ~x.pending /\ CanStart(d)))
      BY <2>2, Zenon
    <3>3. queued' \in BOOLEAN BY <3>2, Zenon DEF TypeOK
    <3>4. queued' => ~Streaming /\ ~x.pending BY <3>1, <3>2, Zenon
    <3>5. QED BY <2>1, <3>3, <3>4
  <2>6. QED BY <1>10, <2>3, <2>4, <2>5 DEF PollSucceeds, TypeOK, HostInv, AskInv, DriveInv,
                 Streaming, stream, modal
<1>11. CASE ReconnectNow
  <2>1. /\ w' \in Window /\ w'.want = w.want /\ w'.poll = w.poll /\ w'.start = w.start
        /\ ~w'.pending
    BY <1>w, <1>11 DEF ReconnectNow, Window, DriveInv
  <2>2. QED BY <1>11, <2>1 DEF ReconnectNow, TypeOK, HostInv, AskInv, DriveInv, Streaming,
                 stream, modal, host
<1>12. CASE RunStream
  <2> DEFINE x == [w EXCEPT !.restart = FALSE, !.started = FALSE]
  <2>1. Driven(x) /\ x \in Window /\ x.want = w.want /\ ~x.pending
    BY <1>w, <1>12 DEF RunStream, Driven, Window, DriveInv
  <2>2. CASE UNCHANGED <<w, stream, stopFlag>>
    BY <1>12, <2>2 DEF RunStream, TypeOK, HostInv, AskInv, DriveInv, Streaming, stream, modal, host
  <2>3. CASE Launchable /\ w' = ResumeInfoPolling(StopFollowing(w)) /\ UNCHANGED <<stream, stopFlag>>
    <3>1. Driven(w') /\ ~w'.want /\ ~w'.pending
      BY <1>w, <2>3, GivenUp
    <3>2. QED BY <1>12, <2>3, <3>1 DEF RunStream, Launchable, TypeOK, HostInv, AskInv, DriveInv,
                   Driven, Streaming, stream, modal, host
  <2>4. CASE /\ Launchable
             /\ w' \in {LaunchFailed(x, TRUE), LaunchFailed(x, FALSE)}
             /\ running' = display
             /\ UNCHANGED <<session, used, quit, stopFlag>>
    <3> HIDE DEF x
    <3>1. Driven(w') BY <2>1, <2>4, Failed
    <3>2. QED BY <1>12, <2>4, <3>1 DEF RunStream, Launchable, TypeOK, HostInv, AskInv, DriveInv,
                   Driven, Streaming, modal, host
  <2>5. CASE /\ Launchable
             /\ w' = [x EXCEPT !.start = FALSE]
             /\ session' = "exec" /\ running' = display /\ used' = computer
             /\ quit' = FALSE /\ stopFlag' = FALSE
    <3> HIDE DEF x
    <3>1. w' \in Window /\ w'.want = w.want /\ ~w'.pending /\ (w'.want => w'.poll)
      BY <2>1, <2>5 DEF Driven, Window
    <3>2. QED BY <1>12, <2>5, <3>1 DEF RunStream, Launchable, TypeOK, HostInv, AskInv, DriveInv,
                   Streaming, modal, host
  <2>6. QED BY <1>12, <2>2, <2>3, <2>4, <2>5 DEF RunStream
<1>13. CASE MarkConnected
  <2>1. /\ w' \in Window /\ w'.want = w.want /\ w'.poll = w.poll /\ w'.start = w.start
        /\ ~w'.pending
    BY <1>w, <1>13, Zero DEF MarkConnected, Window
  <2>2. QED BY <1>13, <2>1 DEF MarkConnected, TypeOK, HostInv, AskInv, DriveInv, Streaming,
                 stream, modal, host
<1>14. CASE UserQuits
  BY <1>14 DEF UserQuits, TypeOK, HostInv, AskInv, DriveInv, Streaming, modal, host
<1>15. CASE ExecReturns
  BY <1>15 DEF ExecReturns, TypeOK, HostInv, AskInv, DriveInv, Streaming, modal, host
<1>16. CASE CleanupDone
  <2> DEFINE x == [w EXCEPT !.start = TRUE]
  <2>1. Driven(x) /\ x.want = w.want BY <1>w DEF Driven, Window
  <2>2. w' = SessionEnded(x, quit) /\ quit \in BOOLEAN
    BY <1>16 DEF CleanupDone, TypeOK
  <2> HIDE DEF x
  <2>3. Driven(w') /\ (w'.want => w.want /\ ~quit)
    BY <2>1, <2>2, Ended
  <2>4. QED BY <1>16, <2>3 DEF CleanupDone, TypeOK, HostInv, AskInv, DriveInv, Driven, Streaming,
                 modal, host
<1>17. CASE UNCHANGED vars
  BY <1>17 DEF vars, TypeOK, HostInv, AskInv, DriveInv, Streaming
<1>18. QED
  BY <1>1, <1>2, <1>3, <1>4, <1>5, <1>6, <1>7, <1>8, <1>9, <1>10, <1>11, <1>12, <1>13, <1>14,
     <1>15, <1>16, <1>17 DEF Next

(* Host, wish and drive are in order in every state of KvmWindow.          *)
THEOREM ClientInvariant == Spec => []ClientInv
<1>1. QED BY ClientInit, ClientNext, PTL DEF Spec

(***************************************************************************)
(* Results.                                                                *)
(***************************************************************************)
(* The flags and counters of KvmWindow stay in their types and limits.     *)
THEOREM ClientTypes == Spec => []TypeOK
<1>1. ClientInv => TypeOK BY DEF ClientInv
<1>2. QED BY <1>1, ClientInvariant, PTL

(* A session has a host, and no poll, connect or forget replaces it before *)
(* the session's clean-up is over (runStream, acceptInfo).                 *)
THEOREM SessionKeepsHost == Spec => []StreamHasHost
<1>1. ClientInv => StreamHasHost BY DEF ClientInv, HostInv, StreamHasHost
<1>2. QED BY <1>1, ClientInvariant, PTL

(* A client that wants a stream and has none polls, and a pending          *)
(* reconnect has its timer (scheduleReconnect, reconnectNow).              *)
THEOREM WishIsDriven == Spec => []WantIsDriven
<1>1. ClientInv => WantIsDriven BY DEF ClientInv, DriveInv, WantIsDriven
<1>2. QED BY <1>1, ClientInvariant, PTL

(* No session starts that the user has not asked for, or has quit,         *)
(* cancelled or forgotten since (sessionEnded, pollDisplay, runStream).    *)
THEOREM UserQuitWins == Spec => QuitWins
<1>1. ClientInv /\ [Next]_vars => [session = "none" /\ session' = "exec" => asked]_vars
  <2> SUFFICES ASSUME ClientInv, Next, session = "none", session' = "exec"
               PROVE  asked
    BY DEF vars
  <2>1. RunStream
    BY DEF Next, ClickConnect, ClickStart, ClickForget, AnswerForget, ClickSettings,
           CloseSettings, ConnectInfo, ConnectApps, PollTick, PollFails, PollSucceeds,
           ReconnectNow, MarkConnected, UserQuits, ExecReturns, CleanupDone, stream
  <2>2. w.want BY <2>1 DEF RunStream, Launchable, stream
  <2>3. QED BY <2>2 DEF ClientInv, AskInv, Streaming
<1>2. QED BY <1>1, ClientInvariant, PTL DEF Spec, QuitWins
==============================================================================
