------------------------------ MODULE KvmClient ------------------------------
(***************************************************************************)
(* The Windows client's main window (client/app/src/kvmwindow.cpp) with    *)
(* its host (kvmhost.cpp) and the quit flags of a session                  *)
(* (rkmoon_session_control.h): connect, poll, start, follow source modes,  *)
(* reconnect, cancel, forget.                                              *)
(*                                                                         *)
(* There is one thread, but handlers are interleaved by event loops: the   *)
(* main loop, the one of a modal dialog, the one that the session pumps    *)
(* without user input, the one that waits for its clean-up.  Each timer    *)
(* tick, reply, queued call and click is an action; a handler that runs a  *)
(* loop inside is one action before it and one after it.  Time is          *)
(* abstract, but for one thing: a call queued with a zero timer runs       *)
(* before the next reply, which takes a tick and a round trip.  Upstream's *)
(* Session and the server are external.                                    *)
(***************************************************************************)
EXTENDS Naturals

CONSTANTS
    Ready,             \* display modes in which the source delivers a picture
    PollFailureLimit,  \* POLL_FAILURE_LIMIT
    ReconnectLimit,    \* RECONNECT_LIMIT
    StablePolls        \* MODE_STABLE_POLLS

ASSUME ClientAssumption ==
    /\ {"no_signal", "unavailable"} \cap Ready = {}
    /\ PollFailureLimit \in Nat \ {0} /\ ReconnectLimit \in Nat \ {0}
    /\ StablePolls \in Nat \ {0}

Displays == Ready \cup {"no_signal", "unavailable"}
CanStart(d) == d \in Ready \cup {"no_signal"}

VARIABLES
    w,           \* the window's flags, counters and timers
    busy,        \* m_pollBusy: a poll is under way
    connecting,  \* m_connecting: "no", "info", "apps", or "settings" (its dialog)
    dialog,      \* the "Forget binding" question is open
    queued,      \* a call of runStream is queued
    session,     \* "none", "exec", "cleanup": m_streaming, m_cleanup
    running,     \* m_runningMode
    pendingMode, \* m_pendingMode
    display,     \* m_host.display
    computer,    \* m_host's NvComputer: "none", or one of two objects in turn
    used,        \* the NvComputer the session refers to
    bound,       \* m_config.hostUuid is stored
    quit,        \* userQuit
    stopFlag,    \* internalQuitPending
    asked        \* history: the user wants a stream (Start; no quit or Cancel since)

vars == <<w, busy, connecting, dialog, queued, session, running, pendingMode, display,
          computer, used, bound, quit, stopFlag, asked>>
host == <<display, computer, bound>>
modal == <<connecting, dialog>>
stream == <<session, running, used, quit>>

Window == [want : BOOLEAN, restart : BOOLEAN, pending : BOOLEAN, timer : BOOLEAN,
           poll : BOOLEAN, start : BOOLEAN, connected : BOOLEAN, started : BOOLEAN,
           attempt : 0 .. ReconnectLimit, failures : 0 .. PollFailureLimit,
           polls : 0 .. StablePolls - 1]

TypeOK ==
    /\ w \in Window
    /\ busy \in BOOLEAN /\ dialog \in BOOLEAN /\ queued \in BOOLEAN
    /\ connecting \in {"no", "info", "apps", "settings"}
    /\ session \in {"none", "exec", "cleanup"}
    /\ running \in Displays /\ pendingMode \in Displays /\ display \in Displays
    /\ computer \in {"none", "a", "b"} /\ used \in {"none", "a", "b"}
    /\ bound \in BOOLEAN /\ quit \in BOOLEAN /\ stopFlag \in BOOLEAN /\ asked \in BOOLEAN

(* The window is shown; a binding may be stored from an earlier run. *)
Init ==
    /\ w = [want |-> FALSE, restart |-> FALSE, pending |-> FALSE, timer |-> FALSE,
            poll |-> FALSE, start |-> FALSE, connected |-> FALSE, started |-> FALSE,
            attempt |-> 0, failures |-> 0, polls |-> 0]
    /\ busy = FALSE /\ connecting = "no" /\ dialog = FALSE /\ queued = FALSE
    /\ session = "none" /\ bound \in BOOLEAN
    /\ running = "unavailable" /\ pendingMode = "unavailable" /\ display = "unavailable"
    /\ computer = "none" /\ used = "none"
    /\ quit = FALSE /\ stopFlag = FALSE /\ asked = FALSE

Streaming == session # "none"

(***************************************************************************)
(* Helpers of KvmWindow, on its flags.                                     *)
(***************************************************************************)
StopFollowing(x) ==
    [x EXCEPT !.want = FALSE, !.restart = FALSE, !.poll = FALSE, !.timer = FALSE,
              !.pending = FALSE, !.attempt = 0, !.polls = 0]

ResumeInfoPolling(x) == [x EXCEPT !.poll = @ \/ x.connected]

Disconnected(x) == [StopFollowing(x) EXCEPT !.connected = FALSE, !.start = FALSE]

(* Mutant of ScheduleReconnect: the timer is not started. *)
ScheduleNoTimer(x) ==
    IF x.attempt >= ReconnectLimit
      THEN ResumeInfoPolling(StopFollowing(x))
      ELSE [x EXCEPT !.attempt = @ + 1, !.pending = TRUE, !.poll = TRUE, !.start = TRUE]

ScheduleReconnect(x) ==
    IF x.attempt >= ReconnectLimit
      THEN ResumeInfoPolling(StopFollowing(x))
      ELSE [x EXCEPT !.attempt = @ + 1, !.pending = TRUE, !.timer = TRUE, !.poll = TRUE,
                     !.start = TRUE]

(* Mutant of SessionEnded: the user's quit is not looked at. *)
SessionEndedAnyway(x, byUser) ==
    LET y == [x EXCEPT !.restart = FALSE, !.polls = 0]
    IN  IF x.restart THEN y ELSE ScheduleReconnect(y)

SessionEnded(x, byUser) ==
    LET y == [x EXCEPT !.want = @ /\ ~byUser, !.restart = FALSE, !.polls = 0]
    IN  IF ~y.want
          THEN ResumeInfoPolling([y EXCEPT !.timer = FALSE, !.pending = FALSE, !.attempt = 0])
        ELSE IF x.restart THEN y
        ELSE IF ~y.started /\ y.attempt = 0 THEN ResumeInfoPolling(StopFollowing(y))
        ELSE ScheduleReconnect(y)

LaunchFailed(x, transport) ==
    LET y == [x EXCEPT !.start = TRUE]
    IN  IF transport /\ y.want /\ y.attempt > 0
          THEN ScheduleReconnect(y)
          ELSE ResumeInfoPolling(StopFollowing(y))

(***************************************************************************)
(* Clicks: only while no session runs and no dialog is open.               *)
(***************************************************************************)
Clickable == session = "none" /\ ~dialog /\ connecting = "no"

(* connectHost(): another address forgets the binding first.               *)
ClickConnect ==
    /\ Clickable /\ ~busy
    /\ w' = Disconnected(w)
    /\ connecting' = "info" /\ asked' = FALSE
    /\ \/ UNCHANGED <<computer, bound>>
       \/ computer' = "none" /\ bound' = FALSE
    /\ UNCHANGED <<busy, dialog, queued, stream, pendingMode, display, stopFlag>>

(* startStream(): Start, or Cancel.  It does not wait for a poll.          *)
ClickStart ==
    /\ Clickable /\ w.start
    /\ IF w.want
         THEN w' = ResumeInfoPolling(StopFollowing(w)) /\ busy' = busy /\ asked' = FALSE
         ELSE /\ w' = [StopFollowing(w) EXCEPT !.want = TRUE, !.poll = TRUE]
              /\ busy' = TRUE /\ asked' = TRUE
    /\ UNCHANGED <<modal, queued, stream, pendingMode, host, stopFlag>>

(* The binding is dropped when the question is answered, not when it is    *)
(* asked: the dialog's event loop runs timers and replies in between.      *)
ClickForget ==
    /\ Clickable /\ ~busy
    /\ dialog' = TRUE
    /\ UNCHANGED <<w, busy, connecting, queued, stream, pendingMode, host, stopFlag, asked>>

AnswerForget ==
    /\ dialog /\ session = "none"
    /\ dialog' = FALSE
    /\ \/ UNCHANGED <<w, computer, bound, asked>>
       \/ /\ w' = Disconnected(w) /\ computer' = "none" /\ bound' = FALSE
          /\ asked' = FALSE
    /\ UNCHANGED <<busy, connecting, queued, stream, pendingMode, display, stopFlag>>

ClickSettings ==
    /\ Clickable /\ ~busy
    /\ connecting' = "settings"
    /\ UNCHANGED <<w, busy, dialog, queued, stream, pendingMode, host, stopFlag, asked>>

CloseSettings ==
    /\ connecting = "settings"
    /\ connecting' = "no"
    /\ UNCHANGED <<w, busy, dialog, queued, stream, pendingMode, host, stopFlag, asked>>

(***************************************************************************)
(* Replies.                                                                *)
(***************************************************************************)
(* Mutant of AcceptInfo: the computer is replaced during a session, too. *)
AcceptInfoAlways(d) ==
    /\ display' = d /\ bound' = TRUE
    /\ computer' = IF computer = "a" THEN "b" ELSE "a"

(* acceptInfo(): the identity is stored; a session keeps its computer.     *)
AcceptInfo(d) ==
    /\ display' = d /\ bound' = TRUE
    /\ computer' = IF Streaming THEN computer ELSE IF computer = "a" THEN "b" ELSE "a"

ConnectInfo ==
    /\ connecting = "info"
    /\ \/ \E d \in Displays : AcceptInfo(d) /\ connecting' = "apps"
       \/ connecting' = "no" /\ UNCHANGED host
    /\ UNCHANGED <<w, busy, dialog, queued, stream, pendingMode, stopFlag, asked>>

ConnectApps ==
    /\ connecting = "apps" /\ connecting' = "no"
    /\ w' \in {w, [w EXCEPT !.connected = TRUE, !.failures = 0, !.start = TRUE, !.poll = TRUE]}
    /\ UNCHANGED <<busy, dialog, queued, stream, pendingMode, host, stopFlag, asked>>

(* pollDisplay() *)
PollTick ==
    /\ w.poll /\ ~busy /\ connecting = "no"
    /\ busy' = TRUE
    /\ UNCHANGED <<w, modal, queued, stream, pendingMode, host, stopFlag, asked>>

(* Mutant of EndSession: a session that runs is not told. *)
EndSessionQuietly(x) == w' = Disconnected(x) /\ stopFlag' = stopFlag

(* What a rejected poll does: nothing is followed, and a session is        *)
(* stopped.                                                                *)
EndSession(x) == w' = Disconnected(x) /\ stopFlag' = (stopFlag \/ Streaming)

(* A poll that fails: transport failures are buffered while playing,       *)
(* recovering or idle; everything else ends what there is.                 *)
PollFails ==
    /\ busy /\ ~queued /\ busy' = FALSE
    /\ \E transient \in BOOLEAN :
          LET n == IF w.failures < PollFailureLimit THEN w.failures + 1 ELSE w.failures
              x == [w EXCEPT !.failures = n]
              recovering == w.want /\ ~Streaming /\ w.attempt > 0
              buffered == w.want /\ Streaming /\ n < PollFailureLimit
              idle == ~w.want /\ ~Streaming
          IN  \/ /\ transient /\ recovering
                 /\ w' = IF w.pending THEN x ELSE ScheduleReconnect(x)
                 /\ stopFlag' = stopFlag
              \/ /\ transient /\ (buffered \/ idle)
                 /\ w' = x /\ stopFlag' = stopFlag
              \/ /\ ~(transient /\ (recovering \/ buffered \/ idle))
                 /\ EndSession(x)
    /\ UNCHANGED <<modal, queued, stream, pendingMode, host, asked>>

(* A poll that succeeds, then what it asks for: a restart when a new mode  *)
(* was seen by consecutive polls, a launch when a stream is wanted.        *)
Follow(x, d) ==
    IF d = running THEN
        w' = [x EXCEPT !.polls = 0] /\ UNCHANGED <<pendingMode, stopFlag>>
    ELSE LET n == IF x.polls > 0 /\ d = pendingMode THEN x.polls + 1 ELSE 1
         IN  /\ pendingMode' = d
             /\ w' = [x EXCEPT !.polls = IF n < StablePolls THEN n ELSE 0,
                           !.restart = (n >= StablePolls)]
             /\ stopFlag' = (stopFlag \/ n >= StablePolls)

PollSucceeds ==
    /\ busy /\ ~queued /\ busy' = FALSE
    /\ \E d \in Displays :
          LET x == [w EXCEPT !.failures = 0, !.want = @ /\ ~(quit /\ Streaming)]
          IN  /\ AcceptInfo(d)
              /\ \/ /\ session = "exec" /\ x.want /\ ~x.restart
                    /\ Follow(x, d) /\ queued' = queued
                 \/ /\ ~(session = "exec" /\ x.want /\ ~x.restart)
                    /\ w' = x
                    /\ queued' = (queued \/ (~Streaming /\ x.want /\ ~x.pending /\ CanStart(d)))
                    /\ UNCHANGED <<pendingMode, stopFlag>>
    /\ UNCHANGED <<modal, stream, asked>>

(* Mutant of ReconnectNow: the attempt stays pending. *)
ReconnectStays ==
    /\ w.timer
    /\ w' = [w EXCEPT !.timer = FALSE]
    /\ busy' = (busy \/ connecting = "no")
    /\ UNCHANGED <<modal, queued, stream, pendingMode, host, stopFlag, asked>>

ReconnectNow ==
    /\ w.timer
    /\ IF w.want /\ ~Streaming /\ w.pending
         THEN /\ w' = [w EXCEPT !.timer = FALSE, !.pending = FALSE]
              /\ busy' = (busy \/ connecting = "no")
         ELSE w' = [w EXCEPT !.timer = FALSE] /\ busy' = busy
    /\ UNCHANGED <<modal, queued, stream, pendingMode, host, stopFlag, asked>>

(***************************************************************************)
(* The session.                                                            *)
(***************************************************************************)
Launchable == ~Streaming /\ connecting = "no" /\ w.want /\ CanStart(display)

(* runStream() up to exec(): nothing to do; refused (mouse mode) or failed *)
(* before its loop; or the session's loop runs.                            *)
RunStream ==
    /\ queued /\ queued' = FALSE
    /\ LET x == [w EXCEPT !.restart = FALSE, !.started = FALSE]
       IN  \/ ~Launchable /\ UNCHANGED <<w, stream, stopFlag>>
           \/ /\ Launchable
              /\ w' = ResumeInfoPolling(StopFollowing(w))
              /\ UNCHANGED <<stream, stopFlag>>
           \/ /\ Launchable
              /\ w' \in {LaunchFailed(x, TRUE), LaunchFailed(x, FALSE)}
              /\ running' = display
              /\ UNCHANGED <<session, used, quit, stopFlag>>
           \/ /\ Launchable
              /\ w' = [x EXCEPT !.start = FALSE]
              /\ session' = "exec" /\ running' = display /\ used' = computer
              /\ quit' = FALSE /\ stopFlag' = FALSE
    /\ UNCHANGED <<busy, modal, pendingMode, host, asked>>

(* connectionStarted *)
MarkConnected ==
    /\ session = "exec" /\ ~w.started
    /\ w' = [w EXCEPT !.started = TRUE, !.attempt = 0, !.failures = 0, !.pending = FALSE,
                      !.timer = FALSE]
    /\ UNCHANGED <<busy, modal, queued, stream, pendingMode, host, stopFlag, asked>>

(* The filter sees SDL_QUIT, also while the session is being cleaned up.   *)
UserQuits ==
    /\ Streaming /\ ~quit
    /\ quit' = TRUE /\ asked' = FALSE
    /\ UNCHANGED <<w, busy, modal, queued, session, running, used, pendingMode, host, stopFlag>>

(* exec() returns: the user quit, stop() was called, or the stream broke;  *)
(* a stop() that was not the reason stays set.                             *)
ExecReturns ==
    /\ session = "exec"
    /\ session' = "cleanup" /\ stopFlag' \in {FALSE, stopFlag}
    /\ UNCHANGED <<w, busy, modal, queued, running, used, quit, pendingMode, host, asked>>

(* readyForDeletion, then sessionEnded() *)
CleanupDone ==
    /\ session = "cleanup"
    /\ session' = "none" /\ used' = "none"
    /\ w' = SessionEnded([w EXCEPT !.start = TRUE], quit)
    /\ UNCHANGED <<busy, modal, queued, running, quit, pendingMode, host, stopFlag, asked>>

Next ==
    \/ ClickConnect \/ ClickStart \/ ClickForget \/ AnswerForget \/ ClickSettings \/ CloseSettings
    \/ ConnectInfo \/ ConnectApps \/ PollTick \/ PollFails \/ PollSucceeds \/ ReconnectNow
    \/ RunStream \/ MarkConnected \/ UserQuits \/ ExecReturns \/ CleanupDone

Spec == Init /\ [][Next]_vars

(* Timers fire, requests are answered or time out, queued calls run, the   *)
(* session's loop sees stop() and SDL_QUIT, and clean-up ends.  No click,  *)
(* quit or successful answer is assumed.                                   *)
FairSpec ==
    /\ Spec
    /\ WF_vars(PollTick) /\ WF_vars(PollFails \/ PollSucceeds) /\ WF_vars(ReconnectNow)
    /\ WF_vars(RunStream) /\ WF_vars((stopFlag \/ quit) /\ ExecReturns) /\ WF_vars(CleanupDone)

(***************************************************************************)
(* Correctness.                                                            *)
(***************************************************************************)
(* The session's NvComputer lives as long as the session: no poll, forget  *)
(* or connect replaces it ("The Session and NvComputer must outlive        *)
(* readyForDeletion"), and no session starts without one.                  *)
StreamHasHost == Streaming => used # "none" /\ computer = used

(* A user who quits or cancels is not overridden: a session starts only    *)
(* when Start was clicked and neither Quit, Cancel, Connect nor Forget     *)
(* since ("Explicit stream exit or Cancel stops automatic reconnect").     *)
QuitWins == [][session = "none" /\ session' = "exec" => asked]_vars

(* A client that wants a stream and has none will act again: it polls, and *)
(* a pending reconnect has its timer running.                              *)
WantIsDriven ==
    w.want /\ ~Streaming => w.poll /\ (w.pending => w.timer)

(* It does not wait for ever: it starts a session or gives up, unless the  *)
(* capture has nothing to show or a dialog holds everything.               *)
WantResolves ==
    (w.want /\ ~Streaming)
        ~> (Streaming \/ ~w.want \/ ~CanStart(display) \/ connecting # "no")

(* A session that is no longer wanted ends: the user quit, or a poll found *)
(* that the host is gone, another one or refuses the password.             *)
UnwantedEnds == (Streaming /\ ~w.want) ~> ~Streaming

(* "Use Forget host binding to drop the stored host identity": once it is  *)
(* dropped, only Connect stores one again.                                 *)
ForgetIsFinal == [][~bound /\ bound' => connecting = "info"]_vars
==============================================================================
