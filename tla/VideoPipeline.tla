---------------------------- MODULE VideoPipeline ----------------------------
(***************************************************************************)
(* One video session: the capture() thread of the Sunshine bridge          *)
(* (sunshine/rkmoon_bridge.cpp), the worker process it spawns              *)
(* (src/worker_main.cpp) with its encoder and its HDMI capture, the socket *)
(* between them, and the sender's packet queue.                            *)
(*                                                                         *)
(* The worker has one access unit (AU) in flight and waits for its ACK;    *)
(* IDR requests travel in the same FIFO as the ACKs.  The worker survives  *)
(* capture faults by reopening capture and encoder; the bridge survives a  *)
(* slow sender by dropping AUs and asking for an IDR.                      *)
(*                                                                         *)
(* Time is abstract: a timeout may expire at any step that waits.  Pixels, *)
(* AU bytes and timestamps are not modelled; of an AU the session can tell *)
(* apart its sequence number, whether it is an IDR, and which instance of  *)
(* the encoder made it (a P frame refers to the AU that instance made      *)
(* before it).  Bitrate and stop messages are never sent by this bridge.   *)
(***************************************************************************)
EXTENDS Naturals, Sequences

CONSTANTS
    QueueLimit,      \* packets the sender queue holds (2 in the code)
    RecoveryWindow,  \* reopen attempts that fit into the 5 s window
    MaxSeq,          \* bound: AU sequence numbers
    MaxEncoders,     \* bound: encoder instances
    IdrBacklog       \* bound: client IDR requests under way

ASSUME VideoAssumption ==
    /\ QueueLimit \in Nat \ {0} /\ RecoveryWindow \in Nat \ {0}
    /\ MaxSeq \in Nat \ {0} /\ MaxEncoders \in Nat \ {0} /\ IdrBacklog \in Nat

VARIABLES
    placeholder,  \* the worker encodes black, there is no HDMI signal
    wpc,          \* worker: "none", "open", "loop", "grab", "ack", "check",
                  \*         "reopen", "exit"
    enc,          \* the live encoder instance, 0 when there is none
    encoders,     \* encoder instances made so far
    seq,          \* the live encoder's sequence counter
    resume,       \* recover(): the sequence to continue from
    tries,        \* recover(): attempts since the last encoded AU
    force,        \* the next AU must be an IDR
    frames,       \* socket, worker to bridge
    controls,     \* socket, bridge to worker
    bpc,          \* bridge: "spawn", "ready", "loop", "offer", "drop", "ack",
                  \*         "ended", "over"
    cur,          \* the AU the bridge is handling
    gate,         \* SequenceGate: the last accepted number, 0: need an IDR
    awaitIdr,     \* await_idr: AUs are dropped until an IDR comes
    idrMail,      \* the client asked for an IDR
    shutdown,     \* shutdown_event
    queue,        \* packets waiting for the sender
    shown,        \* the last packet sent: what the client's decoder refers to
    owed,         \* history: 0, or 1 + the P frames encoded since an IDR was
                  \*          requested and none has been encoded
    fault         \* the protocol error that ended the worker or the session

encoder == <<enc, encoders, seq, resume, tries, force>>
worker == <<placeholder, wpc, encoder, owed>>
session == <<cur, gate, awaitIdr>>
mails == <<idrMail, shutdown>>
sender == <<queue, shown>>
vars == <<placeholder, wpc, enc, encoders, seq, resume, tries, force, frames,
          controls, bpc, cur, gate, awaitIdr, idrMail, shutdown, queue, shown, owed, fault>>

AU(s, i, e) == [kind |-> "frame", seq |-> s, idr |-> i, enc |-> e]
ReadyMsg == [kind |-> "ready", seq |-> 0, idr |-> FALSE, enc |-> 0]
NoAU == AU(0, FALSE, 0)
AUs == [kind : {"frame"}, seq : Nat, idr : BOOLEAN, enc : Nat]
IdrMsg == [kind |-> "idr", seq |-> 0]
AckMsg(s) == [kind |-> "ack", seq |-> s]
Controls == [kind : {"idr", "ack"}, seq : Nat]

Session == {"loop", "offer", "drop", "ack"}   \* the bridge's main loop
Gone == {"none", "exit"}                      \* no worker runs

TypeOK ==
    /\ placeholder \in BOOLEAN /\ force \in BOOLEAN
    /\ wpc \in {"none", "open", "loop", "grab", "ack", "check", "reopen", "exit"}
    /\ enc \in Nat /\ encoders \in Nat /\ seq \in Nat /\ resume \in Nat
    /\ tries \in 0 .. RecoveryWindow
    /\ frames \in Seq(AUs \cup {ReadyMsg})
    /\ controls \in Seq(Controls)
    /\ bpc \in Session \cup {"spawn", "ready", "ended", "over"}
    /\ cur \in AUs /\ gate \in Nat
    /\ awaitIdr \in BOOLEAN /\ idrMail \in BOOLEAN /\ shutdown \in BOOLEAN
    /\ queue \in Seq(AUs) /\ Len(queue) <= QueueLimit /\ shown \in AUs
    /\ owed \in Nat
    /\ fault \in {"none", "gate", "ack", "control"}

Init ==
    /\ placeholder \in BOOLEAN
    /\ wpc = "none" /\ enc = 0 /\ encoders = 0 /\ seq = 0 /\ resume = 0 /\ tries = 0
    /\ force = TRUE /\ frames = <<>> /\ controls = <<>>
    /\ bpc = "spawn" /\ cur = NoAU /\ gate = 0 /\ awaitIdr = FALSE
    /\ idrMail = FALSE /\ shutdown = FALSE
    /\ queue = <<>> /\ shown = NoAU /\ owed = 0 /\ fault = "none"

(***************************************************************************)
(* The worker.                                                             *)
(***************************************************************************)
(* An exception that leaves main: exit code 75, the encoder dies first,    *)
(* then the capture.                                                       *)
WorkerExit(why) ==
    /\ wpc' = "exit" /\ enc' = 0
    /\ fault' = IF fault = "none" THEN why ELSE fault
    /\ UNCHANGED <<placeholder, encoders, seq, resume, tries, force, owed, frames>>

(* The bridge has closed its end of the socket. *)
PeerClosed == bpc \in {"ended", "over"}

Open ==
    /\ wpc = "open"
    /\ \/ /\ ~PeerClosed /\ wpc' = "loop"
          /\ encoders' = encoders + 1 /\ enc' = encoders' /\ seq' = 0 /\ force' = TRUE
          /\ frames' = Append(frames, ReadyMsg)
          /\ UNCHANGED <<placeholder, resume, tries, owed, fault>>
       \/ WorkerExit("none")
    /\ UNCHANGED <<controls, bpc, session, mails, sender>>

(* The loop drains the queued controls.  An ACK here was not asked for.    *)
Drain ==
    /\ wpc = "loop" /\ controls # <<>>
    /\ controls' = Tail(controls)
    /\ IF Head(controls).kind = "idr"
         THEN /\ force' = TRUE
              /\ UNCHANGED <<placeholder, wpc, enc, encoders, seq, resume, tries, owed, frames, fault>>
         ELSE WorkerExit("control")
    /\ UNCHANGED <<bpc, session, mails, sender>>

(* recover(): the sequence to continue from is read from the encoder; when *)
(* an earlier reopen failed there is none and it is 0.  Encoder and        *)
(* capture are torn down, unless the recovery window is over.              *)
Recover ==
    \/ /\ tries < RecoveryWindow
       /\ tries' = tries + 1
       /\ resume' = IF enc # 0 THEN seq ELSE 0
       /\ enc' = 0 /\ wpc' = "reopen"
       /\ UNCHANGED <<placeholder, encoders, seq, force, owed, frames, fault>>
    \/ /\ tries > 0
       /\ WorkerExit("none")

(* Controls are drained (the placeholder loop only drains while it waits   *)
(* for its next frame time): take a frame, or try to reopen again.         *)
Proceed ==
    /\ wpc = "loop"
    /\ controls = <<>> \/ placeholder
    /\ \/ /\ enc # 0
          /\ wpc' = "grab"
          /\ UNCHANGED <<placeholder, encoder, owed, frames, fault>>
       \/ enc = 0 /\ Recover
    /\ UNCHANGED <<controls, bpc, session, mails, sender>>

(* latest() times out, finds a source change or a bad buffer.              *)
CaptureFault ==
    /\ wpc = "grab" /\ ~placeholder /\ encoders < MaxEncoders
    /\ Recover
    /\ UNCHANGED <<controls, bpc, session, mails, sender>>

(* Mutant of Reopen: the new encoder does not continue the sequence. *)
ReopenRestarts ==
    /\ wpc = "reopen"
    /\ encoders' = encoders + 1 /\ enc' = encoders' /\ seq' = 0
    /\ force' = TRUE /\ wpc' = "loop"
    /\ UNCHANGED <<placeholder, resume, tries, owed, frames, fault, controls, bpc, session,
                   mails, sender>>

(* open_pipeline() with the negotiated mode, then continue_sequence();     *)
(* a changed mode is fatal, any other failure is tried again.              *)
Reopen ==
    /\ wpc = "reopen"
    /\ \/ /\ encoders' = encoders + 1 /\ enc' = encoders' /\ seq' = resume
          /\ force' = TRUE /\ wpc' = "loop"
          /\ UNCHANGED <<placeholder, resume, tries, owed, frames, fault>>
       \/ /\ wpc' = "loop"
          /\ UNCHANGED <<placeholder, encoder, owed, frames, fault>>
       \/ WorkerExit("none")
    /\ UNCHANGED <<controls, bpc, session, mails, sender>>

(* encode(), QBUF, send(): an AU with the next number, an IDR when forced  *)
(* (validate_au refuses anything else) or when the GOP starts anew.        *)
Encode ==
    /\ wpc = "grab" /\ ~PeerClosed /\ seq < MaxSeq
    /\ seq' = seq + 1
    /\ \E i \in BOOLEAN : /\ force => i
                          /\ frames' = Append(frames, AU(seq', i, enc))
                          /\ owed' = IF i \/ owed = 0 THEN 0 ELSE owed + 1
    /\ force' = FALSE /\ tries' = 0
    /\ wpc' = "ack"
    /\ UNCHANGED <<placeholder, enc, encoders, resume, controls, bpc, session, mails, sender, fault>>

(* Mutant of AwaitAck: only the ACK is looked at. *)
AwaitAckOnly ==
    /\ wpc = "ack" /\ controls # <<>>
    /\ controls' = Tail(controls)
    /\ wpc' = IF Head(controls).kind = "idr" THEN wpc ELSE "loop"
    /\ UNCHANGED <<placeholder, encoder, owed, frames, fault, bpc, session, mails, sender>>

(* await_ack(): controls are honoured while the AU is in flight.           *)
AwaitAck ==
    /\ wpc = "ack" /\ controls # <<>>
    /\ controls' = Tail(controls)
    /\ LET ctl == Head(controls)
       IN  \/ /\ ctl.kind = "idr" /\ force' = TRUE
              /\ UNCHANGED <<placeholder, wpc, enc, encoders, seq, resume, tries, owed, frames, fault>>
           \/ /\ ctl.kind = "ack" /\ ctl.seq = seq
              /\ wpc' = IF placeholder THEN "loop" ELSE "check"
              /\ UNCHANGED <<placeholder, encoder, owed, frames, fault>>
           \/ ctl.kind = "ack" /\ ctl.seq # seq /\ WorkerExit("ack")
    /\ UNCHANGED <<bpc, session, mails, sender>>

(* Once a second unchanged() compares the source with the open one.        *)
CheckSource ==
    /\ wpc = "check"
    /\ \/ wpc' = "loop" /\ UNCHANGED <<placeholder, encoder, owed, frames, fault>>
       \/ encoders < MaxEncoders /\ Recover
    /\ UNCHANGED <<controls, bpc, session, mails, sender>>

(* The worker notices that its peer is gone: a read returns EOF.           *)
WorkerEof ==
    /\ wpc \in {"loop", "ack"} /\ PeerClosed /\ controls = <<>>
    /\ WorkerExit("none")
    /\ UNCHANGED <<controls, bpc, session, mails, sender>>

(* MPP fails or times out, the AU is not valid, a 300 ms send does not     *)
(* finish, "AU credit timeout", a crash.                                   *)
WorkerDies ==
    /\ wpc \notin Gone
    /\ WorkerExit("none")
    /\ UNCHANGED <<controls, bpc, session, mails, sender>>

(***************************************************************************)
(* The bridge.                                                             *)
(***************************************************************************)
Spawn ==
    /\ bpc = "spawn"
    /\ bpc' = "ready" /\ wpc' = "open"
    /\ UNCHANGED <<placeholder, encoder, owed, frames, controls, session, mails, sender, fault>>

(* request_idr *)
RequestIdr ==
    /\ controls' = Append(controls, IdrMsg)
    /\ owed' = IF owed = 0 THEN 1 ELSE owed

(* An exception in capture(): the session ends.                            *)
EndSession(why) ==
    /\ bpc' = "ended"
    /\ fault' = IF fault = "none" THEN why ELSE fault

Ready ==
    /\ bpc = "ready" /\ frames # <<>>
    /\ frames' = Tail(frames)
    /\ bpc' = "loop"
    /\ UNCHANGED <<worker, controls, session, mails, sender, fault>>

ForwardIdr ==
    /\ bpc = "loop" /\ idrMail
    /\ idrMail' = FALSE
    /\ RequestIdr
    /\ UNCHANGED <<placeholder, wpc, encoder, frames, bpc, session, shutdown, sender, fault>>

(* receive() and gate.accept().  The AU may be too old to deliver (200 ms).*)
Receive ==
    /\ bpc = "loop" /\ frames # <<>>
    /\ frames' = Tail(frames)
    /\ LET au == Head(frames)
       IN  IF au.seq = gate + 1 /\ (gate = 0 => au.idr)
             THEN /\ gate' = au.seq /\ cur' = au
                  /\ awaitIdr' = (awaitIdr /\ ~au.idr)
                  /\ bpc' \in IF awaitIdr' THEN {"drop"} ELSE {"offer", "drop"}
                  /\ fault' = fault
             ELSE EndSession("gate") /\ UNCHANGED session
    /\ UNCHANGED <<worker, controls, mails, sender>>

(* rkmoon_try_raise: there is room in the sender queue.                    *)
Deliver ==
    /\ bpc = "offer" /\ Len(queue) < QueueLimit
    /\ queue' = Append(queue, cur)
    /\ bpc' = "ack"
    /\ UNCHANGED <<worker, frames, controls, session, mails, shown, fault>>

(* No room for 50 ms after the frame was dequeued.                         *)
OfferTimeout ==
    /\ bpc = "offer" /\ Len(queue) = QueueLimit
    /\ bpc' = "drop"
    /\ UNCHANGED <<worker, frames, controls, session, mails, sender, fault>>

(* Mutants of Drop: no IDR is asked for; the ACK is sent first; the        *)
(* dropped AU is not acknowledged.                                         *)
DropSilently ==
    /\ bpc = "drop" /\ bpc' = "ack"
    /\ UNCHANGED <<worker, frames, controls, session, mails, sender, fault>>

DropAcksFirst ==
    /\ bpc = "drop" /\ bpc' = "loop"
    /\ awaitIdr' = TRUE
    /\ controls' = Append(controls, AckMsg(cur.seq)) \o IF awaitIdr THEN <<>> ELSE <<IdrMsg>>
    /\ UNCHANGED <<worker, frames, cur, gate, mails, sender, fault>>

DropKeepsCredit ==
    /\ bpc = "drop" /\ bpc' = "loop"
    /\ awaitIdr' = TRUE
    /\ controls' = IF awaitIdr THEN controls ELSE Append(controls, IdrMsg)
    /\ UNCHANGED <<worker, frames, cur, gate, mails, sender, fault>>

(* The AU is dropped; the first of a run of drops asks for an IDR.         *)
Drop ==
    /\ bpc = "drop"
    /\ awaitIdr' = TRUE
    /\ IF awaitIdr THEN UNCHANGED <<controls, owed>> ELSE RequestIdr
    /\ bpc' = "ack"
    /\ UNCHANGED <<placeholder, wpc, encoder, frames, cur, gate, mails, sender, fault>>

Ack ==
    /\ bpc = "ack"
    /\ controls' = Append(controls, AckMsg(cur.seq))
    /\ bpc' = "loop"
    /\ UNCHANGED <<worker, frames, session, mails, sender, fault>>

(* shutdown_event is seen at the top of the loop and while the sender      *)
(* queue is full.                                                          *)
SeeShutdown ==
    /\ bpc = "loop" \/ (bpc = "offer" /\ Len(queue) = QueueLimit)
    /\ shutdown
    /\ EndSession("none")
    /\ UNCHANGED <<worker, frames, controls, session, mails, sender>>

(* Mutant of WorkerLost: EOF is noticed in the main loop only. *)
WorkerLostInLoop ==
    /\ wpc = "exit" /\ bpc = "loop" /\ frames = <<>>
    /\ EndSession("none")
    /\ UNCHANGED <<worker, frames, controls, session, mails, sender>>

(* The worker is gone: EOF once its last message is read, or a failed send.*)
WorkerLost ==
    /\ wpc = "exit"
    /\ \/ bpc \in {"ready", "loop"} /\ frames = <<>>
       \/ bpc \in {"drop", "ack"} \/ (bpc = "loop" /\ idrMail)
    /\ EndSession("none")
    /\ UNCHANGED <<worker, frames, controls, session, mails, sender>>

(* No "ready" within 3 s, no AU for 7 s, or the sender stopped.            *)
GiveUp ==
    /\ \/ bpc \in {"ready", "loop"} /\ frames = <<>>
       \/ bpc = "offer" /\ Len(queue) = QueueLimit
    /\ EndSession("none")
    /\ UNCHANGED <<worker, frames, controls, session, mails, sender>>

(* ~Child: close the socket, wait, SIGTERM, SIGKILL, reap; then the input  *)
(* lease is released, shutdown_event raised and video_owner unlocked.      *)
Teardown ==
    /\ bpc = "ended"
    /\ bpc' = "over" /\ wpc' = "none" /\ enc' = 0 /\ shutdown' = TRUE
    /\ UNCHANGED <<placeholder, encoders, seq, resume, tries, force, owed, frames,
                   controls, session, idrMail, sender, fault>>

(***************************************************************************)
(* Sunshine's threads: the control stream, the sender.                     *)
(***************************************************************************)
ClientIdr ==
    /\ bpc \in Session /\ ~idrMail /\ Len(controls) < IdrBacklog
    /\ idrMail' = TRUE
    /\ UNCHANGED <<worker, frames, controls, bpc, session, shutdown, sender, fault>>

ClientLeaves ==
    /\ bpc # "over" /\ ~shutdown
    /\ shutdown' = TRUE
    /\ UNCHANGED <<worker, frames, controls, bpc, session, idrMail, sender, fault>>

SendPacket ==
    /\ queue # <<>>
    /\ shown' = Head(queue) /\ queue' = Tail(queue)
    /\ UNCHANGED <<worker, frames, controls, bpc, session, mails, fault>>

Over ==
    /\ bpc = "over" /\ queue = <<>>
    /\ UNCHANGED vars

WorkerStep ==
    \/ Open \/ Drain \/ Proceed \/ Reopen \/ Encode \/ AwaitAck \/ CheckSource \/ WorkerEof
WorkerNext == WorkerStep \/ CaptureFault \/ WorkerDies

BridgeStep ==
    \/ Spawn \/ Ready \/ ForwardIdr \/ Receive \/ Deliver \/ OfferTimeout \/ Drop \/ Ack
    \/ SeeShutdown \/ WorkerLost \/ Teardown
BridgeNext == BridgeStep \/ GiveUp

Next == WorkerNext \/ BridgeNext \/ ClientIdr \/ ClientLeaves \/ SendPacket \/ Over

Spec == Init /\ [][Next]_vars

(***************************************************************************)
(* Two processes that the scheduler runs.  No timeout, fault or request is *)
(* assumed to happen, and the sender need not make room.  Every turn of    *)
(* the bridge's loop looks at the shutdown event and at the socket; the    *)
(* worker drains IDR requests faster than a client makes them.             *)
(***************************************************************************)
Fairness ==
    /\ WF_vars(WorkerStep) /\ WF_vars(BridgeStep)
    /\ WF_vars(Receive) /\ SF_vars(SeeShutdown)
    /\ SF_vars(Proceed)

FairSpec == Spec /\ Fairness

(***************************************************************************)
(* Correctness.                                                            *)
(***************************************************************************)
Follows(a, b) == b.enc = a.enc /\ b.seq = a.seq + 1

(* What the client's decoder has, then what it will get. *)
Stream == <<shown>> \o queue

(* The client can decode every packet: each is an IDR or follows, from the *)
(* same encoder instance, the packet sent before it, however AUs were      *)
(* dropped and the encoder reopened in between ("Reference frames are      *)
(* never sent out of order").                                              *)
DecodableStream ==
    \A i \in 1 .. Len(queue) : Stream[i + 1].idr \/ Follows(Stream[i], Stream[i + 1])

(* An overload costs one AU at a time: while the bridge waits for an IDR,  *)
(* the AU on its way to it is that IDR, since the request is queued before *)
(* the ACK that lets the worker go on.                                     *)
NextIsIdr ==
    awaitIdr => \A i \in 1 .. Len(frames) : frames[i].idr

(* One AU is in flight, and its credit is in one place: with the AU in the *)
(* socket, with the bridge, or in the ACK on its way back.                 *)
Credits ==
    {i \in 1 .. Len(controls) : controls[i].kind = "ack"}

OneCredit ==
    /\ wpc = "ack" /\ bpc \in Session =>
          \/ Len(frames) = 1 /\ bpc = "loop" /\ Credits = {}
          \/ frames = <<>> /\ bpc # "loop" /\ cur.seq = seq /\ Credits = {}
          \/ /\ frames = <<>> /\ bpc = "loop"
             /\ \E i \in Credits : Credits = {i} /\ controls[i].seq = seq
    /\ fault \notin {"ack", "control"}

(* The sequence never breaks: across recoveries the encoder continues the  *)
(* numbering and starts with an IDR, so that the bridge's SequenceGate     *)
(* rejects nothing ("continue the AU sequence and force an IDR").          *)
GateAccepts == fault # "gate"

(* It breaks in one case only: a recovery that found no encoder to         *)
(* continue from, an earlier reopen having failed, and reopened then.      *)
GateRejectsBlind ==
    [][fault # "gate" /\ fault' = "gate" => resume = 0 /\ encoders > 1]_vars

(* An IDR request, the client's or the bridge's own, is answered promptly  *)
(* whatever the worker is doing when it arrives: at most one P frame, the  *)
(* one already under way, is encoded before an IDR is.                     *)
IdrPrompt == owed <= 2

(* The instance ran out of sequence numbers. *)
AtBound == seq = MaxSeq

(* A bridge that drops AUs until an IDR comes does get it, across capture  *)
(* recoveries and further requests, or the session ends.                   *)
DropRecovers ==
    awaitIdr ~> (~awaitIdr \/ PeerClosed \/ AtBound)

(* A session that is to end, or whose worker is gone, ends: the worker is  *)
(* reaped and the exclusive capture is free for the next session.          *)
SessionEnds ==
    (shutdown \/ wpc = "exit") ~> (bpc = "over" /\ wpc = "none")
==============================================================================
