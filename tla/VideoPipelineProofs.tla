------------------------- MODULE VideoPipelineProofs -------------------------
(***************************************************************************)
(* Theorems about VideoPipeline, for every size of the sender queue, every *)
(* recovery window and every bound on sequence numbers, encoders and       *)
(* client requests.                                                        *)
(***************************************************************************)
EXTENDS VideoPipeline, SequenceTheorems, TLAPS

(***************************************************************************)
(* The inductive invariant.                                                *)
(***************************************************************************)
Busy == {"offer", "drop", "ack"}                  \* the bridge has the AU
Working == {"loop", "grab", "check", "reopen"}    \* the worker has the credit

(* Where in the socket an AU is: behind "ready" until that is read. *)
Slot == IF bpc = "ready" THEN 2 ELSE 1
AuSent == ~PeerClosed /\ Len(frames) = Slot

(* The packet sent or queued last. *)
Newest == IF queue = <<>> THEN shown ELSE queue[Len(queue)]

(* A recovery that found no encoder has been reopened. *)
Blind == resume = 0 /\ encoders > 1

(* An IDR request is in the socket; it is ahead of every ACK. *)
Asked == \E j \in 1 .. Len(controls) : controls[j].kind = "idr"
AskedFirst ==
    \E j \in 1 .. Len(controls) : controls[j].kind = "idr" /\ \A i \in Credits : j < i

(* Which steps of the worker and of the bridge go together. *)
PcInv ==
    /\ wpc = "none" => bpc \in {"spawn", "over"}
    /\ bpc \in {"spawn", "over"} => wpc = "none"
    /\ wpc = "open" => bpc \in {"ready", "ended"} /\ frames = <<>>
    /\ bpc \in Busy => wpc \in {"ack", "exit"}
    /\ wpc \in {"grab", "ack", "check"} => enc # 0
    /\ wpc \in Working \cup {"ack"} => encoders > 0
    /\ awaitIdr => bpc \in {"loop", "ack", "ended", "over"}

(* At most one AU is in the socket, behind "ready" if that is still there, *)
(* and then the worker waits for its ACK or is gone.                       *)
FramesInv ==
    /\ ~PeerClosed =>
          /\ Len(frames) <= Slot
          /\ \A i \in 1 .. Len(frames) : frames[i].kind = "frame" <=> i = Slot
    /\ bpc = "spawn" => frames = <<>> /\ controls = <<>>
    /\ bpc = "ready" /\ wpc \in Working \cup {"ack"} => frames # <<>>
    /\ AuSent => wpc \in {"ack", "exit"} /\ bpc \in {"ready", "loop"}

CreditInv ==
    /\ wpc \in Working \cup {"open"} => Credits = {}
    /\ wpc = "ack" => /\ \A i \in Credits : controls[i].seq = seq
                      /\ \A i, j \in Credits : i = j
    /\ wpc = "ack" /\ (AuSent \/ bpc \in Busy) => Credits = {}
    /\ wpc = "ack" /\ ~PeerClosed /\ ~AuSent =>
          bpc \in Session /\ (bpc = "loop" => Credits # {})
    /\ fault \notin {"ack", "control"}

(* The AU that is next for the client refers to the one before it. *)
StreamInv ==
    /\ gate = cur.seq /\ (gate = 0 => cur.enc = 0)
    /\ bpc \in {"spawn", "ready"} => gate = 0
    /\ DecodableStream
    /\ bpc \in {"spawn", "ready", "loop", "ack"} /\ ~awaitIdr => Newest = cur
    /\ bpc = "offer" => cur.idr \/ Follows(Newest, cur)
    /\ AuSent => frames[Slot].idr \/ Follows(cur, frames[Slot])
    /\ ~PeerClosed /\ wpc \in Working /\ enc # 0 =>
          force \/ (enc = cur.enc /\ seq = cur.seq)
    /\ wpc = "ack" /\ AuSent => frames[Slot].seq = seq /\ frames[Slot].enc = enc
    /\ wpc = "ack" /\ ~PeerClosed /\ ~AuSent => cur.seq = seq /\ cur.enc = enc

(* The numbers the bridge expects, unless a recovery was blind. *)
GateInv ==
    ~PeerClosed =>
        /\ wpc \in Working /\ enc # 0 => seq = gate \/ (seq = 0 /\ Blind)
        /\ wpc = "reopen" => resume = gate \/ resume = 0
        /\ AuSent => Blind \/ (frames[Slot].seq = gate + 1 /\ (gate = 0 => frames[Slot].idr))

(* A request for an IDR is not overtaken by the credit for the next AU. *)
IdrInv ==
    /\ NextIsIdr
    /\ awaitIdr /\ ~PeerClosed /\ wpc \in Working => force
    /\ awaitIdr /\ ~PeerClosed /\ ~AuSent /\ wpc = "ack" => force \/ AskedFirst
    /\ owed > 0 /\ wpc \in Working \cup {"ack"} => force \/ Asked
    /\ owed > 1 /\ wpc \in Working => force
    /\ owed > 1 /\ wpc = "ack" => force \/ AskedFirst
    /\ owed <= 2

IInv == TypeOK /\ PcInv /\ FramesInv /\ CreditInv /\ StreamInv /\ GateInv /\ IdrInv

(***************************************************************************)
(* What the steps do to the sequences.                                     *)
(***************************************************************************)
(* A message is appended to the controls: the credits and requests there   *)
(* keep their places, the new one is last.                                 *)
LEMMA ControlAppended ==
    ASSUME controls \in Seq(Controls), NEW m \in Controls, controls' = Append(controls, m)
    PROVE  /\ controls' \in Seq(Controls)
           /\ Len(controls') = Len(controls) + 1
           /\ controls'[Len(controls) + 1] = m
           /\ \A i \in 1 .. Len(controls) : controls'[i] = controls[i]
           /\ Credits \subseteq Credits'
           /\ m.kind = "idr" => Credits' = Credits
           /\ m.kind = "ack" => Credits' = Credits \cup {Len(controls) + 1}
           /\ Asked => Asked'
           /\ m.kind = "idr" => Asked'
<1>1. /\ controls' \in Seq(Controls) /\ Len(controls') = Len(controls) + 1
      /\ controls'[Len(controls) + 1] = m
      /\ \A i \in 1 .. Len(controls) : controls'[i] = controls[i]
      /\ Len(controls) \in Nat
  BY AppendProperties, LenProperties
<1> HIDE DEF Controls
<1>2. \A i : i \in 1 .. Len(controls') <=> i \in 1 .. Len(controls) \/ i = Len(controls) + 1
  BY <1>1
<1>3. /\ m.kind = "idr" => Credits' = Credits
      /\ m.kind = "ack" => Credits' = Credits \cup {Len(controls) + 1}
  BY <1>1, <1>2 DEF Credits
<1>4. (Asked => Asked') /\ (m.kind = "idr" => Asked')
  BY <1>1, <1>2 DEF Asked
<1>5. m.kind \in {"idr", "ack"}
  BY DEF Controls
<1>6. QED BY <1>1, <1>3, <1>4, <1>5

(* The first control is taken: the others move up by one. *)
LEMMA ControlTaken ==
    ASSUME controls \in Seq(Controls), controls # <<>>, controls' = Tail(controls)
    PROVE  /\ Head(controls) = controls[1] /\ Head(controls) \in Controls
           /\ controls' \in Seq(Controls)
           /\ Len(controls) \in Nat \ {0} /\ Len(controls') = Len(controls) - 1
           /\ \A i \in 1 .. Len(controls') : controls'[i] = controls[i + 1]
           /\ \A i \in Credits' : i + 1 \in Credits
           /\ \A i \in Credits : i # 1 => i - 1 \in Credits'
<1>1. /\ Head(controls) = controls[1] /\ Head(controls) \in Controls
      /\ controls' \in Seq(Controls)
      /\ Len(controls) \in Nat \ {0} /\ Len(controls') = Len(controls) - 1
      /\ \A i \in 1 .. Len(controls') : controls'[i] = controls[i + 1]
  BY HeadTailProperties, EmptySeq, LenProperties
<1>2. \A i \in Credits' : i + 1 \in Credits
  BY <1>1 DEF Credits
<1>3. \A i \in Credits : i # 1 => i - 1 \in Credits'
  BY <1>1 DEF Credits
<1>4. QED BY <1>1, <1>2, <1>3

(***************************************************************************)
(* Steps that several actions share.                                       *)
(***************************************************************************)
(* The worker ends. *)
LEMMA ExitInv ==
    ASSUME IInv, wpc \notin Gone, WorkerExit("none"), controls' \in Seq(Controls),
           UNCHANGED <<bpc, session, mails, sender>>
    PROVE  IInv'
<1> USE DEF IInv, WorkerExit, session, mails, sender, Gone
<1>1. TypeOK' BY DEF TypeOK
<1>2. PcInv' BY DEF PcInv, Busy, Working
<1>3. FramesInv' BY DEF FramesInv, PcInv, AuSent, Slot, PeerClosed, Working
<1>4. CreditInv' BY DEF CreditInv, Working
<1>5. StreamInv' BY DEF StreamInv, AuSent, Slot, PeerClosed, Newest, DecodableStream, Stream, Working
<1>6. GateInv' BY DEF GateInv, AuSent, Slot, PeerClosed, Blind, Working
<1>7. IdrInv' BY DEF IdrInv, NextIsIdr, Working
<1>8. QED BY <1>1, <1>2, <1>3, <1>4, <1>5, <1>6, <1>7

(* The worker tears encoder and capture down. *)
LEMMA RecoverInv ==
    ASSUME IInv, wpc \in {"loop", "grab", "check"}, Recover,
           UNCHANGED <<controls, bpc, session, mails, sender>>
    PROVE  IInv'
<1>1. CASE WorkerExit("none")
  BY <1>1, ExitInv DEF IInv, TypeOK, Gone
<1>2. CASE /\ tries < RecoveryWindow /\ tries' = tries + 1
           /\ resume' = IF enc # 0 THEN seq ELSE 0
           /\ enc' = 0 /\ wpc' = "reopen"
           /\ UNCHANGED <<placeholder, encoders, seq, force, owed, frames, fault>>
  <2> USE <1>2 DEF IInv, session, mails, sender
  <2>1. TypeOK' BY VideoAssumption DEF TypeOK
  <2>2. PcInv' BY DEF PcInv, Busy, Working
  <2>3. FramesInv' BY DEF FramesInv, AuSent, Slot, PeerClosed, Working
  <2>4. CreditInv' BY DEF CreditInv, Working, Credits
  <2>5. StreamInv'
    BY DEF StreamInv, AuSent, Slot, PeerClosed, Newest, DecodableStream, Stream, Working
  <2>6. GateInv' BY DEF GateInv, FramesInv, AuSent, Slot, PeerClosed, Blind, Working
  <2>7. IdrInv' BY DEF IdrInv, NextIsIdr, Working, PeerClosed, AuSent, Slot, Asked
  <2>8. QED BY <2>1, <2>2, <2>3, <2>4, <2>5, <2>6, <2>7
<1>3. QED BY <1>1, <1>2 DEF Recover

(* The worker goes on to its next step. *)
LEMMA TurnInv ==
    ASSUME IInv, \/ wpc \in {"check", "reopen"} /\ wpc' = "loop"
                 \/ wpc = "loop" /\ wpc' = "grab" /\ enc # 0,
           UNCHANGED <<placeholder, encoder, owed, frames, fault, controls, bpc, session, mails, sender>>
    PROVE  IInv'
<1> USE DEF IInv, session, mails, sender, encoder
<1>1. TypeOK' BY DEF TypeOK
<1>2. PcInv' BY DEF PcInv, Busy, Working
<1>3. FramesInv' BY DEF FramesInv, AuSent, Slot, PeerClosed, Working
<1>4. CreditInv' BY DEF CreditInv, Working, Credits
<1>5. StreamInv'
  BY DEF StreamInv, AuSent, Slot, PeerClosed, Newest, DecodableStream, Stream, Working
<1>6. GateInv' BY DEF GateInv, AuSent, Slot, PeerClosed, Blind, Working
<1>7. IdrInv' BY DEF IdrInv, NextIsIdr, Working, PeerClosed, Asked
<1>8. QED BY <1>1, <1>2, <1>3, <1>4, <1>5, <1>6, <1>7

(* The session ends. *)
LEMMA EndInv ==
    ASSUME IInv, bpc \in Session \cup {"ready"}, NEW why \in {"none", "gate"}, EndSession(why),
           frames' \in Seq(AUs \cup {ReadyMsg}), frames' = frames \/ bpc = "loop", NextIsIdr',
           UNCHANGED <<worker, controls, session, mails, sender>>
    PROVE  IInv'
<1> USE DEF IInv, EndSession, worker, encoder, session, mails, sender, Session
<1>1. TypeOK' BY DEF TypeOK
<1>2. PcInv' BY DEF PcInv, Busy, Working
<1>3. FramesInv' BY DEF FramesInv, AuSent, PeerClosed
<1>4. CreditInv' BY DEF CreditInv, Working, Credits, AuSent, PeerClosed, Busy
<1>5. StreamInv'
  BY DEF StreamInv, AuSent, PeerClosed, DecodableStream, Stream
<1>6. GateInv' BY DEF GateInv, PeerClosed
<1>7. IdrInv' BY DEF IdrInv, Working, PeerClosed, Asked, AskedFirst, Credits
<1>8. QED BY <1>1, <1>2, <1>3, <1>4, <1>5, <1>6, <1>7

(***************************************************************************)
(* The worker's actions.                                                   *)
(***************************************************************************)
(* open_pipeline() and the ready message. *)
LEMMA OpenInv == ASSUME IInv, Open PROVE IInv'
<1>1. CASE WorkerExit("none")
  BY <1>1, ExitInv DEF Open, IInv, TypeOK, Gone
<1>2. CASE /\ ~PeerClosed /\ wpc' = "loop"
           /\ encoders' = encoders + 1 /\ enc' = encoders' /\ seq' = 0 /\ force' = TRUE
           /\ frames' = Append(frames, ReadyMsg)
           /\ UNCHANGED <<placeholder, resume, tries, owed, fault>>
  <2>1. frames = <<>> /\ bpc = "ready" /\ wpc = "open" /\ ~awaitIdr
    BY <1>2 DEF Open, IInv, PcInv, PeerClosed, TypeOK
  <2>2. /\ frames' \in Seq(AUs \cup {ReadyMsg}) /\ Len(frames') = 1
        /\ frames'[1] = ReadyMsg /\ Len(frames) = 0
    BY <1>2, <2>1, AppendProperties DEF IInv, TypeOK
  <2> USE <1>2, <2>1, <2>2 DEF IInv, Open, session, mails, sender
  <2>3. TypeOK' BY DEF TypeOK
  <2>4. PcInv' BY DEF PcInv, Busy, Working, TypeOK
  <2>5. FramesInv' BY DEF FramesInv, AuSent, Slot, PeerClosed, ReadyMsg
  <2>6. CreditInv' BY DEF CreditInv, Working, Credits
  <2>7. StreamInv'
    BY DEF StreamInv, AuSent, Slot, PeerClosed, Newest, DecodableStream, Stream, Working
  <2>8. GateInv' BY DEF GateInv, AuSent, Slot, PeerClosed, Blind, Working, StreamInv, PcInv, TypeOK
  <2>9. IdrInv' BY DEF IdrInv, NextIsIdr
  <2>10. QED BY <2>3, <2>4, <2>5, <2>6, <2>7, <2>8, <2>9
<1>3. QED BY <1>1, <1>2 DEF Open

(* A control drained at the top of the loop is an IDR request: the credit is *)
(* with the worker.                                                        *)
LEMMA DrainInv == ASSUME IInv, Drain PROVE IInv'
<1>1. /\ Credits = {} /\ wpc = "loop" /\ controls # <<>> /\ controls' = Tail(controls)
      /\ controls \in Seq(Controls)
  BY DEF Drain, IInv, CreditInv, Working, TypeOK
<1>2. /\ controls' \in Seq(Controls) /\ Credits' = {}
      /\ Head(controls) = controls[1] /\ Len(controls) \in Nat \ {0} /\ Head(controls) \in Controls
  BY <1>1, ControlTaken
<1>3. Head(controls).kind = "idr"
  BY <1>1, <1>2 DEF Credits, Controls
<1> USE <1>1, <1>2, <1>3 DEF IInv, Drain, session, mails, sender
<1>4. force' = TRUE /\ UNCHANGED <<placeholder, wpc, enc, encoders, seq, resume, tries, owed, frames,
                                   fault, bpc, cur, gate, awaitIdr, queue, shown>>
  OBVIOUS
<1> USE <1>4
<1>5. TypeOK' BY DEF TypeOK
<1>6. PcInv' BY DEF PcInv
<1>7. FramesInv' BY DEF FramesInv, AuSent, Slot, PeerClosed
<1>8. CreditInv' BY DEF CreditInv
<1>9. StreamInv'
  BY DEF StreamInv, AuSent, Slot, PeerClosed, Newest, DecodableStream, Stream
<1>10. GateInv' BY DEF GateInv, AuSent, Slot, PeerClosed, Blind
<1>11. IdrInv' BY DEF IdrInv, NextIsIdr
<1>12. QED BY <1>5, <1>6, <1>7, <1>8, <1>9, <1>10, <1>11

(* The worker takes a frame, or tries to reopen again. *)
LEMMA ProceedInv == ASSUME IInv, Proceed PROVE IInv'
<1>1. CASE Recover
  BY <1>1, RecoverInv DEF Proceed
<1>2. CASE enc # 0 /\ wpc' = "grab" /\ UNCHANGED <<placeholder, encoder, owed, frames, fault>>
  BY <1>2, TurnInv DEF Proceed
<1>3. QED BY <1>1, <1>2 DEF Proceed

(* The source is compared with the open one. *)
LEMMA CheckSourceInv == ASSUME IInv, CheckSource PROVE IInv'
<1>1. CASE Recover
  BY <1>1, RecoverInv DEF CheckSource
<1>2. CASE wpc' = "loop" /\ UNCHANGED <<placeholder, encoder, owed, frames, fault>>
  BY <1>2, TurnInv DEF CheckSource
<1>3. QED BY <1>1, <1>2 DEF CheckSource

(* A new encoder continues the numbering the bridge expects, or starts at 0 *)
(* after a blind recovery, and starts with an IDR.                         *)
LEMMA ReopenInv == ASSUME IInv, Reopen PROVE IInv'
<1>1. CASE WorkerExit("none")
  BY <1>1, ExitInv DEF Reopen, IInv, TypeOK, Gone
<1>2. CASE wpc' = "loop" /\ UNCHANGED <<placeholder, encoder, owed, frames, fault>>
  BY <1>2, TurnInv DEF Reopen
<1>3. CASE /\ encoders' = encoders + 1 /\ enc' = encoders' /\ seq' = resume
           /\ force' = TRUE /\ wpc' = "loop"
           /\ UNCHANGED <<placeholder, resume, tries, owed, frames, fault>>
  <2> USE <1>3 DEF IInv, Reopen, session, mails, sender, encoder
  <2>1. TypeOK' BY DEF TypeOK
  <2>2. PcInv' BY DEF PcInv, Busy, Working, TypeOK
  <2>3. FramesInv' BY DEF FramesInv, AuSent, Slot, PeerClosed, Working
  <2>4. CreditInv' BY DEF CreditInv, Working, Credits
  <2>5. StreamInv'
    BY DEF StreamInv, FramesInv, AuSent, Slot, PeerClosed, Newest, DecodableStream, Stream, Working
  <2>6. GateInv'
    BY DEF GateInv, FramesInv, PcInv, AuSent, Slot, PeerClosed, Blind, Working, TypeOK
  <2>7. IdrInv' BY DEF IdrInv, NextIsIdr, Working, PeerClosed, Asked
  <2>8. QED BY <2>1, <2>2, <2>3, <2>4, <2>5, <2>6, <2>7
<1>4. QED BY <1>1, <1>2, <1>3 DEF Reopen

(* The new AU is the only one in the socket; it continues what the bridge  *)
(* got last, or is an IDR.                                                 *)
LEMMA EncodeInv == ASSUME IInv, Encode PROVE IInv'
<1>1. PICK i \in BOOLEAN : /\ force => i
                           /\ frames' = Append(frames, AU(seq', i, enc))
                           /\ owed' = IF i \/ owed = 0 THEN 0 ELSE owed + 1
  BY DEF Encode
<1>2. /\ wpc = "grab" /\ ~PeerClosed /\ bpc \in {"ready", "loop"} /\ enc # 0 /\ Credits = {}
      /\ wpc' = "ack" /\ seq' = seq + 1 /\ force' = FALSE /\ tries' = 0
      /\ UNCHANGED <<placeholder, enc, encoders, resume, controls, bpc, cur, gate, awaitIdr, queue,
                     shown, idrMail, shutdown, fault>>
  BY DEF Encode, IInv, PcInv, CreditInv, Busy, Working, PeerClosed, TypeOK, Session, session,
         mails, sender
<1>3. Len(frames) = Slot - 1
  <2>1. Len(frames) \in Nat /\ (frames # <<>> => Len(frames) > 0)
    BY LenProperties, EmptySeq DEF IInv, TypeOK
  <2>2. Len(frames) <= Slot /\ Len(frames) # Slot /\ (bpc = "ready" => frames # <<>>)
    BY <1>2 DEF IInv, FramesInv, AuSent, Working
  <2> DEFINE n == Len(frames)
  <2>3. n \in Nat /\ n <= Slot /\ n # Slot /\ (bpc = "ready" => n > 0)
    BY <2>1, <2>2
  <2> HIDE DEF n
  <2>4. n = Slot - 1
    BY <1>2, <2>3 DEF Slot
  <2>5. QED BY <2>4 DEF n
<1>4. AU(seq', i, enc) \in AUs
  BY <1>2 DEF AU, AUs, IInv, TypeOK
<1>5. /\ frames' \in Seq(AUs \cup {ReadyMsg}) /\ Len(frames') = Slot
      /\ frames'[Slot] = AU(seq + 1, i, enc)
      /\ \A k \in 1 .. Len(frames) : frames'[k] = frames[k]
  BY <1>1, <1>2, <1>3, <1>4, AppendProperties DEF IInv, TypeOK, Slot
<1>6. Slot' = Slot /\ Slot \in Nat /\ AuSent' /\ ~PeerClosed' /\ Credits' = {}
      /\ (Asked' <=> Asked) /\ (AskedFirst' <=> Asked)
  BY <1>2, <1>5 DEF Slot, AuSent, PeerClosed, Credits, Asked, AskedFirst
<1> USE <1>2
<1>7. TypeOK'
  <2>1. owed' \in Nat BY <1>1 DEF IInv, TypeOK
  <2>2. tries' \in 0 .. RecoveryWindow /\ seq' \in Nat
    BY VideoAssumption DEF IInv, TypeOK
  <2>3. QED BY <1>5, <2>1, <2>2 DEF IInv, TypeOK
<1>8. PcInv' BY DEF PcInv, Busy, Working, IInv
<1>9. FramesInv' BY <1>3, <1>5, <1>6 DEF FramesInv, IInv, AU, Working, Slot
<1>10. CreditInv' BY <1>6 DEF CreditInv, IInv, Working, Credits
<1>11. StreamInv'
  <2>1. frames'[Slot].idr \/ Follows(cur, frames'[Slot])
    BY <1>1, <1>5 DEF StreamInv, IInv, AU, Follows, Working
  <2>2. QED BY <1>5, <1>6, <2>1
            DEF StreamInv, IInv, AU, Newest, DecodableStream, Stream, Working, Follows
<1>12. GateInv'
  BY <1>1, <1>5, <1>6 DEF GateInv, StreamInv, IInv, TypeOK, AU, Blind, Working
<1>13. IdrInv'
  <2>1. NextIsIdr'
    <3> SUFFICES ASSUME awaitIdr PROVE \A k \in 1 .. Len(frames') : frames'[k].idr
      BY DEF NextIsIdr
    <3>1. bpc = "loop" /\ i
      BY <1>1 DEF IInv, PcInv, IdrInv, Working
    <3>2. QED BY <1>5, <3>1 DEF Slot, AU
  <2>2. owed > 0 => force \/ Asked
    BY DEF IInv, IdrInv, Working
  <2>3. owed > 1 => force
    BY DEF IInv, IdrInv, Working
  <2>4. owed \in Nat BY DEF IInv, TypeOK
  <2>5. QED BY <1>1, <1>6, <2>1, <2>2, <2>3, <2>4 DEF IdrInv, Working
<1>14. QED BY <1>7, <1>8, <1>9, <1>10, <1>11, <1>12, <1>13 DEF IInv

(* An IDR request read before the ACK forces the next AU. *)
LEMMA AwaitAckInv == ASSUME IInv, AwaitAck PROVE IInv'
<1> DEFINE ctl == Head(controls)
<1>1. /\ wpc = "ack" /\ controls # <<>> /\ controls' = Tail(controls)
      /\ controls \in Seq(Controls) /\ UNCHANGED <<bpc, cur, gate, awaitIdr, idrMail, shutdown, queue, shown>>
  BY DEF AwaitAck, IInv, TypeOK, session, mails, sender
<1>2. /\ ctl = controls[1] /\ ctl \in Controls
      /\ controls' \in Seq(Controls)
      /\ Len(controls) \in Nat \ {0} /\ Len(controls') = Len(controls) - 1
      /\ \A i \in 1 .. Len(controls') : controls'[i] = controls[i + 1]
      /\ \A i \in Credits' : i + 1 \in Credits
      /\ \A i \in Credits : i # 1 => i - 1 \in Credits'
  BY <1>1, ControlTaken
<1>3. Credits \subseteq 1 .. Len(controls) /\ Credits' \subseteq 1 .. Len(controls')
  BY DEF Credits
<1>4. CASE ctl.kind = "ack"
  <2>1. 1 \in Credits
    BY <1>2, <1>4 DEF Credits
  <2>2. ctl.seq = seq
    BY <1>1, <1>2, <2>1 DEF IInv, CreditInv
  <2>3. Credits' = {}
    BY <1>1, <1>2, <1>3, <2>1 DEF IInv, CreditInv
  <2>4. ~AskedFirst
    BY <2>1, <1>2 DEF AskedFirst
  <2>5. wpc' \in {"loop", "check"} /\ UNCHANGED <<placeholder, encoder, owed, frames, fault>>
    BY <1>4, <2>2 DEF AwaitAck
  <2>6. ~AuSent /\ (~PeerClosed => bpc = "loop")
    BY <1>1, <2>1 DEF IInv, CreditInv, Session, Busy, AuSent
  <2> USE <1>1, <2>5, <2>6 DEF encoder
  <2>7. TypeOK' BY <1>2 DEF IInv, TypeOK
  <2>8. PcInv' BY DEF IInv, PcInv, Busy, Working, PeerClosed
  <2>9. FramesInv' BY DEF IInv, FramesInv, AuSent, Slot, PeerClosed, Working
  <2>10. CreditInv' BY <2>3 DEF IInv, CreditInv, Working
  <2>11. StreamInv'
    BY DEF IInv, StreamInv, AuSent, Slot, PeerClosed, Newest, DecodableStream, Stream, Working
  <2>12. GateInv'
    BY DEF IInv, GateInv, StreamInv, AuSent, Slot, PeerClosed, Blind, Working
  <2>13. IdrInv'
    <3>1. Asked => Asked'
      <4> SUFFICES ASSUME NEW j \in 1 .. Len(controls), controls[j].kind = "idr" PROVE Asked'
        BY DEF Asked
      <4>1. j - 1 \in 1 .. Len(controls') /\ controls'[j - 1] = controls[j]
        BY <1>2, <1>4
      <4>2. QED BY <4>1 DEF Asked
    <3>2. QED BY <2>4, <3>1 DEF IInv, IdrInv, NextIsIdr, PeerClosed, Working
  <2>14. QED BY <2>7, <2>8, <2>9, <2>10, <2>11, <2>12, <2>13 DEF IInv
<1>5. CASE ctl.kind = "idr"
  <2>1. 1 \notin Credits
    BY <1>2, <1>5 DEF Credits
  <2>2. force' = TRUE /\ UNCHANGED <<placeholder, wpc, enc, encoders, seq, resume, tries, owed, frames,
                                     fault>>
    BY <1>5 DEF AwaitAck
  <2> USE <1>1, <2>2
  <2>3. TypeOK' BY <1>2 DEF IInv, TypeOK
  <2>4. PcInv' BY DEF IInv, PcInv
  <2>5. FramesInv' BY DEF IInv, FramesInv, AuSent, Slot, PeerClosed
  <2>6. CreditInv'
    <3>1. Credits = {} => Credits' = {}
      BY <1>2
    <3>2. Credits # {} => Credits' # {}
      BY <1>2, <2>1
    <3>3. \A i \in Credits' : controls'[i].seq = seq
      BY <1>2, <1>3 DEF IInv, CreditInv
    <3>4. \A i, j \in Credits' : i = j
      <4> SUFFICES ASSUME NEW i \in Credits', NEW j \in Credits' PROVE i = j
        OBVIOUS
      <4>1. i + 1 = j + 1 /\ i \in Nat /\ j \in Nat
        BY <1>2, <1>3 DEF IInv, CreditInv
      <4>2. QED BY <4>1
    <3>5. (AuSent' <=> AuSent) /\ (PeerClosed' <=> PeerClosed)
      BY DEF AuSent, Slot, PeerClosed
    <3>6. QED BY <3>1, <3>2, <3>3, <3>4, <3>5 DEF IInv, CreditInv, Working
  <2>7. StreamInv'
    BY DEF IInv, StreamInv, AuSent, Slot, PeerClosed, Newest, DecodableStream, Stream, Working
  <2>8. GateInv' BY DEF IInv, GateInv, AuSent, Slot, PeerClosed, Blind, Working
  <2>9. IdrInv' BY DEF IInv, IdrInv, NextIsIdr
  <2>10. QED BY <2>3, <2>4, <2>5, <2>6, <2>7, <2>8, <2>9 DEF IInv
<1>6. QED BY <1>2, <1>4, <1>5 DEF Controls

(* No step of the worker breaks the invariant. *)
LEMMA WorkerInv == ASSUME IInv, WorkerNext PROVE IInv'
<1>1. CASE CaptureFault
  BY <1>1, RecoverInv DEF CaptureFault
<1>2. CASE WorkerEof
  BY <1>2, ExitInv DEF WorkerEof, IInv, TypeOK, Gone
<1>3. CASE WorkerDies
  BY <1>3, ExitInv DEF WorkerDies, IInv, TypeOK
<1>4. QED
  BY <1>1, <1>2, <1>3, OpenInv, DrainInv, ProceedInv, ReopenInv, EncodeInv, AwaitAckInv,
     CheckSourceInv DEF WorkerNext, WorkerStep

(***************************************************************************)
(* The bridge's actions.                                                   *)
(***************************************************************************)
(* The packet before the i-th of a queue, when s was sent last. *)
Prior(s, q, i) == IF i = 1 THEN s ELSE q[i - 1]

(* Every packet of the queue is an IDR or follows the one before it. *)
Decodable(s, q) == \A i \in 1 .. Len(q) : q[i].idr \/ Follows(Prior(s, q, i), q[i])

(* The same of the concatenation that DecodableStream uses. *)
LEMMA DecodableIff ==
    ASSUME NEW s \in AUs, NEW q \in Seq(AUs)
    PROVE  Decodable(s, q) <=> \A i \in 1 .. Len(q) : \/ (<<s>> \o q)[i + 1].idr
                                                     \/ Follows((<<s>> \o q)[i], (<<s>> \o q)[i + 1])
<1>1. <<s>> \in Seq(AUs) /\ Len(<<s>>) = 1 /\ <<s>>[1] = s /\ Len(q) \in Nat
  OBVIOUS
<1>2. \A i \in 1 .. Len(q) + 1 : (<<s>> \o q)[i] = IF i <= 1 THEN <<s>>[i] ELSE q[i - 1]
  BY <1>1, ConcatProperties
<1>3. \A i \in 1 .. Len(q) : (<<s>> \o q)[i + 1] = q[i] /\ (<<s>> \o q)[i] = Prior(s, q, i)
  BY <1>1, <1>2 DEF Prior
<1>4. QED BY <1>3 DEF Decodable

(* The worker is spawned. *)
LEMMA SpawnInv == ASSUME IInv, Spawn PROVE IInv'
<1> USE DEF Spawn, IInv, encoder, session, mails, sender
<1>1. TypeOK' BY DEF TypeOK
<1>2. PcInv' BY DEF PcInv, Busy, Working, FramesInv
<1>3. FramesInv'
  <2>1. Len(frames') = 0 BY DEF FramesInv
  <2>2. QED BY <2>1 DEF FramesInv, AuSent, Slot, PeerClosed, Working
<1>4. CreditInv'
  <2>1. Credits' = {} BY DEF FramesInv, Credits
  <2>2. QED BY <2>1 DEF CreditInv, Working
<1>5. StreamInv'
  <2>1. Len(frames') = 0 BY DEF FramesInv
  <2>2. QED BY <2>1 DEF StreamInv, AuSent, Slot, PeerClosed, Newest, DecodableStream, Stream, Working
<1>6. GateInv'
  <2>1. Len(frames') = 0 BY DEF FramesInv
  <2>2. QED BY <2>1 DEF GateInv, AuSent, Slot, PeerClosed, Working
<1>7. IdrInv' BY DEF IdrInv, NextIsIdr, Working
<1>8. QED BY <1>1, <1>2, <1>3, <1>4, <1>5, <1>6, <1>7

(* A message is read: what is behind it moves up. *)
LEMMA FrameTaken ==
    ASSUME TypeOK, frames # <<>>, frames' = Tail(frames)
    PROVE  /\ Head(frames) = frames[1]
           /\ frames' \in Seq(AUs \cup {ReadyMsg})
           /\ Len(frames) \in Nat \ {0} /\ Len(frames') = Len(frames) - 1
           /\ \A i \in 1 .. Len(frames') : frames'[i] = frames[i + 1]
BY HeadTailProperties, EmptySeq, LenProperties DEF TypeOK

(* The ready message is read: an AU behind it moves up. *)
LEMMA ReadyInv == ASSUME IInv, Ready PROVE IInv'
<1> USE DEF Ready, IInv, worker, encoder, session, mails, sender
<1>1. /\ frames' \in Seq(AUs \cup {ReadyMsg})
      /\ Len(frames) \in Nat \ {0} /\ Len(frames') = Len(frames) - 1
      /\ \A i \in 1 .. Len(frames') : frames'[i] = frames[i + 1]
  BY FrameTaken
<1> DEFINE n == Len(frames)
           n1 == Len(frames')
<1>2. Slot = 2 /\ Slot' = 1 /\ ~PeerClosed /\ ~PeerClosed'
  BY DEF Slot, PeerClosed
<1>3. n \in Nat /\ n1 \in Nat /\ n1 = n - 1 /\ n <= 2 /\ (AuSent <=> n = 2) /\ (AuSent' <=> n1 = 1)
  BY <1>1, <1>2 DEF AuSent, FramesInv
<1>4. \A i \in 1 .. n : frames[i].kind = "frame" <=> i = 2
  BY <1>2 DEF FramesInv
<1>5. wpc # "open"
  BY DEF PcInv
<1>6. ~awaitIdr
  BY DEF PcInv
<1> HIDE DEF n, n1
<1>7. AuSent' <=> AuSent
  BY <1>3
<1>8. AuSent => frames'[1] = frames[2]
  <2>1. AuSent => 1 \in 1 .. n1 BY <1>3
  <2>2. QED BY <1>1, <2>1 DEF n1
<1> USE <1>2
<1>9. TypeOK' BY <1>1 DEF TypeOK, Session
<1>10. PcInv' BY <1>5, <1>6 DEF PcInv, Busy, Working
<1>11. FramesInv'
  <2>1. n1 <= 1 BY <1>3
  <2>2. \A i \in 1 .. n1 : i = 1 /\ 2 \in 1 .. n BY <1>3
  <2>3. \A i \in 1 .. n1 : frames'[i].kind = "frame" BY <1>1, <1>4, <2>2 DEF n1
  <2>4. QED BY <1>7, <2>1, <2>2, <2>3 DEF FramesInv, n1
<1>12. CreditInv' BY <1>7 DEF CreditInv, Credits, Working, Busy, Session
<1>13. StreamInv'
  BY <1>6, <1>7, <1>8 DEF StreamInv, Newest, DecodableStream, Stream, Working
<1>14. GateInv' BY <1>7, <1>8 DEF GateInv, Blind, Working
<1>15. IdrInv' BY <1>6, <1>7 DEF IdrInv, NextIsIdr, Working, Asked, AskedFirst, Credits
<1>16. QED BY <1>9, <1>10, <1>11, <1>12, <1>13, <1>14, <1>15

(* A request is queued behind everything the worker has still to read. *)
LEMMA Requested ==
    ASSUME TypeOK, RequestIdr
    PROVE  /\ controls' \in Seq(Controls) /\ Credits' = Credits /\ Asked'
           /\ \A i \in Credits : controls'[i] = controls[i]
           /\ AskedFirst => AskedFirst'
           /\ Credits = {} => AskedFirst'
           /\ owed' \in Nat /\ (owed <= 2 => owed' <= 2) /\ (owed' > 1 => owed > 1)
<1>1. IdrMsg \in Controls /\ IdrMsg.kind = "idr"
  BY DEF IdrMsg, Controls
<1>2. controls \in Seq(Controls) /\ controls' = Append(controls, IdrMsg) /\ Len(controls) \in Nat
  BY LenProperties DEF TypeOK, RequestIdr
<1>3. /\ controls' \in Seq(Controls) /\ Credits' = Credits /\ Asked'
      /\ Len(controls') = Len(controls) + 1
      /\ controls'[Len(controls) + 1] = IdrMsg
      /\ \A i \in 1 .. Len(controls) : controls'[i] = controls[i]
  BY <1>1, <1>2, ControlAppended
<1>4. \A i \in Credits : controls'[i] = controls[i]
  BY <1>3 DEF Credits
<1>5. AskedFirst => AskedFirst'
  BY <1>2, <1>3 DEF AskedFirst
<1>6. Credits = {} => AskedFirst'
  BY <1>1, <1>2, <1>3 DEF AskedFirst
<1>7. owed' \in Nat /\ (owed <= 2 => owed' <= 2) /\ (owed' > 1 => owed > 1)
  BY DEF TypeOK, RequestIdr
<1>8. QED BY <1>3, <1>4, <1>5, <1>6, <1>7

(* The client's request for an IDR is passed on. *)
LEMMA ForwardIdrInv == ASSUME IInv, ForwardIdr PROVE IInv'
<1>1. /\ controls' \in Seq(Controls) /\ Credits' = Credits /\ Asked'
      /\ \A i \in Credits : controls'[i] = controls[i]
      /\ AskedFirst => AskedFirst'
      /\ owed' \in Nat /\ (owed <= 2 => owed' <= 2) /\ (owed' > 1 => owed > 1)
  BY Requested DEF IInv, ForwardIdr
<1>2. /\ UNCHANGED <<placeholder, wpc, enc, encoders, seq, resume, tries, force, frames, bpc>>
      /\ UNCHANGED <<cur, gate, awaitIdr, shutdown, queue, shown, fault>>
      /\ idrMail' = FALSE /\ bpc = "loop"
  BY DEF ForwardIdr, encoder, session, sender
<1>3. /\ AuSent' <=> AuSent
      /\ PeerClosed' <=> PeerClosed
      /\ Slot' = Slot
  BY <1>2 DEF AuSent, Slot, PeerClosed
<1> USE <1>2, <1>3 DEF IInv
<1>4. TypeOK' BY <1>1 DEF TypeOK
<1>5. PcInv' BY DEF PcInv
<1>6. FramesInv' BY DEF FramesInv
<1>7. CreditInv' BY <1>1 DEF CreditInv
<1>8. StreamInv' BY DEF StreamInv, Newest, DecodableStream, Stream
<1>9. GateInv' BY DEF GateInv, Blind
<1>10. IdrInv' BY <1>1 DEF IdrInv, NextIsIdr
<1>11. QED BY <1>4, <1>5, <1>6, <1>7, <1>8, <1>9, <1>10

(* An accepted AU is an IDR or refers to the AU accepted before it, which  *)
(* is the newest packet unless the bridge waits for an IDR.                *)
LEMMA ReceiveInv == ASSUME IInv, Receive PROVE IInv'
<1> DEFINE au == Head(frames)
           ok == au.seq = gate + 1 /\ (gate = 0 => au.idr)
<1>1. /\ bpc = "loop" /\ frames # <<>> /\ frames' = Tail(frames)
      /\ UNCHANGED <<placeholder, wpc, enc, encoders, seq, resume, tries, force, owed>>
      /\ UNCHANGED <<controls, idrMail, shutdown, queue, shown>>
  BY DEF Receive, worker, encoder, mails, sender
<1>2. /\ au = frames[1] /\ Slot = 1 /\ ~PeerClosed /\ AuSent
      /\ frames' = <<>> /\ Len(frames') <= 1 /\ \A i \in 1 .. Len(frames') : FALSE
  <2>1. /\ au = frames[1] /\ Len(frames) \in Nat \ {0} /\ Len(frames') = Len(frames) - 1
        /\ frames' \in Seq(AUs \cup {ReadyMsg})
    BY <1>1, FrameTaken DEF IInv
  <2>2. Slot = 1 /\ ~PeerClosed
    BY <1>1 DEF Slot, PeerClosed
  <2>3. Len(frames) <= 1
    BY <2>2 DEF IInv, FramesInv
  <2>4. Len(frames) = 1
    BY <2>1, <2>3
  <2>5. frames' = <<>>
    BY <2>1, <2>4, EmptySeq
  <2>6. Len(frames') <= 1 /\ \A i \in 1 .. Len(frames') : FALSE
    BY <2>1, <2>4
  <2>7. QED BY <2>1, <2>2, <2>4, <2>5, <2>6 DEF AuSent
<1>3. au \in AUs
  <2>1. 1 \in 1 .. Len(frames) /\ frames \in Seq(AUs \cup {ReadyMsg})
    BY <1>2 DEF AuSent, IInv, TypeOK
  <2>2. frames[1] \in AUs \cup {ReadyMsg} /\ frames[1].kind = "frame"
    BY <1>2, <2>1, ElementOfSeq DEF IInv, FramesInv
  <2>3. QED BY <1>2, <2>2 DEF ReadyMsg
<1>4. au.idr \/ Follows(cur, au)
  BY <1>2 DEF IInv, StreamInv
<1>5. awaitIdr => au.idr
  <2>1. 1 \in 1 .. Len(frames) BY <1>2 DEF AuSent
  <2>2. QED BY <1>2, <2>1 DEF IInv, IdrInv, NextIsIdr
<1>6. CASE ~ok
  <2>1. NextIsIdr' /\ frames' \in Seq(AUs \cup {ReadyMsg})
    BY <1>2 DEF NextIsIdr
  <2>2. EndSession("gate") /\ UNCHANGED session
    BY <1>6 DEF Receive
  <2>3. UNCHANGED <<worker, controls, session, mails, sender>>
    BY <2>2 DEF Receive
  <2>4. QED BY <1>1, <2>1, <2>2, <2>3, EndInv DEF Session
<1>7. CASE ok
  <2>1. /\ gate' = au.seq /\ cur' = au /\ awaitIdr' = (awaitIdr /\ ~au.idr) /\ fault' = fault
        /\ bpc' \in IF awaitIdr' THEN {"drop"} ELSE {"offer", "drop"}
    BY <1>7 DEF Receive
  <2>2. ~awaitIdr' /\ bpc' \in {"offer", "drop"}
    BY <1>5, <2>1
  <2>3. ~AuSent' /\ ~PeerClosed' /\ wpc \in {"ack", "exit"}
    BY <1>2, <2>2 DEF AuSent, Slot, PeerClosed, IInv, FramesInv
  <2>4. wpc = "ack" => au.seq = seq /\ au.enc = enc
    BY <1>2 DEF IInv, StreamInv
  <2>5. gate \in Nat /\ au.seq \in Nat /\ au.seq = gate + 1
    BY <1>3, <1>7 DEF IInv, TypeOK, AUs
  <2> USE <1>1, <2>1, <2>2, <2>3
  <2>6. TypeOK'
    BY <1>2, <1>3, <2>5 DEF IInv, TypeOK, Session
  <2>7. PcInv' BY DEF IInv, PcInv, Busy, Working
  <2>8. FramesInv'
    <3>1. Slot' = 1 BY DEF Slot
    <3>2. QED BY <1>2, <3>1 DEF FramesInv
  <2>9. CreditInv' BY <1>2 DEF IInv, CreditInv, Credits, Working, Busy, Session
  <2>10. StreamInv'
    <3>1. cur'.idr \/ Follows(Newest', cur')
      <4>1. CASE awaitIdr BY <4>1, <1>5
      <4>2. CASE ~awaitIdr
        BY <4>2, <1>4 DEF IInv, StreamInv, Newest
      <4>3. QED BY <4>1, <4>2
    <3>2. DecodableStream'
      BY DEF IInv, StreamInv, DecodableStream, Stream
    <3>3. QED BY <2>4, <2>5, <3>1, <3>2 DEF StreamInv, Working
  <2>11. GateInv' BY DEF GateInv, Working
  <2>12. IdrInv' BY <1>2 DEF IInv, IdrInv, NextIsIdr, Asked, AskedFirst, Credits, Working
  <2>13. QED BY <2>6, <2>7, <2>8, <2>9, <2>10, <2>11, <2>12 DEF IInv
<1>8. QED BY <1>6, <1>7

(* The queue grows by a packet that the client can decode after the newest.*)
LEMMA DeliverInv == ASSUME IInv, Deliver PROVE IInv'
<1>1. /\ bpc = "offer" /\ Len(queue) < QueueLimit /\ queue' = Append(queue, cur) /\ bpc' = "ack"
      /\ UNCHANGED <<placeholder, wpc, enc, encoders, seq, resume, tries, force, owed>>
      /\ UNCHANGED <<frames, controls, cur, gate, awaitIdr, idrMail, shutdown, shown, fault>>
  BY DEF Deliver, worker, encoder, session, mails
<1>2. queue \in Seq(AUs) /\ cur \in AUs /\ Len(queue) \in Nat
  BY LenProperties DEF IInv, TypeOK
<1>3. /\ queue' \in Seq(AUs) /\ Len(queue') = Len(queue) + 1 /\ queue'[Len(queue) + 1] = cur
      /\ \A i \in 1 .. Len(queue) : queue'[i] = queue[i]
  BY <1>1, <1>2, AppendProperties
<1>4. AuSent' = AuSent /\ Slot' = Slot /\ ~PeerClosed /\ ~PeerClosed'
  BY <1>1 DEF AuSent, Slot, PeerClosed
<1>5. TypeOK'
  BY <1>1, <1>2, <1>3, VideoAssumption DEF IInv, TypeOK, Session
<1>6. Newest' = cur
  <2>1. queue' # <<>> BY <1>2, <1>3, EmptySeq
  <2>2. QED BY <1>3, <2>1 DEF Newest
<1>7. DecodableStream'
  <2>1. Decodable(shown, queue)
    BY <1>2, DecodableIff DEF IInv, StreamInv, DecodableStream, Stream, TypeOK
  <2>2. cur.idr \/ Follows(Newest, cur)
    BY <1>1 DEF IInv, StreamInv
  <2>3. \A i \in 1 .. Len(queue) : Prior(shown, queue', i) = Prior(shown, queue, i)
    BY <1>2, <1>3 DEF Prior
  <2>4. Prior(shown, queue', Len(queue) + 1) = Newest
    <3>1. CASE queue = <<>>
      BY <3>1 DEF Prior, Newest
    <3>2. CASE queue # <<>>
      <4>1. Len(queue) \in 1 .. Len(queue) /\ Len(queue) + 1 # 1 /\ (Len(queue) + 1) - 1 = Len(queue)
        BY <1>2, <3>2, EmptySeq
      <4>2. QED BY <1>3, <3>2, <4>1 DEF Prior, Newest
    <3>3. QED BY <3>1, <3>2
  <2>5. Decodable(shown, queue')
    <3> SUFFICES ASSUME NEW i \in 1 .. Len(queue')
                 PROVE  queue'[i].idr \/ Follows(Prior(shown, queue', i), queue'[i])
      BY DEF Decodable
    <3>1. CASE i \in 1 .. Len(queue)
      BY <3>1, <1>3, <2>1, <2>3 DEF Decodable
    <3>2. CASE i = Len(queue) + 1
      BY <3>2, <1>3, <2>2, <2>4
    <3>3. QED BY <1>2, <1>3, <3>1, <3>2
  <2>6. QED BY <1>1, <1>3, <2>5, DecodableIff DEF IInv, TypeOK, DecodableStream, Stream
<1> USE <1>1, <1>4
<1>8. PcInv' BY DEF IInv, PcInv, Busy, Working
<1>9. FramesInv' BY DEF IInv, FramesInv, Working
<1>10. CreditInv' BY DEF IInv, CreditInv, Credits, Working, Busy, Session
<1>11. StreamInv' BY <1>6, <1>7 DEF IInv, StreamInv, Working
<1>12. GateInv' BY DEF IInv, GateInv, Blind, Working
<1>13. IdrInv' BY DEF IInv, IdrInv, NextIsIdr, Asked, AskedFirst, Credits, Working
<1>14. QED BY <1>5, <1>8, <1>9, <1>10, <1>11, <1>12, <1>13 DEF IInv

(* The sender queue is full for too long: the AU is to be dropped. *)
LEMMA OfferTimeoutInv == ASSUME IInv, OfferTimeout PROVE IInv'
<1>1. /\ bpc = "offer" /\ bpc' = "drop"
      /\ UNCHANGED <<placeholder, wpc, enc, encoders, seq, resume, tries, force, owed>>
      /\ UNCHANGED <<frames, controls, cur, gate, awaitIdr, idrMail, shutdown, queue, shown, fault>>
  BY DEF OfferTimeout, worker, encoder, session, mails, sender
<1>2. AuSent' = AuSent /\ Slot' = Slot /\ ~PeerClosed /\ ~PeerClosed'
  BY <1>1 DEF AuSent, Slot, PeerClosed
<1> USE <1>1, <1>2 DEF IInv
<1>3. TypeOK' BY DEF TypeOK, Session
<1>4. PcInv' BY DEF PcInv, Busy, Working
<1>5. FramesInv' BY DEF FramesInv, Working
<1>6. CreditInv' BY DEF CreditInv, Credits, Working, Busy, Session
<1>7. StreamInv' BY DEF StreamInv, Newest, DecodableStream, Stream, Working
<1>8. GateInv' BY DEF GateInv, Blind, Working
<1>9. IdrInv' BY DEF IdrInv, NextIsIdr, Asked, AskedFirst, Credits, Working
<1>10. QED BY <1>3, <1>4, <1>5, <1>6, <1>7, <1>8, <1>9

(* The request is in the socket before the ACK is. *)
LEMMA DropInv == ASSUME IInv, Drop PROVE IInv'
<1>1. /\ bpc = "drop" /\ bpc' = "ack" /\ awaitIdr' = TRUE /\ ~awaitIdr
      /\ UNCHANGED <<placeholder, wpc, enc, encoders, seq, resume, tries, force, frames>>
      /\ UNCHANGED <<cur, gate, idrMail, shutdown, queue, shown, fault>>
  BY DEF Drop, encoder, session, mails, sender, IInv, PcInv
<1>2. RequestIdr
  BY <1>1 DEF Drop
<1>3. /\ controls' \in Seq(Controls) /\ Credits' = Credits /\ Asked'
      /\ \A i \in Credits : controls'[i] = controls[i]
      /\ AskedFirst => AskedFirst'
      /\ Credits = {} => AskedFirst'
      /\ owed' \in Nat /\ (owed <= 2 => owed' <= 2) /\ (owed' > 1 => owed > 1)
  BY <1>2, Requested DEF IInv
<1>4. AuSent' = AuSent /\ Slot' = Slot /\ ~PeerClosed /\ ~PeerClosed' /\ ~AuSent
  BY <1>1 DEF AuSent, Slot, PeerClosed, IInv, FramesInv
<1>5. \A i \in 1 .. Len(frames) : FALSE
  <2> DEFINE n == Len(frames)
  <2>1. n \in Nat /\ n <= 1 /\ n # 1
    BY <1>1, <1>4, LenProperties DEF IInv, FramesInv, Slot, AuSent, TypeOK
  <2> HIDE DEF n
  <2>2. \A i \in 1 .. n : FALSE
    BY <2>1
  <2>3. QED BY <2>2 DEF n
<1>6. wpc = "ack" => AskedFirst'
  BY <1>1, <1>3 DEF IInv, CreditInv, Busy
<1> USE <1>1, <1>4 DEF IInv
<1>7. TypeOK' BY <1>3 DEF TypeOK, Session
<1>8. PcInv' BY DEF PcInv, Busy, Working
<1>9. FramesInv' BY DEF FramesInv, Working
<1>10. CreditInv' BY <1>3 DEF CreditInv, Working, Busy, Session
<1>11. StreamInv' BY DEF StreamInv, Newest, DecodableStream, Stream, Working
<1>12. GateInv' BY DEF GateInv, Blind, Working
<1>13. IdrInv'
  <2>1. NextIsIdr' BY <1>5 DEF NextIsIdr
  <2>2. wpc \in {"ack", "exit"} BY DEF PcInv, Busy
  <2>3. QED BY <1>3, <1>6, <2>1, <2>2 DEF IdrInv, Working
<1>14. QED BY <1>7, <1>8, <1>9, <1>10, <1>11, <1>12, <1>13

(* The credit goes back behind a request that is in the socket. *)
LEMMA AckInv == ASSUME IInv, Ack PROVE IInv'
<1>1. /\ bpc = "ack" /\ bpc' = "loop" /\ controls' = Append(controls, AckMsg(cur.seq))
      /\ UNCHANGED <<placeholder, wpc, enc, encoders, seq, resume, tries, force, owed>>
      /\ UNCHANGED <<frames, cur, gate, awaitIdr, idrMail, shutdown, queue, shown, fault>>
  BY DEF Ack, worker, encoder, session, mails, sender
<1>2. AckMsg(cur.seq) \in Controls /\ AckMsg(cur.seq).kind = "ack" /\ AckMsg(cur.seq).seq = cur.seq
  BY DEF AckMsg, Controls, IInv, TypeOK, AUs
<1>3. controls \in Seq(Controls) /\ Len(controls) \in Nat
  BY LenProperties DEF IInv, TypeOK
<1>4. /\ controls' \in Seq(Controls)
      /\ Len(controls') = Len(controls) + 1
      /\ controls'[Len(controls) + 1] = AckMsg(cur.seq)
      /\ \A i \in 1 .. Len(controls) : controls'[i] = controls[i]
      /\ Credits' = Credits \cup {Len(controls) + 1}
      /\ Asked => Asked'
  BY <1>1, <1>2, <1>3, ControlAppended
<1>5. AskedFirst => AskedFirst'
  BY <1>3, <1>4 DEF AskedFirst
<1>6. AuSent' = AuSent /\ Slot' = Slot /\ ~PeerClosed /\ ~PeerClosed' /\ ~AuSent
      /\ wpc \in {"ack", "exit"}
  BY <1>1 DEF AuSent, Slot, PeerClosed, IInv, FramesInv, PcInv, Busy
<1> USE <1>1, <1>6 DEF IInv
<1>7. TypeOK' BY <1>4 DEF TypeOK, Session
<1>8. PcInv' BY DEF PcInv, Busy, Working
<1>9. FramesInv' BY DEF FramesInv, Working
<1>10. CreditInv'
  <2>1. wpc = "ack" => Credits' = {Len(controls) + 1} /\ controls'[Len(controls) + 1].seq = seq
    BY <1>2, <1>4 DEF CreditInv, StreamInv, Busy
  <2>2. QED BY <2>1 DEF CreditInv, Working, Busy, Session
<1>11. StreamInv' BY DEF StreamInv, Newest, DecodableStream, Stream, Working
<1>12. GateInv' BY DEF GateInv, Blind, Working
<1>13. IdrInv' BY <1>4, <1>5 DEF IdrInv, NextIsIdr, Working
<1>14. QED BY <1>7, <1>8, <1>9, <1>10, <1>11, <1>12, <1>13

(* The worker is reaped. *)
LEMMA TeardownInv == ASSUME IInv, Teardown PROVE IInv'
<1>1. /\ bpc = "ended" /\ bpc' = "over" /\ wpc' = "none" /\ enc' = 0 /\ shutdown' = TRUE
      /\ UNCHANGED <<placeholder, encoders, seq, resume, tries, force, owed, frames>>
      /\ UNCHANGED <<controls, cur, gate, awaitIdr, idrMail, queue, shown, fault>>
  BY DEF Teardown, session, sender
<1> USE <1>1 DEF IInv
<1>2. TypeOK' BY DEF TypeOK
<1>3. PcInv' BY DEF PcInv, Busy, Working
<1>4. FramesInv' BY DEF FramesInv, AuSent, PeerClosed
<1>5. CreditInv' BY DEF CreditInv, Working
<1>6. StreamInv' BY DEF StreamInv, DecodableStream, Stream, AuSent, PeerClosed
<1>7. GateInv' BY DEF GateInv, PeerClosed
<1>8. IdrInv' BY DEF IdrInv, NextIsIdr, PeerClosed, Working
<1>9. QED BY <1>2, <1>3, <1>4, <1>5, <1>6, <1>7, <1>8

(* No step of the bridge breaks the invariant. *)
LEMMA BridgeInv == ASSUME IInv, BridgeNext PROVE IInv'
<1>1. ASSUME EndSession("none"), bpc \in Session \cup {"ready"},
             UNCHANGED <<worker, frames, controls, session, mails, sender>>
      PROVE  IInv'
  <2>1. NextIsIdr' /\ frames' \in Seq(AUs \cup {ReadyMsg})
    BY <1>1 DEF IInv, IdrInv, NextIsIdr, TypeOK, session
  <2>2. QED BY <1>1, <2>1, EndInv
<1>2. CASE SeeShutdown BY <1>1, <1>2 DEF SeeShutdown, Session
<1>3. CASE WorkerLost BY <1>1, <1>3 DEF WorkerLost, Session
<1>4. CASE GiveUp BY <1>1, <1>4 DEF GiveUp, Session
<1>5. QED
  BY <1>2, <1>3, <1>4, SpawnInv, ReadyInv, ForwardIdrInv, ReceiveInv, DeliverInv, OfferTimeoutInv,
     DropInv, AckInv, TeardownInv DEF BridgeNext, BridgeStep

(***************************************************************************)
(* Sunshine's threads.                                                     *)
(***************************************************************************)
(* A step that only sets or clears the events of the mail. *)
LEMMA MailInv ==
    ASSUME IInv, idrMail' \in BOOLEAN, shutdown' \in BOOLEAN,
           UNCHANGED <<worker, frames, controls, bpc, session, sender, fault>>
    PROVE  IInv'
<1>1. /\ UNCHANGED <<placeholder, wpc, enc, encoders, seq, resume, tries, force, owed>>
      /\ UNCHANGED <<frames, controls, bpc, cur, gate, awaitIdr, queue, shown, fault>>
  BY DEF worker, encoder, session, sender
<1>2. AuSent' = AuSent /\ Slot' = Slot /\ PeerClosed' = PeerClosed /\ Credits' = Credits
  BY <1>1 DEF AuSent, Slot, PeerClosed, Credits
<1> USE <1>1, <1>2 DEF IInv
<1>3. TypeOK' BY DEF TypeOK
<1>4. PcInv' BY DEF PcInv
<1>5. FramesInv' BY DEF FramesInv
<1>6. CreditInv' BY DEF CreditInv
<1>7. StreamInv' BY DEF StreamInv, Newest, DecodableStream, Stream
<1>8. GateInv' BY DEF GateInv, Blind
<1>9. IdrInv' BY DEF IdrInv, NextIsIdr, Asked, AskedFirst
<1>10. QED BY <1>3, <1>4, <1>5, <1>6, <1>7, <1>8, <1>9

(* The oldest packet is sent: what the others refer to stays in place. *)
LEMMA SendPacketInv == ASSUME IInv, SendPacket PROVE IInv'
<1>1. /\ queue # <<>> /\ shown' = Head(queue) /\ queue' = Tail(queue)
      /\ UNCHANGED <<placeholder, wpc, enc, encoders, seq, resume, tries, force, owed>>
      /\ UNCHANGED <<frames, controls, bpc, cur, gate, awaitIdr, idrMail, shutdown, fault>>
  BY DEF SendPacket, worker, encoder, session, mails
<1>2. queue \in Seq(AUs) /\ shown \in AUs
  BY DEF IInv, TypeOK
<1>3. /\ Head(queue) = queue[1] /\ Head(queue) \in AUs
      /\ queue' \in Seq(AUs) /\ Len(queue) \in Nat \ {0} /\ Len(queue') = Len(queue) - 1
      /\ \A i \in 1 .. Len(queue') : queue'[i] = queue[i + 1]
  BY <1>1, <1>2, HeadTailProperties, EmptySeq, LenProperties
<1>4. AuSent' = AuSent /\ Slot' = Slot /\ PeerClosed' = PeerClosed /\ Credits' = Credits
  BY <1>1 DEF AuSent, Slot, PeerClosed, Credits
<1>5. Newest' = Newest
  <2>1. CASE queue' = <<>>
    <3>1. Len(queue') = 0 BY <2>1
    <3>2. Len(queue) = 1 BY <1>3, <3>1
    <3>3. QED BY <1>1, <1>3, <2>1, <3>2 DEF Newest
  <2>2. CASE queue' # <<>>
    <3>1. Len(queue') \in 1 .. Len(queue') /\ Len(queue') + 1 = Len(queue)
      BY <1>3, <2>2, EmptySeq
    <3>2. queue'[Len(queue')] = queue[Len(queue)]
      BY <1>3, <3>1
    <3>3. QED BY <1>1, <2>2, <3>2 DEF Newest
  <2>3. QED BY <2>1, <2>2
<1>6. DecodableStream'
  <2>1. Decodable(shown, queue)
    BY <1>2, DecodableIff DEF IInv, StreamInv, DecodableStream, Stream
  <2>2. Decodable(shown', queue')
    <3> SUFFICES ASSUME NEW i \in 1 .. Len(queue')
                 PROVE  queue'[i].idr \/ Follows(Prior(shown', queue', i), queue'[i])
      BY DEF Decodable
    <3>1. i + 1 \in 1 .. Len(queue) /\ i + 1 # 1 /\ (i + 1) - 1 = i
      BY <1>3
    <3>2. Prior(shown', queue', i) = Prior(shown, queue, i + 1)
      <4>1. CASE i = 1
        BY <1>1, <1>3, <3>1, <4>1 DEF Prior
      <4>2. CASE i # 1
        <5>1. i - 1 \in 1 .. Len(queue') /\ (i - 1) + 1 = i
          BY <1>3, <4>2
        <5>2. queue'[i - 1] = queue[i]
          BY <1>3, <5>1
        <5>3. QED BY <3>1, <4>2, <5>2 DEF Prior
      <4>3. QED BY <4>1, <4>2
    <3>3. queue'[i] = queue[i + 1]
      BY <1>3
    <3>4. QED BY <2>1, <3>1, <3>2, <3>3 DEF Decodable
  <2>3. QED BY <1>1, <1>3, <2>2, DecodableIff DEF DecodableStream, Stream
<1> USE <1>1, <1>4 DEF IInv
<1>7. TypeOK'
  <2>1. Len(queue') <= QueueLimit
    BY <1>3, VideoAssumption DEF TypeOK
  <2>2. QED BY <1>3, <2>1 DEF TypeOK
<1>8. PcInv' BY DEF PcInv
<1>9. FramesInv' BY DEF FramesInv
<1>10. CreditInv' BY DEF CreditInv
<1>11. StreamInv' BY <1>5, <1>6 DEF StreamInv
<1>12. GateInv' BY DEF GateInv, Blind
<1>13. IdrInv' BY DEF IdrInv, NextIsIdr, Asked, AskedFirst
<1>14. QED BY <1>7, <1>8, <1>9, <1>10, <1>11, <1>12, <1>13

(***************************************************************************)
(* The theorems.                                                           *)
(***************************************************************************)
(* The invariant holds when the session starts. *)
LEMMA VideoInit == Init => IInv
<1> SUFFICES ASSUME Init PROVE IInv
  OBVIOUS
<1>1. TypeOK
  <2>1. NoAU \in AUs BY DEF NoAU, AU, AUs
  <2>2. tries \in 0 .. RecoveryWindow /\ Len(queue) <= QueueLimit
    BY VideoAssumption DEF Init
  <2>3. /\ frames \in Seq(AUs \cup {ReadyMsg}) /\ controls \in Seq(Controls) /\ queue \in Seq(AUs)
        /\ cur \in AUs /\ shown \in AUs
    BY <2>1 DEF Init
  <2>4. /\ placeholder \in BOOLEAN /\ force \in BOOLEAN /\ awaitIdr \in BOOLEAN
        /\ idrMail \in BOOLEAN /\ shutdown \in BOOLEAN
    BY DEF Init
  <2>5. QED BY <2>2, <2>3, <2>4 DEF Init, TypeOK
<1>2. frames = <<>> /\ controls = <<>> /\ queue = <<>>
      /\ Len(frames) = 0 /\ Len(controls) = 0 /\ Len(queue) = 0
  BY DEF Init
<1> USE <1>2 DEF Init
<1>3. PcInv BY DEF PcInv, Busy, Working
<1>4. FramesInv BY DEF FramesInv, AuSent, Slot, PeerClosed, Working
<1>5. CreditInv BY DEF CreditInv, Credits, Working
<1>6. StreamInv
  BY DEF StreamInv, AuSent, Slot, PeerClosed, Newest, DecodableStream, Working, NoAU, AU
<1>7. GateInv BY DEF GateInv, AuSent, Slot, Working
<1>8. IdrInv BY DEF IdrInv, NextIsIdr, Working
<1>9. QED BY <1>1, <1>3, <1>4, <1>5, <1>6, <1>7, <1>8 DEF IInv

(* Every step of the session keeps it. *)
LEMMA VideoStep == ASSUME IInv, [Next]_vars PROVE IInv'
<1>1. CASE ClientIdr
  BY <1>1, MailInv DEF ClientIdr, IInv, TypeOK
<1>2. CASE ClientLeaves
  BY <1>2, MailInv DEF ClientLeaves, IInv, TypeOK
<1>3. CASE UNCHANGED vars
  <2>1. UNCHANGED <<worker, frames, controls, bpc, session, sender, fault>> /\ UNCHANGED mails
    BY <1>3 DEF vars, worker, encoder, session, sender, mails
  <2>2. QED BY <2>1, MailInv DEF mails, IInv, TypeOK
<1>4. QED
  BY <1>1, <1>2, <1>3, WorkerInv, BridgeInv, SendPacketInv DEF Next, Over

(* The invariant of the session, the parts above put together: worker and  *)
(* bridge agree on where the one AU in flight is, on its number, on what   *)
(* it refers to and on whether an IDR is on its way.                       *)
THEOREM VideoInvariant == Spec => []IInv
<1>1. IInv /\ [Next]_vars => IInv'
  BY VideoStep
<1>2. QED BY VideoInit, <1>1, PTL DEF Spec

(* Every variable keeps its type; in particular the sender queue never     *)
(* holds more than QueueLimit packets (rkmoon_try_raise) and recover()     *)
(* never starts more attempts than fit into its window.                    *)
THEOREM VideoTypes == Spec => []TypeOK
<1>1. IInv => TypeOK BY DEF IInv
<1>2. QED BY <1>1, VideoInvariant, PTL

(* The client can decode every packet that is queued for it, whatever AUs  *)
(* the bridge dropped and however often the worker reopened its encoder.   *)
THEOREM StreamDecodable == Spec => []DecodableStream
<1>1. IInv => DecodableStream BY DEF IInv, StreamInv
<1>2. QED BY <1>1, VideoInvariant, PTL

(* While capture() waits for an IDR, an AU on its way to it is an IDR: an  *)
(* overload costs one AU at a time.                                        *)
THEOREM DropCostsOneAU == Spec => []NextIsIdr
<1>1. IInv => NextIsIdr BY DEF IInv, IdrInv
<1>2. QED BY <1>1, VideoInvariant, PTL

(* The credit of the AU in flight is in exactly one place, and the worker  *)
(* never reads an ACK that it did not expect or with a wrong number.       *)
THEOREM CreditIsUnique == Spec => []OneCredit
<1>1. ASSUME IInv PROVE OneCredit
  <2>1. fault \notin {"ack", "control"} BY <1>1 DEF IInv, CreditInv
  <2>2. ASSUME wpc = "ack", bpc \in Session
        PROVE  \/ Len(frames) = 1 /\ bpc = "loop" /\ Credits = {}
               \/ frames = <<>> /\ bpc # "loop" /\ cur.seq = seq /\ Credits = {}
               \/ /\ frames = <<>> /\ bpc = "loop"
                  /\ \E i \in Credits : Credits = {i} /\ controls[i].seq = seq
    <3>1. Slot = 1 /\ ~PeerClosed
      BY <2>2 DEF Slot, PeerClosed, Session
    <3>2. CASE AuSent
      BY <1>1, <2>2, <3>1, <3>2 DEF AuSent, IInv, FramesInv, CreditInv, Session
    <3>3. CASE ~AuSent
      <4>1. frames = <<>>
        <5> DEFINE n == Len(frames)
        <5>1. n \in Nat /\ n <= 1 /\ n # 1
          BY <1>1, <3>1, <3>3, LenProperties DEF IInv, FramesInv, AuSent, TypeOK
        <5> HIDE DEF n
        <5>2. n = 0 BY <5>1
        <5>3. QED BY <1>1, <5>2, EmptySeq DEF IInv, TypeOK, n
      <4>2. CASE bpc = "loop"
        <5>1. PICK i \in Credits : TRUE
          BY <1>1, <2>2, <3>1, <3>3, <4>2 DEF IInv, CreditInv
        <5>2. Credits = {i} /\ controls[i].seq = seq
          BY <1>1, <2>2, <5>1 DEF IInv, CreditInv
        <5>3. QED BY <4>1, <4>2, <5>2
      <4>3. CASE bpc # "loop"
        BY <1>1, <2>2, <3>1, <3>3, <4>1, <4>3 DEF IInv, CreditInv, StreamInv, Session, Busy
      <4>4. QED BY <4>2, <4>3
    <3>4. QED BY <3>2, <3>3
  <2>3. QED BY <2>1, <2>2 DEF OneCredit
<1>2. QED BY <1>1, VideoInvariant, PTL

(* At most one P frame is encoded between a request for an IDR, by the     *)
(* client or by the bridge, and the IDR.                                   *)
THEOREM IdrIsPrompt == Spec => []IdrPrompt
<1>1. IInv => IdrPrompt BY DEF IInv, IdrInv, IdrPrompt
<1>2. QED BY <1>1, VideoInvariant, PTL

(* SequenceGate rejects an AU only after a recovery that found no encoder  *)
(* to continue from and then reopened.                                     *)
THEOREM GateRejectsBlindOnly == Spec => GateRejectsBlind
<1>1. ASSUME IInv, Next, fault # "gate", fault' = "gate"
      PROVE  resume = 0 /\ encoders > 1
  <2>1. Receive
    BY <1>1 DEF Next, WorkerNext, WorkerStep, BridgeNext, BridgeStep, ClientIdr, ClientLeaves,
       SendPacket, Over, vars, Open, Drain, Proceed, Reopen, Encode, AwaitAck, CheckSource,
       WorkerEof, CaptureFault, WorkerDies, Recover, WorkerExit, Spawn, Ready, ForwardIdr, Deliver,
       OfferTimeout, Drop, Ack, SeeShutdown, WorkerLost, GiveUp, Teardown, EndSession
  <2>2. ~(Head(frames).seq = gate + 1 /\ (gate = 0 => Head(frames).idr))
    BY <1>1, <2>1 DEF Receive
  <2>3. Head(frames) = frames[1] /\ Len(frames) \in Nat \ {0}
    BY <1>1, <2>1, FrameTaken DEF Receive, IInv
  <2>4. Slot = 1 /\ ~PeerClosed
    BY <2>1 DEF Receive, Slot, PeerClosed
  <2>5. Len(frames) <= 1
    BY <1>1, <2>4 DEF IInv, FramesInv
  <2>6. AuSent
    BY <2>3, <2>4, <2>5 DEF AuSent
  <2>7. QED BY <1>1, <2>2, <2>3, <2>4, <2>6 DEF IInv, GateInv, Blind
<1>2. IInv /\ [Next]_vars => [fault # "gate" /\ fault' = "gate" => resume = 0 /\ encoders > 1]_vars
  BY <1>1
<1>3. QED BY <1>2, VideoInvariant, PTL DEF Spec, GateRejectsBlind
=============================================================================
