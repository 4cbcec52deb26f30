----------------------------- MODULE InputQueue ------------------------------
(***************************************************************************)
(* The way of an input event of one lease, from the thread of Sunshine     *)
(* that receives it to the kvmd target: HidClient's deque                  *)
(* (src/hid_client.cpp), the local socket, the bridge's Queue and          *)
(* Lease.apply (python/rkmoon_hid).  Both queues merge adjacent motion and *)
(* end the lease when they are full, so that a late event is never         *)
(* replayed.                                                               *)
(*                                                                         *)
(* An event is an edge (a key or button going down or up), a relative      *)
(* move, an absolute position or a wheel turn.  The two axes of a motion   *)
(* are treated alike by the code and one of them is modelled.  What kvmd   *)
(* and the release of the lease do with the edges is in module HidServer.  *)
(***************************************************************************)
EXTENDS Integers, Sequences, SequencesExt

CONSTANTS
    Edges,        \* keys and buttons with their direction, as numbers
    Deltas,       \* motion and wheel amounts
    MaxDelta,     \* the largest motion one event may carry (32767)
    Notch,        \* wheel units of one notch (120)
    ClientCap,    \* HidClient's deque (64)
    ServerCap,    \* the bridge's Queue (256)
    SocketCap,    \* lines the local socket buffers
    MaxEvents     \* bound: events submitted

ASSUME QueueAssumption ==
    /\ Edges \subseteq Nat
    /\ MaxDelta \in Nat /\ Deltas \subseteq -MaxDelta .. MaxDelta
    /\ Notch \in Nat \ {0} /\ ClientCap \in Nat \ {0} /\ ServerCap \in Nat \ {0}
    /\ SocketCap \in Nat \ {0} /\ MaxEvents \in Nat

VARIABLES
    absolute,   \* the mouse mode of the lease, fixed by its hello
    deque,      \* HidClient.events_
    healthy,    \* HidClient.healthy_
    sender,     \* HidClient.run: "run", or "over" once the socket is shut down
    socket,     \* lines sent and not yet read
    items,      \* Queue.items
    reader,     \* the lease in the bridge: "serve", "over"
    target,     \* what kvmd was told: a history, see Apply
    intended,   \* the same for the accepted events, applied at once
    accepted,   \* number of events submit() accepted
    scrolled    \* wheel units of those events

client == <<absolute, deque, healthy, sender>>
bridge == <<items, reader>>
history == <<intended, accepted, scrolled>>
vars == <<absolute, deque, healthy, sender, socket, items, reader, target, intended, accepted,
          scrolled>>

Motion == IF absolute THEN "absolute" ELSE "move"
Events == [op : {"edge"}, v : Edges] \cup [op : {"wheel", "move", "absolute"}, v : Deltas]

(***************************************************************************)
(* Lease.apply: the edges in their order, each with the pointer position   *)
(* it met, the notches turned and the wheel units kept for later.          *)
(***************************************************************************)
Untouched == [log |-> <<>>, pos |-> 0, notches |-> 0, rem |-> 0]

Seen(o, v, p) == [op |-> o, v |-> v, pos |-> p]

(* int(a / b): towards zero *)
Trunc(a, b) == IF a < 0 THEN -((-a) \div b) ELSE a \div b

(* Mutant of Turn: the fraction of a notch is dropped. *)
TurnForgets(t, v) ==
    LET n == Trunc(t.rem + v, Notch)
    IN  [t EXCEPT !.notches = @ + n, !.rem = 0,
                  !.log = IF n = 0 THEN @ ELSE Append(@, Seen("wheel", n, t.pos))]

Turn(t, v) ==
    LET n == Trunc(t.rem + v, Notch)
    IN  [t EXCEPT !.notches = @ + n, !.rem = @ + v - n * Notch,
                  !.log = IF n = 0 THEN @ ELSE Append(@, Seen("wheel", n, t.pos))]

Apply(t, e) ==
    CASE e.op = "edge"     -> [t EXCEPT !.log = Append(@, Seen("edge", e.v, t.pos))]
      [] e.op = "move"     -> [t EXCEPT !.pos = @ + e.v]
      [] e.op = "absolute" -> [t EXCEPT !.pos = e.v]
      [] e.op = "wheel"    -> Turn(t, e.v)

Init ==
    /\ absolute \in BOOLEAN
    /\ deque = <<>> /\ healthy = TRUE /\ sender = "run" /\ socket = <<>>
    /\ items = <<>> /\ reader = "serve"
    /\ target = Untouched /\ intended = Untouched /\ accepted = 0 /\ scrolled = 0

(***************************************************************************)
(* The rule of both queues: motion is merged with motion at the end of the *)
(* queue when the sum still fits into one event; a queue that is full      *)
(* takes nothing else.                                                     *)
(***************************************************************************)
(* Mutant of Merges: the sum is not tested. *)
MergesUnbounded(q, e) == q # <<>> /\ Last(q).op = e.op /\ e.op \in {"absolute", "move"}

Merges(q, e) ==
    /\ q # <<>> /\ Last(q).op = e.op
    /\ \/ e.op = "absolute"
       \/ e.op = "move" /\ Last(q).v + e.v \in -MaxDelta .. MaxDelta

(* Mutant of Merged: a relative move replaces the one before it. *)
MergedLatest(q, e) == [q EXCEPT ![Len(q)].v = e.v]

Merged(q, e) ==
    LET v == IF e.op = "move" THEN Last(q).v + e.v ELSE e.v
    IN  [q EXCEPT ![Len(q)].v = v]

Fits(q, e, cap) == Merges(q, e) \/ Len(q) < cap

Put(q, e) == IF Merges(q, e) THEN Merged(q, e) ELSE Append(q, e)

(***************************************************************************)
(* HidClient.                                                              *)
(***************************************************************************)
Submit(e) ==
    /\ healthy /\ accepted < MaxEvents
    /\ e.op \in {"edge", "wheel", Motion} /\ Fits(deque, e, ClientCap)
    /\ deque' = Put(deque, e)
    /\ intended' = Apply(intended, e) /\ accepted' = accepted + 1
    /\ scrolled' = scrolled + IF e.op = "wheel" THEN e.v ELSE 0
    /\ UNCHANGED <<absolute, healthy, sender, socket, bridge, target>>

(* Motion of the other mode, or a full deque: the lease is given up.       *)
SubmitRefused(e) ==
    /\ healthy
    /\ e.op \notin {"edge", "wheel", Motion} \/ ~Fits(deque, e, ClientCap)
    /\ healthy' = FALSE
    /\ UNCHANGED <<absolute, deque, sender, socket, bridge, target, history>>

(* Mutant of Transmit: run() waits for more than one event. *)
TransmitLate ==
    /\ sender = "run" /\ healthy /\ Len(deque) > 1 /\ Len(socket) < SocketCap
    /\ socket' = Append(socket, Head(deque)) /\ deque' = Tail(deque)
    /\ UNCHANGED <<absolute, healthy, sender, bridge, target, history>>

(* run() pops an event and transmits it.                                   *)
Transmit ==
    /\ sender = "run" /\ healthy /\ deque # <<>> /\ Len(socket) < SocketCap
    /\ socket' = Append(socket, Head(deque)) /\ deque' = Tail(deque)
    /\ UNCHANGED <<absolute, healthy, sender, bridge, target, history>>

(* Mutant of SenderEnds: the socket is left open. *)
SenderEndsOpen ==
    /\ sender = "run" /\ healthy' = FALSE
    /\ UNCHANGED <<absolute, deque, sender, socket, bridge, target, history>>

(* run() ends: a send took 100 ms, the peer closed, healthy_ was cleared   *)
(* or the HidClient is destroyed.  The socket is shut down; queued events  *)
(* go nowhere.                                                             *)
SenderEnds ==
    /\ sender = "run"
    /\ sender' = "over" /\ healthy' = FALSE
    /\ UNCHANGED <<absolute, deque, socket, bridge, target, history>>

(***************************************************************************)
(* The bridge: read_events, consume, and the end of the lease.             *)
(***************************************************************************)
ReadEvent ==
    /\ reader = "serve" /\ socket # <<>>
    /\ Fits(items, Head(socket), ServerCap)
    /\ items' = Put(items, Head(socket)) /\ socket' = Tail(socket)
    /\ UNCHANGED <<client, reader, target, history>>

(* Mutant of Saturated: the event is dropped, the lease goes on. *)
SaturatedDrops ==
    /\ reader = "serve" /\ socket # <<>>
    /\ ~Fits(items, Head(socket), ServerCap)
    /\ socket' = Tail(socket)
    /\ UNCHANGED <<client, bridge, target, history>>

(* put() finds its queue saturated: the lease is revoked.                  *)
Saturated ==
    /\ reader = "serve" /\ socket # <<>>
    /\ ~Fits(items, Head(socket), ServerCap)
    /\ reader' = "over" /\ items' = <<>> /\ socket' = Tail(socket)
    /\ UNCHANGED <<client, target, history>>

(* EOF after the last line, a lapsed heartbeat, a failed backend call: the *)
(* consumer is cancelled and the queue is gone with it.                    *)
LeaseEnds ==
    /\ reader = "serve"
    /\ reader' = "over" /\ items' = <<>>
    /\ UNCHANGED <<client, socket, target, history>>

Consume ==
    /\ reader = "serve" /\ items # <<>>
    /\ target' = Apply(target, Head(items)) /\ items' = Tail(items)
    /\ UNCHANGED <<client, socket, reader, history>>

(* The sender sees that its peer is gone. *)
PeerGone == reader = "over" /\ SenderEnds

(* EOF: the reader returns once it has read everything. *)
Eof == sender = "over" /\ socket = <<>> /\ LeaseEnds

Over ==
    /\ sender = "over" /\ reader = "over"
    /\ UNCHANGED vars

Next ==
    \/ \E e \in Events : Submit(e) \/ SubmitRefused(e)
    \/ Transmit \/ SenderEnds \/ ReadEvent \/ Saturated \/ LeaseEnds \/ Consume
    \/ Over

Spec == Init /\ [][Next]_vars

(* The sender thread and the bridge's tasks run; each notices the other's  *)
(* end.  Neither a failure nor a further event is assumed.                 *)
Fairness ==
    /\ WF_vars(Transmit) /\ WF_vars(ReadEvent \/ Saturated) /\ WF_vars(Consume)
    /\ WF_vars(~healthy /\ SenderEnds) /\ WF_vars(PeerGone) /\ WF_vars(Eof)

FairSpec == Spec /\ Fairness

(***************************************************************************)
(* Correctness.                                                            *)
(***************************************************************************)
Seens == [op : {"edge", "wheel"}, v : Int, pos : Int]
Targets == [log : Seq(Seens), pos : Int, notches : Int, rem : Int]

TypeOK ==
    /\ deque \in Seq([op : {"edge", "wheel", Motion}, v : Int]) /\ Len(deque) <= ClientCap
    /\ items \in Seq([op : {"edge", "wheel", Motion}, v : Int]) /\ Len(items) <= ServerCap
    /\ socket \in Seq([op : {"edge", "wheel", Motion}, v : Int])
    /\ absolute \in BOOLEAN /\ healthy \in BOOLEAN /\ sender \in {"run", "over"} /\ reader \in {"serve", "over"}
    /\ target \in Targets /\ intended \in Targets
    /\ accepted \in 0 .. MaxEvents /\ scrolled \in Int

InFlight == items \o socket \o deque

(* What the target becomes when the events of q are applied in turn. *)
Outcome(t, q) ==
    LET run[i \in 0 .. Len(q)] == IF i = 0 THEN t ELSE Apply(run[i - 1], q[i])
    IN  run[Len(q)]

(* Merging is invisible: what was applied, followed by what is still in    *)
(* the three queues, is what the accepted events would have done one by    *)
(* one.  No edge is lost, repeated or reordered, no motion crosses an      *)
(* edge, and a click meets the pointer where the user saw it.              *)
MergingInvisible ==
    reader = "serve" => Outcome(target, InFlight) = intended

(* Whatever ends the lease, the target has seen a beginning of what was    *)
(* intended, with every edge and notch at its place: no later event        *)
(* overtakes the ones that were thrown away.                               *)
AppliedPrefix == IsPrefix(target.log, intended.log)

(* The wire carries no motion that the bridge's parse_event would refuse,  *)
(* however often two queues add up deltas.                                 *)
MotionFits ==
    \A i \in 1 .. Len(InFlight) :
        InFlight[i].op # "edge" => InFlight[i].v \in -MaxDelta .. MaxDelta

(* The wheel loses nothing and turns no notch too early: whole notches and *)
(* a remainder of less than one notch add up to what the client turned.    *)
WheelExact ==
    /\ target.rem \in 1 - Notch .. Notch - 1
    /\ reader = "serve" /\ InFlight = <<>> =>
          target.notches * Notch + target.rem = scrolled

(* Every accepted event reaches the target, or the lease ends.             *)
EventsArrive ==
    accepted > 0 ~> (target = intended \/ reader = "over")

(* A lease that one side gives up ends on both: no half-open lease blocks  *)
(* the next client.                                                        *)
BothSidesEnd ==
    (~healthy \/ reader = "over") ~> (sender = "over" /\ reader = "over")
==============================================================================
