-------------------------- MODULE InputQueueProofs ---------------------------
(***************************************************************************)
(* Proofs about InputQueue, for queues of any length, any number of events *)
(* and any size of a notch.                                                *)
(***************************************************************************)
EXTENDS InputQueue, SequenceTheorems, WellFoundedInduction, TLAPS

(***************************************************************************)
(* Naturals: a set of naturals that is not empty has a least element,      *)
(* which is what induction on the length of a queue is done with here.     *)
(***************************************************************************)

(* A nonempty set of naturals has a least element.                         *)
LEMMA Least ==
    ASSUME NEW T \in SUBSET Nat, T # {}
    PROVE  \E m \in T : \A k \in T : m <= k
<1>1. PICK x \in T : \A y \in T : ~(<<y, x>> \in OpToRel(<, Nat))
  BY NatLessThanWellFounded, WFMin, Zenon
<1>2. \A y \in T : ~(y < x)
  BY <1>1 DEF OpToRel
<1> QED BY <1>2

(* What holds at 0 and is handed from i to i + 1 holds up to n.            *)
LEMMA Climb ==
    ASSUME NEW n \in Nat, NEW S \in SUBSET (0 .. n), 0 \in S,
           \A i \in 0 .. n - 1 : i \in S => i + 1 \in S
    PROVE  S = 0 .. n
<1> SUFFICES ASSUME (0 .. n) \ S # {} PROVE FALSE
  OBVIOUS
<1>1. PICK m \in (0 .. n) \ S : \A k \in (0 .. n) \ S : m <= k
  <2> DEFINE T == (0 .. n) \ S
  <2>1. T \in SUBSET Nat /\ T # {}
    OBVIOUS
  <2> HIDE DEF T
  <2>2. \E m \in T : \A k \in T : m <= k
    BY <2>1, Least
  <2> QED BY <2>2 DEF T
<1>2. m - 1 \in 0 .. n - 1 /\ m - 1 \notin (0 .. n) \ S
  BY <1>1
<1> QED BY <1>1, <1>2

(***************************************************************************)
(* Beginnings of a sequence, index by index.                               *)
(***************************************************************************)
Begins(s, t) == Len(s) <= Len(t) /\ \A i \in 1 .. Len(s) : s[i] = t[i]

(* Begins says what IsPrefix says.                                         *)
LEMMA BeginsIsPrefix ==
    ASSUME NEW S, NEW s \in Seq(S), NEW t \in Seq(S)
    PROVE  Begins(s, t) <=> IsPrefix(s, t)
<1>1. CASE Len(s) <= Len(t)
  <2>1. /\ SubSeq(s, 1, Len(s)) \in Seq(S) /\ Len(SubSeq(s, 1, Len(s))) = Len(s)
        /\ \A i \in 1 .. Len(s) : SubSeq(s, 1, Len(s))[i] = s[i]
    BY LenProperties, ElementOfSeq
  <2>2. /\ SubSeq(t, 1, Len(s)) \in Seq(S) /\ Len(SubSeq(t, 1, Len(s))) = Len(s)
        /\ \A i \in 1 .. Len(s) : SubSeq(t, 1, Len(s))[i] = t[i]
    BY <1>1, LenProperties, ElementOfSeq
  <2>3. (\A i \in 1 .. Len(s) : s[i] = t[i])
        => SubSeq(s, 1, Len(s)) = SubSeq(t, 1, Len(s))
    BY <2>1, <2>2, SeqEqual
  <2>4. SubSeq(s, 1, Len(s)) = SubSeq(t, 1, Len(s))
        => (\A i \in 1 .. Len(s) : s[i] = t[i])
    BY <2>1, <2>2
  <2> QED BY <1>1, <2>3, <2>4 DEF Begins, IsPrefix
<1>2. CASE ~(Len(s) <= Len(t))
  BY <1>2 DEF Begins, IsPrefix
<1> QED BY <1>1, <1>2

(* A beginning of a beginning is a beginning.                              *)
LEMMA BeginsTransitive ==
    ASSUME NEW a, NEW b, NEW c, Len(a) \in Nat, Len(b) \in Nat, Len(c) \in Nat,
           Begins(a, b), Begins(b, c)
    PROVE  Begins(a, c)
<1> DEFINE la == Len(a)
           lb == Len(b)
           lc == Len(c)
<1>1. la \in Nat /\ lb \in Nat /\ lc \in Nat /\ la <= lb /\ lb <= lc
      /\ (\A i \in 1 .. la : a[i] = b[i]) /\ \A i \in 1 .. lb : b[i] = c[i]
  BY DEF Begins
<1> HIDE DEF la, lb, lc
<1>2. la <= lc /\ \A i \in 1 .. la : a[i] = c[i]
  BY <1>1
<1> QED BY <1>2 DEF Begins, la, lc

(***************************************************************************)
(* Lease.apply.                                                            *)
(***************************************************************************)
Applicable == [op : {"edge", "wheel", "move", "absolute"}, v : Int]

(* int(a / b) is an integer, and what it leaves is less than b.            *)
LEMMA TruncLeaves ==
    ASSUME NEW a \in Int, NEW b \in Nat \ {0}
    PROVE  Trunc(a, b) \in Int /\ a - Trunc(a, b) * b \in 1 - b .. b - 1
<1>1. CASE a < 0
  <2>1. -a \in Nat
    BY <1>1
  <2>2. (-a) - ((-a) \div b) * b \in 0 .. b - 1 /\ (-a) \div b \in Nat
    BY <2>1
  <2> DEFINE d == (-a) \div b
  <2>3. Trunc(a, b) = -d
    BY <1>1 DEF Trunc
  <2> HIDE DEF d
  <2>4. (-a) - d * b \in 0 .. b - 1 /\ d \in Nat
    BY <2>2 DEF d
  <2>5. (-d) * b = -(d * b) /\ d * b \in Int
    BY <2>4
  <2> QED BY <2>3, <2>4, <2>5
<1>2. CASE ~(a < 0)
  BY <1>2 DEF Trunc
<1> QED BY <1>1, <1>2

(* Notches added before or after they are counted in units.                *)
LEMMA Distributes ==
    ASSUME NEW a \in Int, NEW b \in Int, NEW c \in Int
    PROVE  a * c \in Int /\ b * c \in Int /\ (a + b) * c = a * c + b * c
OBVIOUS

(* Turning the wheel keeps the type, leaves less than one notch and        *)
(* accounts for every unit.                                                *)
LEMMA TurnIsExact ==
    ASSUME NEW t \in Targets, NEW v \in Int
    PROVE  /\ Turn(t, v) \in Targets
           /\ Turn(t, v).rem \in 1 - Notch .. Notch - 1
           /\ Turn(t, v).notches * Notch + Turn(t, v).rem = t.notches * Notch + t.rem + v
           /\ Turn(t, v).pos = t.pos
           /\ Begins(t.log, Turn(t, v).log)
<1> DEFINE n == Trunc(t.rem + v, Notch)
           new == IF n = 0 THEN t.log ELSE Append(t.log, Seen("wheel", n, t.pos))
<1>1. Notch \in Nat \ {0} /\ Notch \in Int
  BY QueueAssumption
<1>2. t.rem + v \in Int /\ t.log \in Seq(Seens)
      /\ t.pos \in Int /\ t.notches \in Int /\ t.rem \in Int
  BY DEF Targets
<1>3. n \in Int /\ (t.rem + v) - n * Notch \in 1 - Notch .. Notch - 1
  BY <1>1, <1>2, TruncLeaves
<1>4. Turn(t, v) = [t EXCEPT !.notches = @ + n, !.rem = @ + v - n * Notch, !.log = new]
  BY DEF Turn
<1> HIDE DEF n
<1>5. Seen("wheel", n, t.pos) \in Seens
  BY <1>2, <1>3 DEF Seen, Seens
<1>6. new \in Seq(Seens) /\ Begins(t.log, new)
  <2>1. CASE n = 0
    BY <2>1, <1>2 DEF Begins
  <2>2. CASE n # 0
    BY <2>2, <1>2, <1>5, AppendProperties DEF Begins
  <2> QED BY <2>1, <2>2
<1> HIDE DEF new
<1>7. /\ Turn(t, v).rem = t.rem + v - n * Notch /\ Turn(t, v).notches = t.notches + n
      /\ Turn(t, v).pos = t.pos /\ Turn(t, v).log = new
  BY <1>4 DEF Targets
<1>8. n * Notch \in Int /\ t.notches * Notch \in Int
      /\ (t.notches + n) * Notch = t.notches * Notch + n * Notch
  <2> DEFINE k == t.notches
  <2>1. k \in Int /\ n \in Int /\ Notch \in Int
    BY <1>1, <1>2, <1>3, Zenon
  <2> HIDE DEF k
  <2>2. n * Notch \in Int /\ k * Notch \in Int /\ (k + n) * Notch = k * Notch + n * Notch
    BY <2>1, Distributes
  <2> QED BY <2>2, Zenon DEF k
<1>9. Turn(t, v) \in Targets
  <2> DEFINE r == t.rem + v - n * Notch
             k == t.notches + n
  <2>1. r \in Int /\ k \in Int
    <3> DEFINE w == n * Notch
    <3>1. w \in Int /\ n \in Int /\ t.rem \in Int /\ t.notches \in Int
      BY <1>2, <1>3, <1>8
    <3> HIDE DEF w
    <3>2. t.rem + v - w \in Int /\ t.notches + n \in Int
      BY <3>1
    <3> QED BY <3>2 DEF w
  <2>2. Turn(t, v) = [t EXCEPT !.notches = k, !.rem = r, !.log = new]
    BY <1>4
  <2> HIDE DEF r, k
  <2> QED BY <1>6, <2>1, <2>2 DEF Targets
<1>10. Turn(t, v).rem \in 1 - Notch .. Notch - 1
       /\ Turn(t, v).notches * Notch + Turn(t, v).rem = t.notches * Notch + t.rem + v
  <2> DEFINE w == n * Notch
             z == t.notches * Notch
  <2>1. /\ w \in Int /\ z \in Int /\ t.rem \in Int /\ (t.rem + v) - w \in 1 - Notch .. Notch - 1
        /\ Turn(t, v).rem = t.rem + v - w /\ Turn(t, v).notches * Notch = z + w
    BY <1>2, <1>3, <1>7, <1>8, Zenon
  <2> HIDE DEF w, z
  <2>2. Turn(t, v).rem \in 1 - Notch .. Notch - 1
        /\ Turn(t, v).notches * Notch + Turn(t, v).rem = z + t.rem + v
    BY <2>1
  <2> QED BY <2>2, Zenon DEF z
<1> QED BY <1>6, <1>7, <1>9, <1>10, Zenon

(* One event: the type is kept, and the log only grows at its end.         *)
LEMMA ApplyGrows ==
    ASSUME NEW t \in Targets, NEW e \in Applicable
    PROVE  Apply(t, e) \in Targets /\ Begins(t.log, Apply(t, e).log)
<1>0. e.v \in Int /\ e.op \in {"edge", "wheel", "move", "absolute"}
  BY DEF Applicable
<1>1. CASE e.op = "edge"
  <2>1. t.log \in Seq(Seens) /\ Seen("edge", e.v, t.pos) \in Seens
    BY <1>0 DEF Targets, Seens, Seen
  <2> DEFINE new == Append(t.log, Seen("edge", e.v, t.pos))
  <2>2. new \in Seq(Seens) /\ Begins(t.log, new)
    BY <2>1, AppendProperties DEF Begins
  <2>3. Apply(t, e) = [t EXCEPT !.log = new]
    BY <1>1 DEF Apply
  <2> HIDE DEF new
  <2> QED BY <2>2, <2>3 DEF Targets
<1>2. CASE e.op = "move"
  BY <1>0, <1>2 DEF Apply, Targets, Begins
<1>3. CASE e.op = "absolute"
  BY <1>0, <1>3 DEF Apply, Targets, Begins
<1>4. CASE e.op = "wheel"
  BY <1>0, <1>4, TurnIsExact DEF Apply
<1> QED BY <1>0, <1>1, <1>2, <1>3, <1>4

(* The wheel: the remainder stays below one notch, and the units of a      *)
(* wheel event are all that changes the sum.                               *)
Units(e) == IF e.op = "wheel" THEN e.v ELSE 0

LEMMA ApplyWheel ==
    ASSUME NEW t \in Targets, NEW e \in Applicable, t.rem \in 1 - Notch .. Notch - 1
    PROVE  /\ Apply(t, e).rem \in 1 - Notch .. Notch - 1
           /\ Apply(t, e).notches * Notch + Apply(t, e).rem
                = t.notches * Notch + t.rem + Units(e)
<1>0. e.v \in Int /\ e.op \in {"edge", "wheel", "move", "absolute"} /\ Notch \in Int
      /\ t.notches \in Int /\ t.rem \in Int
  BY QueueAssumption DEF Applicable, Targets
<1>1. CASE e.op = "wheel"
  BY <1>0, <1>1, TurnIsExact DEF Apply, Units
<1>2. CASE e.op # "wheel"
  <2>1. Apply(t, e).rem = t.rem /\ Apply(t, e).notches = t.notches
    BY <1>0, <1>2 DEF Apply, Targets
  <2> QED BY <1>0, <1>2, <2>1 DEF Units
<1> QED BY <1>1, <1>2

(***************************************************************************)
(* The trail of a queue: the states the target passes through when the     *)
(* events of q are applied in turn to t.                                   *)
(***************************************************************************)
Follows(f, t, q) == f[0] = t /\ \A i \in 1 .. Len(q) : f[i] = Apply(f[i - 1], q[i])

Trail(f, t, q) == f \in [0 .. Len(q) -> Targets] /\ Follows(f, t, q)

Leads(t, q, u) == \E f : Trail(f, t, q) /\ f[Len(q)] = u

(* Along a trail the log only grows.                                       *)
LEMMA TrailGrows ==
    ASSUME NEW t, NEW q \in Seq(Applicable), NEW u, Leads(t, q, u)
    PROVE  t \in Targets /\ u \in Targets /\ Begins(t.log, u.log)
<1>1. PICK f : Trail(f, t, q) /\ f[Len(q)] = u
  BY DEF Leads
<1> DEFINE n == Len(q)
           S == {i \in 0 .. n : Begins(t.log, f[i].log)}
<1>2. n \in Nat
  OBVIOUS
<1>3. /\ f \in [0 .. n -> Targets] /\ f[0] = t /\ f[n] = u
      /\ \A i \in 1 .. n : f[i] = Apply(f[i - 1], q[i])
  BY <1>1 DEF Trail, Follows
<1>q. \A i \in 1 .. n : q[i] \in Applicable
  BY ElementOfSeq
<1> HIDE DEF n
<1>4. \A i \in 0 .. n : f[i] \in Targets /\ Len(f[i].log) \in Nat
  BY <1>2, <1>3, LenProperties DEF Targets
<1>5. 0 \in S
  BY <1>2, <1>3, <1>4 DEF Begins
<1>6. ASSUME NEW i \in 0 .. n - 1, i \in S PROVE i + 1 \in S
  <2>1. i + 1 \in 0 .. n /\ i + 1 \in 1 .. n /\ (i + 1) - 1 = i /\ i \in 0 .. n
    BY <1>2
  <2>2. f[i + 1] = Apply(f[i], q[i + 1])
    BY <1>3, <2>1
  <2>3. Begins(f[i].log, f[i + 1].log)
    BY <1>q, <1>4, <2>1, <2>2, ApplyGrows
  <2>4. Begins(t.log, f[i].log)
    BY <1>6
  <2>5. Begins(t.log, f[i + 1].log)
    BY <1>3, <1>4, <2>1, <2>3, <2>4, BeginsTransitive
  <2> QED BY <2>1, <2>5
<1>7. S = 0 .. n
  <2> HIDE DEF S
  <2>1. S \in SUBSET (0 .. n)
    BY DEF S
  <2> QED BY <1>2, <1>5, <1>6, <2>1, Climb
<1>8. n \in S /\ 0 \in 0 .. n /\ n \in 0 .. n
  BY <1>2, <1>7
<1> QED BY <1>3, <1>4, <1>8

(* Two trails of one queue agree.                                          *)
LEMMA TrailUnique ==
    ASSUME NEW t, NEW q \in Seq(Applicable), NEW f, NEW g, Follows(f, t, q), Follows(g, t, q)
    PROVE  f[Len(q)] = g[Len(q)]
<1> DEFINE n == Len(q)
           S == {i \in 0 .. n : f[i] = g[i]}
<1>1. n \in Nat
  OBVIOUS
<1>2. /\ f[0] = t /\ \A i \in 1 .. n : f[i] = Apply(f[i - 1], q[i])
      /\ g[0] = t /\ \A i \in 1 .. n : g[i] = Apply(g[i - 1], q[i])
  BY DEF Follows
<1> HIDE DEF n
<1>3. 0 \in S
  BY <1>1, <1>2
<1>4. ASSUME NEW i \in 0 .. n - 1, i \in S PROVE i + 1 \in S
  <2>1. i + 1 \in 0 .. n /\ i + 1 \in 1 .. n /\ (i + 1) - 1 = i
    BY <1>1
  <2>2. f[i + 1] = Apply(f[i], q[i + 1]) /\ g[i + 1] = Apply(g[i], q[i + 1])
    BY <1>2, <2>1
  <2>3. f[i] = g[i]
    BY <1>4
  <2> QED BY <2>1, <2>2, <2>3
<1>5. S = 0 .. n
  <2> HIDE DEF S
  <2>1. S \in SUBSET (0 .. n)
    BY DEF S
  <2> QED BY <1>1, <1>3, <1>4, <2>1, Climb
<1>6. n \in S
  BY <1>1, <1>5
<1> QED BY <1>6 DEF n

(* Outcome is the end of the trail.                                        *)
Runs(f, t, q) == f = [i \in 0 .. Len(q) |-> IF i = 0 THEN t ELSE Apply(f[i - 1], q[i])]

LEMMA OutcomeIsEnd ==
    ASSUME NEW t, NEW q \in Seq(Applicable), NEW u, Leads(t, q, u)
    PROVE  Outcome(t, q) = u
<1>1. PICK f : Trail(f, t, q) /\ f[Len(q)] = u
  BY DEF Leads
<1>2. Runs(f, t, q)
  <2> DEFINE n == Len(q)
             r == [i \in 0 .. n |-> IF i = 0 THEN t ELSE Apply(f[i - 1], q[i])]
  <2>0. n \in Nat
    OBVIOUS
  <2>1. f \in [0 .. n -> Targets] /\ f[0] = t
        /\ \A i \in 1 .. n : f[i] = Apply(f[i - 1], q[i])
    BY <1>1 DEF Trail, Follows
  <2>2. \A i \in 0 .. n : f[i] = r[i]
    <3> HIDE DEF n
    <3> QED BY <2>0, <2>1
  <2>3. f = [i \in 0 .. n |-> f[i]] /\ r = [i \in 0 .. n |-> r[i]]
    BY <2>1
  <2>4. f = r
    <3> HIDE DEF n, r
    <3> QED BY <2>2, <2>3
  <2> QED BY <2>4 DEF Runs
<1> DEFINE g == CHOOSE h : Runs(h, t, q)
<1>3. Runs(g, t, q)
  BY <1>2, Zenon
<1>4. Outcome(t, q) = g[Len(q)]
  BY DEF Outcome, Runs
<1> HIDE DEF g
<1>5. /\ g[0] = t /\ \A i \in 1 .. Len(q) : g[i] = Apply(g[i - 1], q[i])
  <2> DEFINE n == Len(q)
  <2>0. n \in Nat
    OBVIOUS
  <2>1. g = [i \in 0 .. n |-> IF i = 0 THEN t ELSE Apply(g[i - 1], q[i])]
    BY <1>3 DEF Runs
  <2> HIDE DEF n
  <2>2. g[0] = t /\ \A i \in 1 .. n : g[i] = Apply(g[i - 1], q[i])
    BY <2>0, <2>1
  <2> QED BY <2>2 DEF n
<1>6. g[Len(q)] = f[Len(q)]
  <2>1. Follows(f, t, q) /\ Follows(g, t, q)
    BY <1>1, <1>5 DEF Trail, Follows
  <2> QED BY <2>1, TrailUnique
<1> QED BY <1>1, <1>4, <1>6

(* An empty queue leads nowhere else.                                      *)
LEMMA LeadsNowhere ==
    ASSUME NEW t \in Targets, NEW u
    PROVE  Leads(t, <<>>, u) <=> t = u
<1>1. Len(<<>>) = 0
  OBVIOUS
<1>2. ASSUME t = u PROVE Leads(t, <<>>, u)
  <2> DEFINE f == [i \in 0 .. 0 |-> t]
  <2>1. f \in [0 .. Len(<<>>) -> Targets] /\ f[0] = t /\ f[Len(<<>>)] = u
    BY <1>1, <1>2
  <2>2. \A i \in 1 .. Len(<<>>) : FALSE
    BY <1>1
  <2> QED BY <2>1, <2>2 DEF Leads, Trail, Follows
<1>3. ASSUME Leads(t, <<>>, u) PROVE t = u
  BY <1>1, <1>3 DEF Leads, Trail, Follows
<1> QED BY <1>2, <1>3

(* An event more: the trail is one step longer.                            *)
LEMMA LeadsAppend ==
    ASSUME NEW t, NEW q \in Seq(Applicable), NEW u, Leads(t, q, u), NEW e \in Applicable
    PROVE  Leads(t, Append(q, e), Apply(u, e))
<1>1. PICK f : Trail(f, t, q) /\ f[Len(q)] = u
  BY DEF Leads
<1> DEFINE n == Len(q)
           r == Append(q, e)
           g == [i \in 0 .. n + 1 |-> IF i <= n THEN f[i] ELSE Apply(u, e)]
<1>2. n \in Nat /\ Len(r) = n + 1 /\ r[n + 1] = e /\ \A i \in 1 .. n : r[i] = q[i]
  BY AppendProperties
<1>3. f \in [0 .. n -> Targets] /\ f[0] = t /\ f[n] = u
      /\ \A i \in 1 .. n : f[i] = Apply(f[i - 1], q[i])
  BY <1>1 DEF Trail, Follows
<1> HIDE DEF n, r
<1>4. u \in Targets /\ Apply(u, e) \in Targets
  BY <1>2, <1>3, ApplyGrows
<1>5. g \in [0 .. n + 1 -> Targets]
  BY <1>2, <1>3, <1>4
<1>6. g[0] = t /\ g[n + 1] = Apply(u, e)
  BY <1>2, <1>3
<1>7. ASSUME NEW i \in 1 .. n + 1 PROVE g[i] = Apply(g[i - 1], r[i])
  <2>1. CASE i <= n
    <3>1. i \in 1 .. n /\ i \in 0 .. n + 1 /\ i - 1 \in 0 .. n + 1 /\ i - 1 <= n
      BY <1>2, <2>1
    <3>2. g[i] = f[i] /\ g[i - 1] = f[i - 1]
      BY <3>1
    <3> QED BY <1>2, <1>3, <3>1, <3>2
  <2>2. CASE ~(i <= n)
    <3>1. i = n + 1 /\ n \in 0 .. n + 1 /\ n <= n /\ i - 1 = n
      BY <1>2, <2>2
    <3>2. g[n] = u
      BY <1>3, <3>1
    <3> QED BY <1>2, <1>6, <3>1, <3>2
  <2> QED BY <2>1, <2>2
<1> HIDE DEF g
<1>8. Trail(g, t, r) /\ g[Len(r)] = Apply(u, e)
  BY <1>2, <1>5, <1>6, <1>7 DEF Trail, Follows
<1> QED BY <1>8 DEF Leads, r

(* The first event applied: the trail is one step shorter.                 *)
LEMMA LeadsTail ==
    ASSUME NEW t, NEW q \in Seq(Applicable), NEW u, Leads(t, q, u), q # <<>>
    PROVE  Leads(Apply(t, Head(q)), Tail(q), u)
<1>1. PICK f : Trail(f, t, q) /\ f[Len(q)] = u
  BY DEF Leads
<1> DEFINE n == Len(q)
           r == Tail(q)
           g == [i \in 0 .. n - 1 |-> f[i + 1]]
<1>2. n \in Nat /\ n # 0 /\ Len(r) = n - 1 /\ Head(q) = q[1]
      /\ \A i \in 1 .. n - 1 : r[i] = q[i + 1]
  BY HeadTailProperties, EmptySeq
<1>3. f \in [0 .. n -> Targets] /\ f[0] = t /\ f[n] = u
      /\ \A i \in 1 .. n : f[i] = Apply(f[i - 1], q[i])
  BY <1>1 DEF Trail, Follows
<1> HIDE DEF n, r
<1>4. g \in [0 .. n - 1 -> Targets]
  BY <1>2, <1>3
<1>5. g[0] = f[1] /\ g[n - 1] = u /\ f[1] = Apply(t, q[1])
  BY <1>2, <1>3
<1>6. ASSUME NEW i \in 1 .. n - 1 PROVE g[i] = Apply(g[i - 1], r[i])
  <2>1. i \in 0 .. n - 1 /\ i - 1 \in 0 .. n - 1 /\ i + 1 \in 1 .. n
        /\ (i + 1) - 1 = i /\ (i - 1) + 1 = i
    BY <1>2
  <2>2. g[i] = f[i + 1] /\ g[i - 1] = f[i]
    BY <2>1
  <2>3. f[i + 1] = Apply(f[i], q[i + 1])
    BY <1>3, <2>1
  <2> QED BY <1>2, <2>2, <2>3
<1> HIDE DEF g
<1>7. Trail(g, Apply(t, q[1]), r) /\ g[Len(r)] = u
  BY <1>2, <1>4, <1>5, <1>6 DEF Trail, Follows
<1> QED BY <1>2, <1>7 DEF Leads, r

(* Events k and k + 1 replaced by one that does what they do.              *)
LEMMA LeadsMerge ==
    ASSUME NEW t, NEW q \in Seq(Applicable), NEW u, Leads(t, q, u),
           NEW r \in Seq(Applicable), NEW k \in 1 .. Len(q) - 1,
           Len(r) = Len(q) - 1,
           \A i \in 1 .. k - 1 : r[i] = q[i],
           \A i \in k + 1 .. Len(q) - 1 : r[i] = q[i + 1],
           \A s \in Targets : Apply(Apply(s, q[k]), q[k + 1]) = Apply(s, r[k])
    PROVE  Leads(t, r, u)
<1>1. PICK f : Trail(f, t, q) /\ f[Len(q)] = u
  BY DEF Leads
<1> DEFINE n == Len(q)
           g == [i \in 0 .. n - 1 |-> IF i < k THEN f[i] ELSE f[i + 1]]
<1>2. n \in Nat /\ k \in 1 .. n - 1 /\ Len(r) = n - 1
  OBVIOUS
<1>3. f \in [0 .. n -> Targets] /\ f[0] = t /\ f[n] = u
      /\ \A i \in 1 .. n : f[i] = Apply(f[i - 1], q[i])
  BY <1>1 DEF Trail, Follows
<1>r. /\ \A i \in 1 .. k - 1 : r[i] = q[i]
      /\ \A i \in k + 1 .. n - 1 : r[i] = q[i + 1]
  OBVIOUS
<1> HIDE DEF n
<1>4. g \in [0 .. n - 1 -> Targets]
  BY <1>2, <1>3
<1>5. g[0] = t /\ g[n - 1] = u
  BY <1>2, <1>3
<1>6. ASSUME NEW i \in 1 .. n - 1 PROVE g[i] = Apply(g[i - 1], r[i])
  <2>0. i \in 0 .. n - 1 /\ i - 1 \in 0 .. n - 1 /\ i + 1 \in 1 .. n /\ i \in 1 .. n
        /\ (i + 1) - 1 = i /\ (i - 1) + 1 = i
    BY <1>2
  <2>1. CASE i < k
    <3>1. g[i] = f[i] /\ g[i - 1] = f[i - 1] /\ i \in 1 .. k - 1
      BY <1>2, <2>0, <2>1
    <3> QED BY <1>3, <1>r, <2>0, <3>1
  <2>2. CASE i = k
    <3>0. k \in 0 .. n - 1 /\ k - 1 \in 0 .. n - 1 /\ ~(k < k) /\ k - 1 < k
      BY <1>2
    <3>1. g[k] = f[k + 1] /\ g[k - 1] = f[k - 1]
      BY <3>0
    <3>2. f[k + 1] = Apply(f[k], q[k + 1]) /\ f[k] = Apply(f[k - 1], q[k])
      BY <1>3, <2>0, <2>2
    <3>3. f[k - 1] \in Targets
      BY <1>2, <1>3
    <3> QED BY <2>2, <3>1, <3>2, <3>3
  <2>3. CASE i > k
    <3>1. g[i] = f[i + 1] /\ g[i - 1] = f[i] /\ i \in k + 1 .. n - 1
      BY <1>2, <2>0, <2>3
    <3>2. f[i + 1] = Apply(f[i], q[i + 1])
      BY <1>3, <2>0
    <3> QED BY <1>r, <3>1, <3>2
  <2> QED BY <1>2, <2>1, <2>2, <2>3
<1> HIDE DEF g
<1>7. Trail(g, t, r) /\ g[Len(r)] = u
  BY <1>2, <1>4, <1>5, <1>6 DEF Trail, Follows
<1> QED BY <1>7 DEF Leads

(***************************************************************************)
(* The queues.                                                             *)
(***************************************************************************)

(* What a queue of a lease whose motion is m may hold.                     *)
FlyingIn(m) == [op : {"edge"}, v : Edges] \cup [op : {"wheel", m}, v : -MaxDelta .. MaxDelta]

(* Whatever is in a queue can be applied.                                  *)
LEMMA FlyingApplies ==
    ASSUME NEW m \in {"move", "absolute"}
    PROVE  /\ FlyingIn(m) \subseteq Applicable
           /\ FlyingIn(m) \subseteq [op : {"edge", "wheel", m}, v : Int]
           /\ Seq(FlyingIn(m)) \subseteq Seq(Applicable)
           /\ Seq(FlyingIn(m)) \subseteq Seq([op : {"edge", "wheel", m}, v : Int])
<1>1. Edges \subseteq Int /\ -MaxDelta .. MaxDelta \subseteq Int
  BY QueueAssumption
<1>2. FlyingIn(m) \subseteq Applicable
  BY <1>1 DEF FlyingIn, Applicable
<1>3. FlyingIn(m) \subseteq [op : {"edge", "wheel", m}, v : Int]
  BY <1>1 DEF FlyingIn
<1>4. Seq(FlyingIn(m)) \subseteq Seq(Applicable)
  BY <1>2, SeqMonotonic
<1>5. Seq(FlyingIn(m)) \subseteq Seq([op : {"edge", "wheel", m}, v : Int])
  BY <1>3, SeqMonotonic
<1> QED BY <1>2, <1>3, <1>4, <1>5

(* Of two positions the later one counts.                                  *)
LEMMA Repoint ==
    ASSUME NEW s \in Targets, NEW a \in Int, NEW b \in Int
    PROVE  [[s EXCEPT !.pos = a] EXCEPT !.pos = b] = [s EXCEPT !.pos = b]
BY DEF Targets

(* Two moves, or two positions, one after the other do what the merged     *)
(* event does.                                                             *)
LEMMA MergeApplies ==
    ASSUME NEW s \in Targets, NEW d \in Applicable, NEW e \in Applicable, d.op = e.op,
           e.op \in {"move", "absolute"}
    PROVE  Apply(Apply(s, d), e)
             = Apply(s, [d EXCEPT !.v = IF e.op = "move" THEN d.v + e.v ELSE e.v])
<1>0. d.v \in Int /\ e.v \in Int /\ s.pos \in Int
  BY DEF Applicable, Targets
<1>1. CASE e.op = "move"
  <2> DEFINE c == [d EXCEPT !.v = d.v + e.v]
  <2>1. c.op = "move" /\ c.v = d.v + e.v
    BY <1>1 DEF Applicable
  <2>2. Apply(s, d) = [s EXCEPT !.pos = s.pos + d.v] /\ Apply(s, c) = [s EXCEPT !.pos = s.pos + c.v]
    BY <1>1, <2>1 DEF Apply
  <2>3. \A z : Apply(z, e) = [z EXCEPT !.pos = z.pos + e.v]
    BY <1>1 DEF Apply
  <2>4. Apply(Apply(s, d), e) = Apply(s, c)
    <3>1. Apply(s, d).pos = s.pos + d.v /\ (s.pos + d.v) + e.v = s.pos + c.v
          /\ s.pos + d.v \in Int /\ s.pos + c.v \in Int
      BY <1>0, <2>1, <2>2 DEF Targets
    <3> DEFINE a == s.pos + d.v
               b == s.pos + c.v
    <3>2. Apply(s, d) = [s EXCEPT !.pos = a] /\ a \in Int /\ b \in Int
      BY <2>2, <3>1
    <3>3. Apply(Apply(s, d), e) = [Apply(s, d) EXCEPT !.pos = b]
      BY <2>3, <3>1
    <3>4. Apply(s, c) = [s EXCEPT !.pos = b]
      BY <2>2
    <3> HIDE DEF a, b, c
    <3>5. [[s EXCEPT !.pos = a] EXCEPT !.pos = b] = [s EXCEPT !.pos = b]
      BY <3>2, Repoint
    <3> QED BY <3>2, <3>3, <3>4, <3>5, Zenon
  <2> QED BY <1>1, <2>4
<1>2. CASE e.op = "absolute"
  <2> DEFINE c == [d EXCEPT !.v = e.v]
  <2>1. c.op = "absolute" /\ c.v = e.v
    BY <1>2 DEF Applicable
  <2>2. Apply(s, d) = [s EXCEPT !.pos = d.v] /\ Apply(s, c) = [s EXCEPT !.pos = c.v]
    BY <1>2, <2>1 DEF Apply
  <2>3. \A z : Apply(z, e) = [z EXCEPT !.pos = e.v]
    BY <1>2 DEF Apply
  <2>4. Apply(Apply(s, d), e) = Apply(s, c)
    <3>1. [[s EXCEPT !.pos = d.v] EXCEPT !.pos = e.v] = [s EXCEPT !.pos = e.v]
      BY <1>0, Repoint
    <3> HIDE DEF c
    <3> QED BY <2>1, <2>2, <2>3, <3>1, Zenon
  <2> QED BY <1>2, <2>4
<1> QED BY <1>1, <1>2

(* put() on a queue that merges: only the last event changes, it still     *)
(* fits, and it does what the two did.                                     *)
LEMMA MergeFits ==
    ASSUME NEW m \in {"move", "absolute"}, NEW q \in Seq(FlyingIn(m)), NEW e \in FlyingIn(m),
           Merges(q, e)
    PROVE  /\ Len(q) \in Nat \ {0} /\ Merged(q, e) \in Seq(FlyingIn(m))
           /\ Len(Merged(q, e)) = Len(q)
           /\ \A i \in 1 .. Len(q) - 1 : Merged(q, e)[i] = q[i]
           /\ \A s \in Targets : Apply(Apply(s, q[Len(q)]), e) = Apply(s, Merged(q, e)[Len(q)])
<1> DEFINE n == Len(q)
           d == q[n]
           v == IF e.op = "move" THEN d.v + e.v ELSE e.v
           c == [d EXCEPT !.v = v]
<1>1. n \in Nat \ {0} /\ n \in 1 .. n
  BY EmptySeq DEF Merges
<1>2. d \in FlyingIn(m) /\ d.op = e.op /\ e.op \in {"move", "absolute"}
      /\ (e.op = "move" => d.v + e.v \in -MaxDelta .. MaxDelta)
  BY <1>1, ElementOfSeq DEF Merges, Last
<1>3. d \in [op : {"wheel", m}, v : -MaxDelta .. MaxDelta]
      /\ e \in [op : {"wheel", m}, v : -MaxDelta .. MaxDelta]
  BY <1>2 DEF FlyingIn
<1>4. v \in -MaxDelta .. MaxDelta
  BY <1>2, <1>3
<1>5. c \in FlyingIn(m)
  <2> HIDE DEF v
  <2> QED BY <1>3, <1>4 DEF FlyingIn
<1>6. Merged(q, e) = [q EXCEPT ![n] = c]
  BY DEF Merged, Last
<1>7. ASSUME NEW s \in Targets PROVE Apply(Apply(s, d), e) = Apply(s, c)
  <2>1. d \in Applicable /\ e \in Applicable
    BY <1>2, FlyingApplies
  <2> HIDE DEF d
  <2> QED BY <1>2, <2>1, MergeApplies
<1> HIDE DEF c, d
<1>8. Merged(q, e) \in Seq(FlyingIn(m)) /\ Len(Merged(q, e)) = n
      /\ \A i \in 1 .. n : Merged(q, e)[i] = IF i = n THEN c ELSE q[i]
  BY <1>1, <1>5, <1>6, ExceptSeq
<1>9. Merged(q, e)[n] = c /\ \A i \in 1 .. n - 1 : Merged(q, e)[i] = q[i]
  <2> HIDE DEF n
  <2> QED BY <1>1, <1>8
<1> QED BY <1>1, <1>7, <1>8, <1>9 DEF d

(* A sequence that is not empty is its head and its tail.                  *)
LEMMA HeadThenTail ==
    ASSUME NEW S, NEW s \in Seq(S), s # <<>>
    PROVE  /\ s = <<Head(s)>> \o Tail(s) /\ Head(s) \in S /\ Tail(s) \in Seq(S)
           /\ <<Head(s)>> \in Seq(S) /\ Len(s) = Len(Tail(s)) + 1
<1> DEFINE h == Head(s)
           r == Tail(s)
           n == Len(s)
<1>1. h \in S /\ r \in Seq(S) /\ Len(r) = n - 1 /\ h = s[1] /\ n \in Nat
      /\ \A i \in 1 .. n - 1 : r[i] = s[i + 1]
  BY HeadTailProperties
<1>2. <<h>> \in Seq(S) /\ Len(<<h>>) = 1 /\ <<h>>[1] = h
  BY <1>1
<1> HIDE DEF h, r
<1>3. /\ <<h>> \o r \in Seq(S) /\ Len(<<h>> \o r) = n
      /\ \A i \in 1 .. n : (<<h>> \o r)[i] = IF i <= 1 THEN <<h>>[i] ELSE r[i - 1]
  <2> HIDE DEF n
  <2> QED BY <1>1, <1>2, ConcatProperties
<1>4. \A i \in 1 .. n : s[i] = (<<h>> \o r)[i]
  <2>1. ASSUME NEW i \in 1 .. n PROVE s[i] = (<<h>> \o r)[i]
    <3> HIDE DEF n
    <3>1. CASE i <= 1
      <4>1. i = 1
        BY <1>1, <3>1
      <4> QED BY <1>1, <1>2, <1>3, <4>1
    <3>2. CASE ~(i <= 1)
      <4>1. i - 1 \in 1 .. n - 1 /\ (i - 1) + 1 = i
        BY <1>1, <3>2
      <4> QED BY <1>1, <1>3, <3>2, <4>1
    <3> QED BY <3>1, <3>2
  <2> QED BY <2>1
<1>5. s = <<h>> \o r
  BY <1>3, <1>4, SeqEqual
<1>6. Len(s) = Len(r) + 1
  <2> HIDE DEF n
  <2>1. n = Len(r) + 1
    BY <1>1
  <2> QED BY <2>1 DEF n
<1> QED BY <1>1, <1>2, <1>5, <1>6 DEF h, r

(* put() in the middle: whatever stands before and behind it, merging e    *)
(* into q does not change where the events lead.                           *)
LEMMA PutLeads ==
    ASSUME NEW m \in {"move", "absolute"}, NEW t, NEW u,
           NEW p \in Seq(FlyingIn(m)), NEW q \in Seq(FlyingIn(m)),
           NEW e \in FlyingIn(m), NEW c \in Seq(FlyingIn(m)),
           Leads(t, (p \o q) \o (<<e>> \o c), u)
    PROVE  Leads(t, (p \o Put(q, e)) \o c, u)
<1> DEFINE F == FlyingIn(m)
           x == (p \o q) \o (<<e>> \o c)
           y == (p \o Put(q, e)) \o c
<1>0. <<e>> \in Seq(F) /\ Len(<<e>>) = 1 /\ <<e>>[1] = e
  OBVIOUS
<1>1. CASE ~Merges(q, e)
  <2>1. Put(q, e) = q \o <<e>>
    BY <1>1, AppendIsConcat DEF Put
  <2>2. q \o <<e>> \in Seq(F) /\ p \o q \in Seq(F)
    BY <1>0, ConcatProperties
  <2>3. p \o (q \o <<e>>) = (p \o q) \o <<e>>
    BY <1>0, ConcatAssociative
  <2>4. ((p \o q) \o <<e>>) \o c = (p \o q) \o (<<e>> \o c)
    BY <1>0, <2>2, ConcatAssociative
  <2>5. y = x
    BY <2>1, <2>3, <2>4, Zenon
  <2> QED BY <2>5
<1>2. CASE Merges(q, e)
  <2> DEFINE g == Merged(q, e)
             a == Len(p)
             b == Len(q)
             d == Len(c)
             k == a + b
  <2>1. /\ b \in Nat \ {0} /\ g \in Seq(F) /\ Len(g) = b
        /\ \A i \in 1 .. b - 1 : g[i] = q[i]
        /\ \A s \in Targets : Apply(Apply(s, q[b]), e) = Apply(s, g[b])
    BY <1>2, MergeFits
  <2>2. a \in Nat /\ d \in Nat /\ Len(p) = a /\ Len(q) = b /\ Len(c) = d
    OBVIOUS
  <2>3. y = (p \o g) \o c
    BY <1>2 DEF Put
  <2> HIDE DEF g, a, b, d
  <2>4. /\ p \o q \in Seq(F) /\ Len(p \o q) = a + b
        /\ \A i \in 1 .. a + b : (p \o q)[i] = IF i <= a THEN p[i] ELSE q[i - a]
    BY <2>2, ConcatProperties
  <2>5. /\ p \o g \in Seq(F) /\ Len(p \o g) = a + b
        /\ \A i \in 1 .. a + b : (p \o g)[i] = IF i <= a THEN p[i] ELSE g[i - a]
    <3>p. p \in Seq(F)
      OBVIOUS
    <3>1. g \in Seq(F) /\ Len(g) = b
      BY <2>1
    <3> HIDE DEF F
    <3>2. /\ p \o g \in Seq(F) /\ Len(p \o g) = Len(p) + Len(g)
          /\ \A i \in 1 .. Len(p) + Len(g) :
                (p \o g)[i] = IF i <= Len(p) THEN p[i] ELSE g[i - Len(p)]
      BY <3>1, <3>p, ConcatProperties, Zenon
    <3>3. Len(p) = a /\ Len(g) = b
      BY <2>2, <3>1
    <3> QED BY <3>2, <3>3, Zenon
  <2>6. /\ <<e>> \o c \in Seq(F) /\ Len(<<e>> \o c) = 1 + d
        /\ \A i \in 1 .. 1 + d : (<<e>> \o c)[i] = IF i <= 1 THEN <<e>>[i] ELSE c[i - 1]
    BY <1>0, <2>2, ConcatProperties
  <2>7. /\ x \in Seq(F) /\ Len(x) = k + (1 + d)
        /\ \A i \in 1 .. k + (1 + d) :
              x[i] = IF i <= k THEN (p \o q)[i] ELSE (<<e>> \o c)[i - k]
    BY <2>4, <2>6, ConcatProperties
  <2>8. /\ y \in Seq(F) /\ Len(y) = k + d
        /\ \A i \in 1 .. k + d : y[i] = IF i <= k THEN (p \o g)[i] ELSE c[i - k]
    <3>c. c \in Seq(F)
      OBVIOUS
    <3> DEFINE w == p \o g
    <3>1. w \in Seq(F) /\ Len(w) = k
      BY <2>5
    <3>2. y = w \o c
      BY <2>3
    <3> HIDE DEF F, w, k, y
    <3>3. /\ w \o c \in Seq(F) /\ Len(w \o c) = k + d
          /\ \A i \in 1 .. k + d : (w \o c)[i] = IF i <= k THEN w[i] ELSE c[i - k]
      BY <2>2, <3>1, <3>c, ConcatProperties
    <3> QED BY <3>2, <3>3 DEF w
  <2> HIDE DEF x, y
  <2>9. ASSUME NEW i \in 1 .. k - 1 PROVE y[i] = x[i]
    <3>1. i \in 1 .. k + d /\ i \in 1 .. k + (1 + d) /\ i <= k /\ i \in 1 .. a + b
      BY <2>1, <2>2
    <3>2. x[i] = (p \o q)[i] /\ y[i] = (p \o g)[i]
      BY <2>7, <2>8, <3>1
    <3>3. CASE i <= a
      BY <2>4, <2>5, <3>1, <3>2, <3>3
    <3>4. CASE ~(i <= a)
      <4>1. i - a \in 1 .. b - 1
        BY <2>1, <2>2, <3>1, <3>4
      <4> QED BY <2>1, <2>4, <2>5, <3>1, <3>2, <3>4, <4>1
    <3> QED BY <3>3, <3>4
  <2>10. ASSUME NEW i \in k + 1 .. k + d PROVE y[i] = x[i + 1]
    <3>1. i \in 1 .. k + d /\ i + 1 \in 1 .. k + (1 + d) /\ ~(i <= k) /\ ~(i + 1 <= k)
          /\ (i + 1) - k \in 1 .. 1 + d /\ ~((i + 1) - k <= 1) /\ ((i + 1) - k) - 1 = i - k
      BY <2>1, <2>2
    <3>2. x[i + 1] = (<<e>> \o c)[(i + 1) - k] /\ y[i] = c[i - k]
      BY <2>7, <2>8, <3>1
    <3> QED BY <2>6, <3>1, <3>2
  <2>11. x[k] = q[b] /\ x[k + 1] = e /\ y[k] = g[b]
    <3>1. k \in 1 .. k + d /\ k \in 1 .. k + (1 + d) /\ k + 1 \in 1 .. k + (1 + d) /\ k <= k
          /\ ~(k <= a) /\ k - a = b /\ ~(k + 1 <= k) /\ (k + 1) - k = 1 /\ k \in 1 .. a + b
          /\ 1 \in 1 .. 1 + d /\ 1 <= 1
      BY <2>1, <2>2
    <3>2. x[k] = (p \o q)[k] /\ y[k] = (p \o g)[k] /\ x[k + 1] = (<<e>> \o c)[1]
      BY <2>7, <2>8, <3>1
    <3>3. (p \o q)[k] = q[b] /\ (p \o g)[k] = g[b]
      BY <2>4, <2>5, <3>1
    <3>4. (<<e>> \o c)[1] = e
      BY <1>0, <2>6, <3>1
    <3> QED BY <3>2, <3>3, <3>4
  <2>12. x \in Seq(Applicable) /\ y \in Seq(Applicable)
    BY <2>7, <2>8, FlyingApplies
  <2>13. \A s \in Targets : Apply(Apply(s, x[k]), x[k + 1]) = Apply(s, y[k])
    BY <2>1, <2>11
  <2>14. k \in 1 .. Len(x) - 1 /\ Len(y) = Len(x) - 1 /\ Len(x) - 1 = k + d
    BY <2>1, <2>2, <2>7, <2>8
  <2>15. Leads(t, x, u)
    BY DEF x
  <2> HIDE DEF k
  <2>16. Leads(t, y, u)
    <3>1. \A i \in k + 1 .. Len(x) - 1 : y[i] = x[i + 1]
      BY <2>10, <2>14
    <3>2. \A i \in 1 .. k - 1 : y[i] = x[i]
      BY <2>9
    <3> QED BY <2>12, <2>13, <2>14, <2>15, <3>1, <3>2, LeadsMerge
  <2> QED BY <2>16 DEF y
<1> QED BY <1>1, <1>2

(* put() keeps a queue well formed and within its capacity.                *)
LEMMA PutFits ==
    ASSUME NEW m \in {"move", "absolute"}, NEW q \in Seq(FlyingIn(m)), NEW e \in FlyingIn(m),
           NEW cap \in Nat, Len(q) <= cap, Fits(q, e, cap)
    PROVE  Put(q, e) \in Seq(FlyingIn(m)) /\ Len(Put(q, e)) <= cap
<1>1. CASE Merges(q, e)
  BY <1>1, MergeFits DEF Put
<1>2. CASE ~Merges(q, e)
  <2>1. Append(q, e) \in Seq(FlyingIn(m)) /\ Len(Append(q, e)) = Len(q) + 1 /\ Len(q) \in Nat
    BY AppendProperties
  <2>2. Len(q) < cap
    BY <1>2 DEF Fits
  <2>3. Put(q, e) = Append(q, e)
    BY <1>2 DEF Put
  <2> QED BY <2>1, <2>2, <2>3
<1> QED BY <1>1, <1>2

(***************************************************************************)
(* The inductive invariant.                                                *)
(***************************************************************************)

(* Both queues and the socket hold only what the bridge would accept.      *)
FitInv ==
    /\ deque \in Seq(FlyingIn(Motion)) /\ socket \in Seq(FlyingIn(Motion))
    /\ items \in Seq(FlyingIn(Motion))

(* While the lease is served, the events in flight lead from what was done *)
(* to what was meant.                                                      *)
TrailInv == reader = "serve" => Leads(target, InFlight, intended)

(* Both sides of the wheel hold less than one notch back, and what was     *)
(* meant accounts for every unit turned.                                   *)
WheelInv ==
    /\ target.rem \in 1 - Notch .. Notch - 1 /\ intended.rem \in 1 - Notch .. Notch - 1
    /\ intended.notches * Notch + intended.rem = scrolled

IInv == TypeOK /\ FitInv /\ TrailInv /\ AppliedPrefix /\ WheelInv

LEMMA MotionIsOne == Motion \in {"move", "absolute"}
BY DEF Motion

(* The empty lease.                                                        *)
LEMMA Start == Init => IInv
<1> SUFFICES ASSUME Init PROVE IInv
  OBVIOUS
<1>0. Untouched.log = <<>> /\ Untouched.rem = 0 /\ Untouched.notches = 0 /\ Untouched.pos = 0
  BY DEF Untouched
<1>1. Untouched \in Targets
  <2>1. <<>> \in Seq(Seens)
    BY EmptySeq
  <2> QED BY <2>1 DEF Untouched, Targets
<1>2. \A S : <<>> \in Seq(S) /\ Len(<<>>) = 0
  BY EmptySeq
<1>3. TypeOK
  BY <1>1, <1>2, QueueAssumption DEF Init, TypeOK
<1>4. FitInv
  BY <1>2 DEF Init, FitInv
<1>5. TrailInv
  <2>1. InFlight = <<>>
    <3>1. <<>> \o <<>> = <<>>
      BY <1>2, ConcatEmptySeq
    <3> QED BY <3>1 DEF Init, InFlight
  <2> QED BY <1>1, <2>1, LeadsNowhere DEF Init, TrailInv
<1>6. AppliedPrefix
  BY <1>0 DEF Init, AppliedPrefix, IsPrefix
<1>7. WheelInv
  BY <1>0, QueueAssumption DEF Init, WheelInv
<1> QED BY <1>3, <1>4, <1>5, <1>6, <1>7 DEF IInv

(* An event that can be submitted may fly.                                 *)
LEMMA SubmittedFlies ==
    ASSUME NEW e \in Events, e.op \in {"edge", "wheel", Motion}
    PROVE  e \in FlyingIn(Motion)
BY MotionIsOne, QueueAssumption DEF Events, FlyingIn

(* What is in flight may fly, and can be applied.                          *)
LEMMA InFlightFlies ==
    ASSUME FitInv
    PROVE  InFlight \in Seq(FlyingIn(Motion)) /\ InFlight \in Seq(Applicable)
<1>1. items \o socket \in Seq(FlyingIn(Motion))
  BY ConcatProperties DEF FitInv
<1>2. InFlight \in Seq(FlyingIn(Motion))
  BY <1>1, ConcatProperties DEF FitInv, InFlight
<1> QED BY <1>2, MotionIsOne, FlyingApplies

(* The prefix is a consequence of the trail.                               *)
LEMMA TrailGivesPrefix ==
    ASSUME NEW t, NEW q \in Seq(Applicable), NEW u, Leads(t, q, u)
    PROVE  IsPrefix(t.log, u.log)
<1>1. t \in Targets /\ u \in Targets /\ Begins(t.log, u.log)
  BY TrailGrows
<1>2. t.log \in Seq(Seens) /\ u.log \in Seq(Seens)
  BY <1>1 DEF Targets
<1> QED BY <1>1, <1>2, BeginsIsPrefix

(* submit(): one event more is meant and one more is in flight.            *)
LEMMA SubmitKeeps ==
    ASSUME IInv, NEW e \in Events, Submit(e)
    PROVE  IInv'
<1> DEFINE m == Motion
           F == FlyingIn(m)
<1>0. m \in {"move", "absolute"}
  BY MotionIsOne
<1>1. e \in F /\ e \in Applicable
  <2>1. e \in F
    BY SubmittedFlies DEF Submit
  <2> QED BY <1>0, <2>1, FlyingApplies
<1>2. deque \in Seq(F) /\ socket \in Seq(F) /\ items \in Seq(F)
  BY DEF IInv, FitInv
<1>3. /\ deque' = Put(deque, e) /\ intended' = Apply(intended, e) /\ accepted' = accepted + 1
      /\ scrolled' = scrolled + Units(e) /\ absolute' = absolute /\ healthy' = healthy
      /\ sender' = sender /\ socket' = socket /\ items' = items /\ reader' = reader
      /\ target' = target /\ accepted < MaxEvents /\ Fits(deque, e, ClientCap)
  BY DEF Submit, bridge, Units
<1>4. Motion' = m
  BY <1>3 DEF Motion
<1>5. Put(deque, e) \in Seq(F) /\ Len(Put(deque, e)) <= ClientCap
  <2>1. ClientCap \in Nat /\ Len(deque) <= ClientCap
    BY QueueAssumption DEF IInv, TypeOK
  <2> HIDE DEF m
  <2> QED BY <1>0, <1>1, <1>2, <1>3, <2>1, PutFits
<1>6. intended \in Targets /\ intended' \in Targets /\ Begins(intended.log, intended'.log)
      /\ target \in Targets
  BY <1>1, <1>3, ApplyGrows DEF IInv, TypeOK
<1>7. scrolled \in Int /\ Units(e) \in Int
  BY <1>1 DEF IInv, TypeOK, Units, Applicable
<1>8. FitInv'
  BY <1>2, <1>3, <1>4, <1>5 DEF FitInv
<1>9. TypeOK'
  <2>1. accepted' \in 0 .. MaxEvents /\ scrolled' \in Int
    BY <1>3, <1>7, QueueAssumption DEF IInv, TypeOK
  <2>2. deque' \in Seq([op : {"edge", "wheel", Motion}, v : Int]) /\ Len(deque') <= ClientCap
    BY <1>0, <1>3, <1>5, FlyingApplies
  <2> QED BY <1>3, <1>4, <1>6, <2>1, <2>2 DEF IInv, TypeOK
<1>10. TrailInv'
  <2> SUFFICES ASSUME reader = "serve" PROVE Leads(target, InFlight', intended')
    BY <1>3 DEF TrailInv
  <2> DEFINE p == items \o socket
  <2>1. p \in Seq(F) /\ InFlight \in Seq(F) /\ InFlight = p \o deque /\ InFlight \in Seq(Applicable)
    BY <1>2, ConcatProperties, InFlightFlies DEF IInv, InFlight
  <2>2. Leads(target, InFlight, intended)
    BY DEF IInv, TrailInv
  <2>3. Leads(target, Append(InFlight, e), intended')
    BY <1>1, <1>3, <2>1, <2>2, LeadsAppend
  <2>4. Append(InFlight, e) = (p \o deque) \o (<<e>> \o <<>>)
    <3>1. Append(InFlight, e) = InFlight \o <<e>>
      BY <1>1, <2>1, AppendIsConcat
    <3>2. <<e>> \in Seq(F)
      BY <1>1
    <3>3. <<e>> \o <<>> = <<e>>
      BY <3>2, ConcatEmptySeq
    <3> QED BY <2>1, <3>1, <3>3, Zenon
  <2>5. <<>> \in Seq(F)
    BY EmptySeq
  <2>6. InFlight' = (p \o Put(deque, e)) \o <<>>
    <3>1. p \o Put(deque, e) \in Seq(F)
      BY <1>5, <2>1, ConcatProperties
    <3>2. (p \o Put(deque, e)) \o <<>> = p \o Put(deque, e)
      BY <3>1, ConcatEmptySeq
    <3> QED BY <1>3, <3>2 DEF InFlight
  <2>7. Leads(target, (p \o Put(deque, e)) \o <<>>, intended')
    <3>1. Leads(target, (p \o deque) \o (<<e>> \o <<>>), intended')
      BY <2>3, <2>4
    <3> HIDE DEF p, m
    <3> QED BY <1>0, <1>1, <1>2, <2>1, <2>5, <3>1, PutLeads
  <2> QED BY <2>6, <2>7
<1>11. AppliedPrefix'
  <2>1. target.log \in Seq(Seens) /\ intended.log \in Seq(Seens) /\ intended'.log \in Seq(Seens)
    BY <1>6 DEF Targets
  <2>2. Begins(target.log, intended.log)
    BY <2>1, BeginsIsPrefix DEF IInv, AppliedPrefix
  <2>3. Len(target.log) \in Nat /\ Len(intended.log) \in Nat /\ Len(intended'.log) \in Nat
    BY <2>1, LenProperties
  <2>4. Begins(target.log, intended'.log)
    BY <1>6, <2>2, <2>3, BeginsTransitive
  <2> QED BY <1>3, <2>1, <2>4, BeginsIsPrefix DEF AppliedPrefix
<1>12. WheelInv'
  <2>1. intended.rem \in 1 - Notch .. Notch - 1 /\ target.rem \in 1 - Notch .. Notch - 1
        /\ intended.notches * Notch + intended.rem = scrolled
    BY DEF IInv, WheelInv
  <2>2. /\ Apply(intended, e).rem \in 1 - Notch .. Notch - 1
        /\ Apply(intended, e).notches * Notch + Apply(intended, e).rem
             = intended.notches * Notch + intended.rem + Units(e)
    BY <1>1, <1>6, <2>1, ApplyWheel
  <2>3. Apply(intended, e).notches * Notch + Apply(intended, e).rem = scrolled + Units(e)
    BY <2>1, <2>2
  <2> QED BY <1>3, <2>1, <2>2, <2>3 DEF WheelInv
<1> QED BY <1>8, <1>9, <1>10, <1>11, <1>12 DEF IInv

(* run(): the event moves from the deque to the socket, nothing else.      *)
LEMMA TransmitKeeps ==
    ASSUME IInv, Transmit
    PROVE  IInv'
<1> DEFINE m == Motion
           F == FlyingIn(m)
           h == Head(deque)
<1>0. m \in {"move", "absolute"}
  BY MotionIsOne
<1>2. deque \in Seq(F) /\ socket \in Seq(F) /\ items \in Seq(F)
  BY DEF IInv, FitInv
<1>3. /\ deque # <<>> /\ socket' = Append(socket, h) /\ deque' = Tail(deque)
      /\ absolute' = absolute /\ healthy' = healthy
      /\ sender' = sender /\ items' = items /\ reader' = reader /\ target' = target
      /\ intended' = intended /\ accepted' = accepted /\ scrolled' = scrolled
  BY DEF Transmit, bridge, history
<1>4. Motion' = m
  BY <1>3 DEF Motion
<1>5. deque = <<h>> \o Tail(deque) /\ h \in F /\ Tail(deque) \in Seq(F) /\ <<h>> \in Seq(F)
      /\ Len(deque) = Len(Tail(deque)) + 1
  BY <1>2, <1>3, HeadThenTail
<1>6. Append(socket, h) \in Seq(F) /\ Append(socket, h) = socket \o <<h>>
  BY <1>2, <1>5, AppendProperties, AppendIsConcat
<1>7. FitInv'
  BY <1>2, <1>3, <1>4, <1>5, <1>6 DEF FitInv
<1>8. TypeOK'
  <2>1. deque' \in Seq([op : {"edge", "wheel", Motion}, v : Int])
        /\ socket' \in Seq([op : {"edge", "wheel", Motion}, v : Int])
    BY <1>0, <1>3, <1>5, <1>6, FlyingApplies
  <2>2. Len(deque') <= ClientCap
    <3>1. Len(Tail(deque)) \in Nat /\ Len(deque) <= ClientCap /\ ClientCap \in Nat
      BY <1>5, LenProperties, QueueAssumption DEF IInv, TypeOK
    <3> QED BY <1>3, <1>5, <3>1
  <2> QED BY <1>3, <1>4, <2>1, <2>2 DEF IInv, TypeOK
<1>9. InFlight' = InFlight
  <2> DEFINE r == Tail(deque)
             w == items \o socket
  <2>1. InFlight = w \o (<<h>> \o r) /\ InFlight' = (items \o (socket \o <<h>>)) \o r
    BY <1>3, <1>5, <1>6, Zenon DEF InFlight
  <2>2. items \o (socket \o <<h>>) = w \o <<h>>
    BY <1>2, <1>5, ConcatAssociative
  <2>3. w \in Seq(F)
    BY <1>2, ConcatProperties
  <2>4. (w \o <<h>>) \o r = w \o (<<h>> \o r)
    <3>1. w \in Seq(F) /\ <<h>> \in Seq(F) /\ r \in Seq(F)
      BY <1>5, <2>3
    <3> HIDE DEF w, h, r, F
    <3> QED BY <3>1, ConcatAssociative
  <2> QED BY <2>1, <2>2, <2>4, Zenon
<1>10. TrailInv' /\ AppliedPrefix' /\ WheelInv'
  BY <1>3, <1>9 DEF IInv, TrailInv, AppliedPrefix, WheelInv
<1> QED BY <1>7, <1>8, <1>10 DEF IInv

(* read_events: the next line goes into the bridge's queue.                *)
LEMMA ReadKeeps ==
    ASSUME IInv, ReadEvent
    PROVE  IInv'
<1> DEFINE m == Motion
           F == FlyingIn(m)
           h == Head(socket)
           r == Tail(socket)
<1>0. m \in {"move", "absolute"}
  BY MotionIsOne
<1>2. deque \in Seq(F) /\ socket \in Seq(F) /\ items \in Seq(F)
  BY DEF IInv, FitInv
<1>3. /\ reader = "serve" /\ socket # <<>> /\ Fits(items, h, ServerCap) /\ items' = Put(items, h)
      /\ socket' = r /\ deque' = deque
      /\ absolute' = absolute /\ healthy' = healthy
      /\ sender' = sender /\ reader' = reader /\ target' = target
      /\ intended' = intended /\ accepted' = accepted /\ scrolled' = scrolled
  BY DEF ReadEvent, client, history
<1>4. Motion' = m
  BY <1>3 DEF Motion
<1>5. socket = <<h>> \o r /\ h \in F /\ r \in Seq(F) /\ <<h>> \in Seq(F)
  BY <1>2, <1>3, HeadThenTail
<1>6. Put(items, h) \in Seq(F) /\ Len(Put(items, h)) <= ServerCap
  <2>1. ServerCap \in Nat /\ Len(items) <= ServerCap
    BY QueueAssumption DEF IInv, TypeOK
  <2> HIDE DEF m, h
  <2> QED BY <1>0, <1>2, <1>3, <1>5, <2>1, PutFits
<1>7. FitInv'
  BY <1>2, <1>3, <1>4, <1>5, <1>6 DEF FitInv
<1>8. TypeOK'
  <2>1. items' \in Seq([op : {"edge", "wheel", Motion}, v : Int])
        /\ socket' \in Seq([op : {"edge", "wheel", Motion}, v : Int]) /\ Len(items') <= ServerCap
    BY <1>0, <1>3, <1>5, <1>6, FlyingApplies
  <2> QED BY <1>3, <1>4, <2>1 DEF IInv, TypeOK
<1>9. TrailInv'
  <2> DEFINE c == r \o deque
  <2>1. c \in Seq(F) /\ <<h>> \o c \in Seq(F) /\ <<h>> \o c = socket \o deque
    <3>1. c \in Seq(F)
      BY <1>2, <1>5, ConcatProperties
    <3>2. <<h>> \o c \in Seq(F)
      BY <1>5, <3>1, ConcatProperties
    <3>3. (<<h>> \o r) \o deque = <<h>> \o c
      BY <1>2, <1>5, ConcatAssociative
    <3> QED BY <1>5, <3>1, <3>2, <3>3, Zenon
  <2>2. InFlight = items \o (<<h>> \o c)
    <3>1. (items \o socket) \o deque = items \o (socket \o deque)
      BY <1>2, ConcatAssociative
    <3> QED BY <2>1, <3>1, Zenon DEF InFlight
  <2>3. <<>> \in Seq(F) /\ <<>> \o items = items /\ <<>> \o Put(items, h) = Put(items, h)
    BY <1>2, <1>6, EmptySeq, ConcatEmptySeq
  <2>4. Leads(target, (<<>> \o items) \o (<<h>> \o c), intended)
    <3>1. Leads(target, InFlight, intended)
      BY <1>3 DEF IInv, TrailInv
    <3> QED BY <2>2, <2>3, <3>1, Zenon
  <2>5. Leads(target, (<<>> \o Put(items, h)) \o c, intended)
    <3> HIDE DEF m, h, c
    <3> QED BY <1>0, <1>2, <1>5, <2>1, <2>3, <2>4, PutLeads
  <2>6. InFlight' = Put(items, h) \o c
    <3>1. (Put(items, h) \o r) \o deque = Put(items, h) \o c
      <4> DEFINE z == Put(items, h)
      <4>1. z \in Seq(F) /\ r \in Seq(F) /\ deque \in Seq(F)
        BY <1>2, <1>5, <1>6
      <4> HIDE DEF z, r, F
      <4>2. (z \o r) \o deque = z \o (r \o deque)
        BY <4>1, ConcatAssociative
      <4> QED BY <4>2, Zenon DEF z
    <3> QED BY <1>3, <3>1, Zenon DEF InFlight
  <2>7. Leads(target, InFlight', intended)
    BY <2>3, <2>5, <2>6, Zenon
  <2> QED BY <1>3, <2>7, Zenon DEF TrailInv
<1>10. AppliedPrefix' /\ WheelInv'
  BY <1>3 DEF IInv, AppliedPrefix, WheelInv
<1> QED BY <1>7, <1>8, <1>9, <1>10 DEF IInv

(* consume(): the first event is applied and leaves its queue.             *)
LEMMA ConsumeKeeps ==
    ASSUME IInv, Consume
    PROVE  IInv'
<1> DEFINE m == Motion
           F == FlyingIn(m)
           h == Head(items)
           r == Tail(items)
<1>0. m \in {"move", "absolute"}
  BY MotionIsOne
<1>2. deque \in Seq(F) /\ socket \in Seq(F) /\ items \in Seq(F)
  BY DEF IInv, FitInv
<1>3. /\ reader = "serve" /\ items # <<>> /\ target' = Apply(target, h) /\ items' = r
      /\ deque' = deque /\ socket' = socket
      /\ absolute' = absolute /\ healthy' = healthy
      /\ sender' = sender /\ reader' = reader
      /\ intended' = intended /\ accepted' = accepted /\ scrolled' = scrolled
  BY DEF Consume, client, history
<1>4. Motion' = m
  BY <1>3 DEF Motion
<1>5. items = <<h>> \o r /\ h \in F /\ r \in Seq(F) /\ <<h>> \in Seq(F) /\ Len(items) = Len(r) + 1
  BY <1>2, <1>3, HeadThenTail
<1>6. h \in Applicable /\ target \in Targets /\ Apply(target, h) \in Targets
  <2>1. h \in Applicable /\ target \in Targets
    BY <1>0, <1>5, FlyingApplies DEF IInv, TypeOK
  <2> QED BY <2>1, ApplyGrows
<1>7. FitInv'
  BY <1>2, <1>3, <1>4, <1>5 DEF FitInv
<1>8. TypeOK'
  <2>1. items' \in Seq([op : {"edge", "wheel", Motion}, v : Int])
    BY <1>0, <1>3, <1>5, FlyingApplies
  <2>2. Len(items') <= ServerCap
    <3>1. Len(r) \in Nat /\ Len(items) <= ServerCap /\ ServerCap \in Nat
      BY <1>5, LenProperties, QueueAssumption DEF IInv, TypeOK
    <3> QED BY <1>3, <1>5, <3>1
  <2> QED BY <1>3, <1>4, <1>6, <2>1, <2>2 DEF IInv, TypeOK
<1>9. Leads(target', InFlight', intended') /\ InFlight' \in Seq(Applicable)
  <2> DEFINE c == socket \o deque
             y == r \o c
  <2>1. c \in Seq(F) /\ y \in Seq(F)
    <3>1. c \in Seq(F)
      BY <1>2, ConcatProperties
    <3> QED BY <1>5, <3>1, ConcatProperties
  <2>2. InFlight = <<h>> \o y
    <3>1. (items \o socket) \o deque = items \o c
      BY <1>2, ConcatAssociative
    <3>2. (<<h>> \o r) \o c = <<h>> \o y
      <4>1. <<h>> \in Seq(F) /\ r \in Seq(F) /\ c \in Seq(F)
        BY <1>5, <2>1
      <4> HIDE DEF h, r, c, F
      <4> QED BY <4>1, ConcatAssociative
    <3> QED BY <1>5, <3>1, <3>2, Zenon DEF InFlight
  <2>3. InFlight' = y
    <3>1. (r \o socket) \o deque = r \o c
      <4>1. r \in Seq(F) /\ socket \in Seq(F) /\ deque \in Seq(F)
        BY <1>2, <1>5
      <4> HIDE DEF r, F
      <4> QED BY <4>1, ConcatAssociative
    <3> QED BY <1>3, <3>1, Zenon DEF InFlight
  <2> HIDE DEF y
  <2>4. <<h>> \o y # <<>> /\ Head(<<h>> \o y) = h /\ Tail(<<h>> \o y) = y
    <3> DEFINE z == <<h>> \o y
    <3>1. /\ z \in Seq(F) /\ Len(z) = 1 + Len(y) /\ Len(y) \in Nat
          /\ \A i \in 1 .. 1 + Len(y) : z[i] = IF i <= 1 THEN <<h>>[i] ELSE y[i - 1]
      <4>1. Len(<<h>>) = 1
        OBVIOUS
      <4> QED BY <1>5, <2>1, <4>1, ConcatProperties, LenProperties
    <3> HIDE DEF z
    <3>2. z # <<>>
      BY <3>1, EmptySeq
    <3>3. Head(z) = z[1] /\ z[1] = h
      BY <3>1, <3>2
    <3>4. Tail(z) \in Seq(F) /\ Len(Tail(z)) = Len(z) - 1
          /\ \A i \in 1 .. Len(Tail(z)) : Tail(z)[i] = z[i + 1]
      BY <3>1, <3>2, HeadTailProperties
    <3>5. Len(Tail(z)) = Len(y)
      BY <3>1, <3>4
    <3>6. \A i \in 1 .. Len(Tail(z)) : Tail(z)[i] = y[i]
      <4> DEFINE n == Len(y)
      <4>1. n \in Nat /\ \A i \in 1 .. 1 + n : z[i] = IF i <= 1 THEN <<h>>[i] ELSE y[i - 1]
        BY <3>1
      <4>2. \A i \in 1 .. n : Tail(z)[i] = z[i + 1]
        BY <3>4, <3>5
      <4> HIDE DEF n
      <4>3. \A i \in 1 .. n : z[i + 1] = y[i]
        BY <4>1
      <4> QED BY <3>5, <4>2, <4>3 DEF n
    <3>7. Tail(z) = y
      BY <2>1, <3>4, <3>5, <3>6, SeqEqual
    <3> QED BY <3>2, <3>3, <3>7 DEF z
  <2>5. Leads(target, InFlight, intended) /\ InFlight \in Seq(Applicable)
    BY <1>3, InFlightFlies DEF IInv, TrailInv
  <2>6. Leads(Apply(target, h), y, intended)
    BY <2>2, <2>4, <2>5, LeadsTail
  <2>7. y \in Seq(Applicable)
    BY <1>0, <2>1, FlyingApplies
  <2> QED BY <1>3, <2>3, <2>6, <2>7
<1>10. AppliedPrefix'
  BY <1>9, TrailGivesPrefix DEF AppliedPrefix
<1>11. WheelInv'
  <2>1. target.rem \in 1 - Notch .. Notch - 1
    BY DEF IInv, WheelInv
  <2>2. Apply(target, h).rem \in 1 - Notch .. Notch - 1
    BY <1>6, <2>1, ApplyWheel
  <2> QED BY <1>3, <2>2 DEF IInv, WheelInv
<1>12. TrailInv'
  BY <1>9 DEF TrailInv
<1> QED BY <1>7, <1>8, <1>10, <1>11, <1>12 DEF IInv

(* The end of the lease throws the queue away and applies nothing.         *)
LEMMA EndKeeps ==
    ASSUME IInv, Saturated \/ LeaseEnds
    PROVE  IInv'
<1>1. /\ reader' = "over" /\ items' = <<>> /\ deque' = deque
      /\ absolute' = absolute /\ healthy' = healthy
      /\ sender' = sender /\ target' = target
      /\ intended' = intended /\ accepted' = accepted /\ scrolled' = scrolled
  BY DEF Saturated, LeaseEnds, client, history
<1>2. socket' \in Seq(FlyingIn(Motion)) /\ Motion' = Motion
  <2>1. socket \in Seq(FlyingIn(Motion))
    BY DEF IInv, FitInv
  <2>2. socket' = socket \/ (socket # <<>> /\ socket' = Tail(socket))
    BY DEF Saturated, LeaseEnds
  <2> QED BY <1>1, <2>1, <2>2, HeadTailProperties DEF Motion
<1>3. \A S : <<>> \in Seq(S) /\ Len(<<>>) = 0
  BY EmptySeq
<1>4. FitInv'
  BY <1>1, <1>2, <1>3 DEF IInv, FitInv
<1>5. TypeOK'
  <2>1. socket' \in Seq([op : {"edge", "wheel", Motion}, v : Int])
    BY <1>2, MotionIsOne, FlyingApplies
  <2>2. 0 <= ServerCap
    BY QueueAssumption
  <2> QED BY <1>1, <1>2, <1>3, <2>1, <2>2 DEF IInv, TypeOK
<1>6. TrailInv' /\ AppliedPrefix' /\ WheelInv'
  BY <1>1 DEF IInv, TrailInv, AppliedPrefix, WheelInv
<1> QED BY <1>4, <1>5, <1>6 DEF IInv

(* Giving up and stuttering.                                               *)
LEMMA GivingUpKeeps ==
    ASSUME IInv, healthy' = FALSE \/ healthy' = healthy, sender' \in {"over", sender},
           UNCHANGED <<absolute, deque, socket, bridge, target, history>>
    PROVE  IInv'
<1>1. /\ absolute' = absolute /\ deque' = deque /\ socket' = socket /\ items' = items
      /\ reader' = reader /\ target' = target /\ intended' = intended
      /\ accepted' = accepted /\ scrolled' = scrolled
  BY DEF bridge, history
<1>2. Motion' = Motion /\ InFlight' = InFlight
  BY <1>1 DEF Motion, InFlight
<1>3. FitInv' /\ TrailInv' /\ AppliedPrefix' /\ WheelInv'
  BY <1>1, <1>2 DEF IInv, FitInv, TrailInv, AppliedPrefix, WheelInv
<1>4. healthy' \in BOOLEAN /\ sender' \in {"run", "over"}
  BY DEF IInv, TypeOK
<1>5. TypeOK'
  BY <1>1, <1>2, <1>4 DEF IInv, TypeOK
<1> QED BY <1>3, <1>5 DEF IInv

(* Every step keeps the invariant.                                         *)
LEMMA StepKeeps == IInv /\ [Next]_vars => IInv'
<1> SUFFICES ASSUME IInv, [Next]_vars PROVE IInv'
  OBVIOUS
<1>1. CASE \E e \in Events : Submit(e) \/ SubmitRefused(e)
  <2>1. PICK e \in Events : Submit(e) \/ SubmitRefused(e)
    BY <1>1
  <2>2. CASE Submit(e)
    BY <2>2, SubmitKeeps
  <2>3. CASE SubmitRefused(e)
    BY <2>3, GivingUpKeeps DEF SubmitRefused
  <2> QED BY <2>1, <2>2, <2>3
<1>2. CASE Transmit
  BY <1>2, TransmitKeeps
<1>3. CASE SenderEnds
  BY <1>3, GivingUpKeeps DEF SenderEnds
<1>4. CASE ReadEvent
  BY <1>4, ReadKeeps
<1>5. CASE Saturated \/ LeaseEnds
  BY <1>5, EndKeeps
<1>6. CASE Consume
  BY <1>6, ConsumeKeeps
<1>7. CASE UNCHANGED vars
  BY <1>7, GivingUpKeeps DEF vars, bridge, history
<1> QED BY <1>1, <1>2, <1>3, <1>4, <1>5, <1>6, <1>7 DEF Next, Over

(* The inductive invariant holds in every reachable state, for queues of   *)
(* any capacity and any number of events.                                  *)
THEOREM QueueInvariant == Spec => []IInv
BY Start, StepKeeps, PTL DEF Spec

(* Types: neither HidClient's deque nor the bridge's Queue ever exceeds    *)
(* its capacity, and the target is told well-formed edges only.            *)
THEOREM QueueTypes == Spec => []TypeOK
<1>1. IInv => TypeOK
  BY DEF IInv
<1> QED BY <1>1, QueueInvariant, PTL

(* MergingInvisible: whatever the two queues merged, applying what is in   *)
(* flight to what the target has seen gives what the accepted events,      *)
(* applied one by one, would have given.                                   *)
THEOREM MergingIsInvisible == Spec => []MergingInvisible
<1>1. IInv => MergingInvisible
  <2> SUFFICES ASSUME IInv, reader = "serve" PROVE Outcome(target, InFlight) = intended
    BY DEF MergingInvisible
  <2>1. InFlight \in Seq(Applicable) /\ Leads(target, InFlight, intended)
    BY InFlightFlies DEF IInv, TrailInv
  <2> QED BY <2>1, OutcomeIsEnd
<1> QED BY <1>1, QueueInvariant, PTL

(* AppliedPrefix: whatever ends the lease, kvmd has seen a beginning of    *)
(* what the user did.                                                      *)
THEOREM AppliedIsPrefix == Spec => []AppliedPrefix
<1>1. IInv => AppliedPrefix
  BY DEF IInv
<1> QED BY <1>1, QueueInvariant, PTL

(* MotionFits: no sum of deltas leaves the range that parse_event accepts. *)
THEOREM MotionAlwaysFits == Spec => []MotionFits
<1>1. IInv => MotionFits
  <2> SUFFICES ASSUME IInv, NEW i \in 1 .. Len(InFlight), InFlight[i].op # "edge"
               PROVE  InFlight[i].v \in -MaxDelta .. MaxDelta
    BY DEF MotionFits
  <2>1. InFlight[i] \in FlyingIn(Motion)
    BY InFlightFlies, ElementOfSeq DEF IInv
  <2> QED BY <2>1 DEF FlyingIn
<1> QED BY <1>1, QueueInvariant, PTL

(* WheelExact: for every size of a notch, whole notches and a remainder of *)
(* less than one add up to what the client turned.                         *)
THEOREM WheelIsExact == Spec => []WheelExact
<1>1. IInv => WheelExact
  <2> SUFFICES ASSUME IInv PROVE WheelExact
    OBVIOUS
  <2>1. ASSUME reader = "serve", InFlight = <<>>
        PROVE  target.notches * Notch + target.rem = scrolled
    <3>1. target \in Targets /\ Leads(target, <<>>, intended)
      BY <2>1 DEF IInv, TypeOK, TrailInv
    <3>2. target = intended
      BY <3>1, LeadsNowhere
    <3> QED BY <3>2 DEF IInv, WheelInv
  <2> QED BY <2>1 DEF IInv, WheelInv, WheelExact
<1> QED BY <1>1, QueueInvariant, PTL
==============================================================================
