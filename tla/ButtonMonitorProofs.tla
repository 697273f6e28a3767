------------------------ MODULE ButtonMonitorProofs ------------------------
(***************************************************************************)
(* The safety of the button thread, for every set of paths, every length   *)
(* of the kernel's queue and every timing: its types, the wake-up of       *)
(* stop(), the timeout of poll(), and what the detectors believe of the    *)
(* buttons after any queue of events was drained into them.                *)
(***************************************************************************)
EXTENDS ButtonMonitor, SequenceTheorems, WellFoundedInduction,
        TLAPS

\* A press in the events of q that none of them releases again.
HeldBy(q) == \E i \in 1 .. Len(q) : q[i] = 1 /\ \A j \in i + 1 .. Len(q) : q[j] # 0

\* The kernel queues events for an open node only, and an open node is there.
QueueIsOpens ==
    \A p \in Paths : /\ fd[p] # "open" => queue[p] = <<>>
                     /\ fd[p] = "open" => node[p] # "absent"

\* A press that nothing in the queue releases is a button that is held: with
\* DownIsHeld, what makes draining a queue of any length safe.
QueuedPressIsHeld == \A p \in Paths : HeldBy(queue[p]) => button[p] = "down"

\* stop() has cleared the flag before it writes the wake-up.
FlagFirst == caller # "idle" => ~running

IInv ==
    /\ TypeOK /\ QueueIsOpens /\ QueuedPressIsHeld /\ FlagFirst
    /\ NoLostWake /\ DownIsHeld /\ SleepsUntilDue

-----------------------------------------------------------------------------
(***************************************************************************)
(* Induction over the naturals, as a statement about sets of them.         *)
(***************************************************************************)
LEMMA LeastOfNaturals ==
    ASSUME NEW S, S \subseteq Nat, S # {}
    PROVE  \E x \in S : \A y \in S : x <= y
  <1> DEFINE R == OpToRel(<, Nat)
  <1>1. IsWellFoundedOn(R, Nat)
    BY NatLessThanWellFounded
  <1>2. \A x, y \in Nat : x < y => <<x, y>> \in R
    BY DEF OpToRel
  <1> HIDE DEF R
  <1>3. PICK x \in S : \A y \in S : ~(<<y, x>> \in R)
    BY <1>1, WFMin
  <1>4. ASSUME NEW y \in S PROVE x <= y
    <2>1. x \in Nat /\ y \in Nat /\ ~(y < x)
      BY <1>2, <1>3
    <2> QED BY <2>1
  <1> QED BY <1>4

LEMMA InductionOnNaturals ==
    ASSUME NEW S, 0 \in S, \A n \in Nat : n \in S => n + 1 \in S
    PROVE  Nat \subseteq S
  <1> SUFFICES ASSUME Nat \ S # {} PROVE FALSE
    OBVIOUS
  <1>1. PICK x \in Nat \ S : \A y \in Nat \ S : x <= y
    BY LeastOfNaturals
  <1>2. x - 1 \in Nat /\ x - 1 \in S
    BY <1>1
  <1> QED BY <1>1, <1>2

\* Min() of a set of naturals is its least member.
LEMMA MinIsLeast ==
    ASSUME NEW S, S \subseteq Nat, S # {}
    PROVE  Min(S) \in S /\ \A y \in S : Min(S) <= y
  <1>1. \E x \in S : \A y \in S : x <= y
    BY LeastOfNaturals
  <1> QED BY <1>1 DEF Min

-----------------------------------------------------------------------------
(***************************************************************************)
(* What the handlers of one detector keep: its type, and when it is down.  *)
(***************************************************************************)
LEMMA FieldsOfDetector ==
    ASSUME NEW d \in Detector
    PROVE  /\ d.down \in BOOLEAN /\ d.longFired \in BOOLEAN /\ d.doubleFired \in BOOLEAN
           /\ d.heldFor \in 0 .. LongPressMs
           /\ d.pendingFor \in {None} \union 0 .. DoubleClickMs
  BY DEF Detector

LEMMA ConfiguredType == Configured \in Detector /\ ~Configured.down
  BY TimingAssumption DEF Configured, Detector, None

LEMMA PressKeeps ==
    ASSUME NEW d \in Detector
    PROVE  Press(d).det \in Detector /\ Press(d).det.down
  BY TimingAssumption DEF Press, Returns, Detector, None

LEMMA UpType ==
    ASSUME NEW d \in Detector, NEW longFired \in BOOLEAN, NEW p \in {d.pendingFor, 0}
    PROVE  Up(d, longFired, p) \in Detector /\ ~Up(d, longFired, p).down
  BY TimingAssumption DEF Up, Detector, None

LEMMA ReleaseKeeps ==
    ASSUME NEW d \in Detector
    PROVE  Release(d).det \in Detector /\ ~Release(d).det.down
  <1> USE FieldsOfDetector
  <1>1. CASE ~d.down
    BY <1>1 DEF Release, Returns
  <1>2. CASE d.down
    <2>1. Release(d).det \in {Up(d, d.longFired, d.pendingFor), Up(d, TRUE, d.pendingFor),
                              Up(d, FALSE, 0)}
      BY <1>2 DEF Release, Returns
    <2> QED BY <2>1, UpType
  <1> QED BY <1>1, <1>2

LEMMA LongFiredType ==
    ASSUME NEW d \in Detector
    PROVE  /\ [d EXCEPT !.longFired = TRUE] \in Detector
           /\ [d EXCEPT !.longFired = TRUE].down = d.down
  BY DEF Detector

LEMMA AutoRepeatKeeps ==
    ASSUME NEW d \in Detector
    PROVE  AutoRepeat(d).det \in Detector /\ AutoRepeat(d).det.down = d.down
  <1>1. AutoRepeat(d).det \in {d, [d EXCEPT !.longFired = TRUE]}
    BY DEF AutoRepeat, Returns
  <1> QED BY <1>1, LongFiredType

LEMMA TickKeeps ==
    ASSUME NEW d \in Detector
    PROVE  TickAt(d).det \in Detector /\ TickAt(d).det.down = d.down
  <1>1. /\ [d EXCEPT !.pendingFor = None] \in Detector
        /\ [d EXCEPT !.pendingFor = None].down = d.down
    BY DEF Detector, None
  <1>2. TickAt(d).det \in {d, [d EXCEPT !.longFired = TRUE], [d EXCEPT !.pendingFor = None]}
    BY DEF TickAt, Returns
  <1> QED BY <1>1, <1>2, LongFiredType

LEMMA OlderKeeps ==
    ASSUME NEW d \in Detector
    PROVE  /\ Older(d) \in Detector /\ Older(d).down = d.down
           /\ Deadline(Older(d)) = None <=> Deadline(d) = None
           /\ Deadline(Older(d)) # None => Deadline(Older(d)) >= Deadline(d) - 1
  <1> USE TimingAssumption, FieldsOfDetector DEF None
  <1>1. Sooner(d.heldFor, LongPressMs) \in 0 .. LongPressMs
        /\ Sooner(d.heldFor, LongPressMs) <= d.heldFor + 1
    BY DEF Sooner
  <1>2. d.pendingFor # None =>
            /\ Sooner(d.pendingFor, DoubleClickMs) \in 0 .. DoubleClickMs
            /\ Sooner(d.pendingFor, DoubleClickMs) <= d.pendingFor + 1
    BY DEF Sooner
  <1>3. Older(d) \in Detector /\ Older(d).down = d.down
    BY <1>1, <1>2 DEF Older, Detector
  <1>4. /\ Older(d).longFired = d.longFired /\ Older(d).doubleFired = d.doubleFired
        /\ Older(d).heldFor \in 0 .. LongPressMs
        /\ Older(d).heldFor <= d.heldFor + 1
        /\ Older(d).pendingFor = None <=> d.pendingFor = None
        /\ d.pendingFor # None => /\ Older(d).pendingFor \in 0 .. DoubleClickMs
                                  /\ Older(d).pendingFor <= d.pendingFor + 1
    BY <1>1, <1>2 DEF Older, Detector
  <1> QED BY <1>3, <1>4 DEF Deadline

LEMMA DeadlineType ==
    ASSUME NEW d \in Detector
    PROVE  Deadline(d) \in {None} \union (0 .. LongPressMs + DoubleClickMs)
  BY TimingAssumption, FieldsOfDetector DEF Deadline, None

\* A press makes a detector down, a release makes it up, and nothing else moves it.
LEMMA FeedKeeps ==
    ASSUME NEW d \in Detector, NEW value \in 0 .. SynDropped
    PROVE  /\ FeedNode(d, value) \in Detector
           /\ FeedNode(d, value).down <=> value = 1 \/ (value # 0 /\ d.down)
  <1>1. d.down \in BOOLEAN
    BY FieldsOfDetector
  <1>2. CASE value = 0
    BY <1>2, ReleaseKeeps DEF FeedNode, Feed, SynDropped
  <1>3. CASE value = 1
    BY <1>3, PressKeeps DEF FeedNode, Feed, SynDropped
  <1>4. CASE value = 2
    BY <1>1, <1>4, AutoRepeatKeeps DEF FeedNode, Feed, SynDropped
  <1>5. CASE value = 3
    BY <1>1, <1>5 DEF FeedNode, SynDropped
  <1> QED BY <1>2, <1>3, <1>4, <1>5 DEF SynDropped

-----------------------------------------------------------------------------
(***************************************************************************)
(* What draining a queue of any length makes of a detector.                *)
(***************************************************************************)
\* fed[i] is the detector after the first i of n events.
FedBy(fed, n, d, q) ==
    /\ fed[0] = d
    /\ \A i \in 1 .. n : fed[i] = FeedNode(fed[i - 1], q[i])

LEMMA FeedingExists ==
    ASSUME NEW d, NEW q, NEW m \in Nat
    PROVE  \E fed : fed = [i \in 0 .. m |-> fed[i]] /\ FedBy(fed, m, d, q)
  <1> DEFINE Fed(n) == \E fed : fed = [i \in 0 .. n |-> fed[i]] /\ FedBy(fed, n, d, q)
             S == {n \in Nat : Fed(n)}
  <1>1. Fed(0)
    <2> DEFINE fed == [i \in 0 .. 0 |-> d]
    <2>1. fed[0] = d /\ fed = [i \in 0 .. 0 |-> fed[i]]
      OBVIOUS
    <2>2. FedBy(fed, 0, d, q)
      BY <2>1 DEF FedBy
    <2> QED BY <2>1, <2>2
  <1>2. ASSUME NEW n \in Nat, Fed(n) PROVE Fed(n + 1)
    <2>1. PICK fed : FedBy(fed, n, d, q)
      BY <1>2
    <2> DEFINE next == [i \in 0 .. n + 1 |->
                            IF i = n + 1 THEN FeedNode(fed[n], q[n + 1]) ELSE fed[i]]
    <2>2. /\ next = [i \in 0 .. n + 1 |-> next[i]]
          /\ next[n + 1] = FeedNode(fed[n], q[n + 1])
          /\ \A i \in 0 .. n : next[i] = fed[i]
      OBVIOUS
    <2> HIDE DEF next
    <2>3. next[0] = d
      BY <2>1, <2>2 DEF FedBy
    <2>4. ASSUME NEW i \in 1 .. n + 1 PROVE next[i] = FeedNode(next[i - 1], q[i])
      <3>1. CASE i = n + 1
        <4>1. i - 1 = n /\ n \in 0 .. n
          BY <3>1
        <4> QED BY <2>2, <3>1, <4>1
      <3>2. CASE i \in 1 .. n
        <4>1. i \in 0 .. n /\ i - 1 \in 0 .. n
          BY <3>2
        <4>2. fed[i] = FeedNode(fed[i - 1], q[i])
          BY <2>1, <3>2 DEF FedBy
        <4> QED BY <2>2, <4>1, <4>2
      <3> QED BY <3>1, <3>2
    <2> QED BY <2>2, <2>3, <2>4 DEF FedBy
  <1> HIDE DEF Fed
  <1>3. 0 \in S /\ \A n \in Nat : n \in S => n + 1 \in S
    BY <1>1, <1>2
  <1> HIDE DEF S
  <1>4. Nat \subseteq S
    BY <1>3, InductionOnNaturals
  <1> QED BY <1>4 DEF Fed, S

\* The recursion of Drained is that feeding.
LEMMA DrainedFeeds ==
    ASSUME NEW d, NEW q, Len(q) \in Nat
    PROVE  \E fed : FedBy(fed, Len(q), d, q) /\ Drained(d, q) = fed[Len(q)]
  <1> DEFINE Recursion(fed) ==
                 fed = [n \in 0 .. Len(q) |->
                            IF n = 0 THEN d ELSE FeedNode(fed[n - 1], q[n])]
             chosen == CHOOSE fed : Recursion(fed)
  <1>1. PICK fed : fed = [i \in 0 .. Len(q) |-> fed[i]] /\ FedBy(fed, Len(q), d, q)
    BY FeedingExists
  <1>2. Recursion(fed)
    <2>1. \A n \in 0 .. Len(q) : fed[n] = IF n = 0 THEN d ELSE FeedNode(fed[n - 1], q[n])
      BY <1>1 DEF FedBy
    <2> QED BY <1>1, <2>1
  <1>3. Recursion(chosen)
    BY <1>2
  <1>4. Drained(d, q) = chosen[Len(q)]
    BY DEF Drained
  <1> HIDE DEF chosen
  <1>5. FedBy(chosen, Len(q), d, q)
    BY <1>3 DEF FedBy
  <1> QED BY <1>4, <1>5

\* A drained detector is a detector, and it is down only for a press of the queue that
\* nothing in it releases, or because it was down and nothing in the queue releases it.
LEMMA DrainedKeeps ==
    ASSUME NEW d \in Detector, NEW q \in Seq(0 .. SynDropped)
    PROVE  /\ Drained(d, q) \in Detector
           /\ Drained(d, q).down => HeldBy(q) \/ (d.down /\ ~Contains(q, 0))
  <1>1. PICK fed : FedBy(fed, Len(q), d, q) /\ Drained(d, q) = fed[Len(q)]
    BY DrainedFeeds
  <1> DEFINE Pressed(n)  == \E i \in 1 .. n : q[i] = 1 /\ \A j \in i + 1 .. n : q[j] # 0
             Untouched(n) == d.down /\ \A i \in 1 .. n : q[i] # 0
             Fine(n) == n <= Len(q) => /\ fed[n] \in Detector
                                       /\ fed[n].down => Pressed(n) \/ Untouched(n)
             S == {n \in Nat : Fine(n)}
  <1>2. Fine(0)
    BY <1>1 DEF FedBy
  <1>3. ASSUME NEW n \in Nat, Fine(n), n + 1 <= Len(q) PROVE Fine(n + 1)
    <2>1. q[n + 1] \in 0 .. SynDropped /\ fed[n + 1] = FeedNode(fed[n], q[n + 1])
      <3>1. n + 1 \in 1 .. Len(q) /\ (n + 1) - 1 = n
        BY <1>3
      <3>2. q[n + 1] \in 0 .. SynDropped
        BY <3>1, ElementOfSeq
      <3>3. \A i \in 1 .. Len(q) : fed[i] = FeedNode(fed[i - 1], q[i])
        BY <1>1 DEF FedBy
      <3>4. fed[n + 1] = FeedNode(fed[(n + 1) - 1], q[n + 1])
        BY <3>1, <3>3
      <3> QED BY <3>1, <3>2, <3>4
    <2>2. fed[n] \in Detector /\ (fed[n].down => Pressed(n) \/ Untouched(n))
      BY <1>3
    <2>3. /\ fed[n + 1] \in Detector
          /\ fed[n + 1].down => q[n + 1] = 1 \/ (q[n + 1] # 0 /\ fed[n].down)
      BY <2>1, <2>2, FeedKeeps
    <2>4. q[n + 1] = 1 => Pressed(n + 1)
      OBVIOUS
    <2>5. ASSUME q[n + 1] # 0, Pressed(n) PROVE Pressed(n + 1)
      BY <2>5
    <2>6. ASSUME q[n + 1] # 0, Untouched(n) PROVE Untouched(n + 1)
      BY <2>6
    <2> HIDE DEF Pressed, Untouched
    <2> QED BY <2>2, <2>3, <2>4, <2>5, <2>6
  <1> HIDE DEF Fine
  <1>4. ASSUME NEW n \in Nat, Fine(n) PROVE Fine(n + 1)
    <2>1. CASE n + 1 <= Len(q)
      BY <1>3, <1>4, <2>1
    <2>2. CASE ~(n + 1 <= Len(q))
      BY <2>2 DEF Fine
    <2> QED BY <2>1, <2>2
  <1>5. 0 \in S /\ \A n \in Nat : n \in S => n + 1 \in S
    BY <1>2, <1>4
  <1> HIDE DEF S
  <1>6. Nat \subseteq S
    BY <1>5, InductionOnNaturals
  <1>7. Fine(Len(q))
    BY <1>6 DEF S
  <1>8. Untouched(Len(q)) => d.down /\ ~Contains(q, 0)
    BY DEF Contains
  <1> QED BY <1>1, <1>7, <1>8 DEF Fine, HeldBy

-----------------------------------------------------------------------------
(***************************************************************************)
(* The kernel's queues.                                                    *)
(***************************************************************************)
LEMMA QueueType ==
    ASSUME NEW q
    PROVE  q \in BoundedSeq(0 .. SynDropped, MaxQueue)
               <=> q \in Seq(0 .. SynDropped) /\ Len(q) <= MaxQueue
  <1> DEFINE Values == 0 .. SynDropped
  <1> HIDE DEF Values
  <1>1. MaxQueue \in Nat
    BY MonitorAssumption
  <1>2. ASSUME q \in BoundedSeq(Values, MaxQueue)
        PROVE  q \in Seq(Values) /\ Len(q) <= MaxQueue
    <2>1. PICK m \in 0 .. MaxQueue : q \in [1 .. m -> Values]
      BY <1>2 DEF BoundedSeq, SeqOf
    <2> QED BY <1>1, <2>1
  <1>3. ASSUME q \in Seq(Values), Len(q) <= MaxQueue
        PROVE  q \in BoundedSeq(Values, MaxQueue)
    <2>1. Len(q) \in 0 .. MaxQueue /\ q \in [1 .. Len(q) -> Values]
      BY <1>1, <1>3
    <2> QED BY <2>1 DEF BoundedSeq, SeqOf
  <1> QED BY <1>2, <1>3 DEF Values

LEMMA AppendedPress ==
    ASSUME NEW q \in Seq(0 .. SynDropped), NEW value
    PROVE  /\ HeldBy(Append(q, value)) => value = 1 \/ (value # 0 /\ HeldBy(q))
           /\ Contains(Append(q, value), value)
  <1> DEFINE Values == 0 .. SynDropped
  <1> HIDE DEF Values
  <1>1. /\ Len(Append(q, value)) = Len(q) + 1
        /\ \A i \in 1 .. Len(q) : Append(q, value)[i] = q[i]
        /\ Append(q, value)[Len(q) + 1] = value
        /\ Len(q) \in Nat
    BY DEF Values
  <1>2. Contains(Append(q, value), value)
    BY <1>1 DEF Contains
  <1>3. ASSUME HeldBy(Append(q, value)), value # 1
        PROVE  value # 0 /\ HeldBy(q)
    <2>1. PICK i \in 1 .. Len(q) + 1 :
              /\ Append(q, value)[i] = 1
              /\ \A j \in i + 1 .. Len(q) + 1 : Append(q, value)[j] # 0
      BY <1>1, <1>3 DEF HeldBy
    <2>2. i \in 1 .. Len(q) /\ Len(q) + 1 \in i + 1 .. Len(q) + 1
      BY <1>1, <1>3, <2>1
    <2>3. \A j \in i + 1 .. Len(q) : q[j] # 0
      BY <1>1, <2>1, <2>2
    <2> QED BY <1>1, <2>1, <2>2, <2>3 DEF HeldBy
  <1> QED BY <1>2, <1>3

\* After an overrun only the newest event can be read, if that.
LEMMA OverrunPress ==
    ASSUME NEW value \in 0 .. 2, NEW unread \in Overrun(value)
    PROVE  /\ unread \in BoundedSeq(0 .. SynDropped, MaxQueue)
           /\ HeldBy(unread) => value = 1
           /\ Contains(unread, value) \/ unread = <<SynDropped>>
  <1>1. unread \in {<<3, value>>, <<3>>}
    BY DEF Overrun, SynDropped
  <1>2. unread \in Seq(0 .. 3) /\ Len(unread) <= 2 /\ 2 <= MaxQueue
    <2>1. value \in 0 .. 3 /\ 3 \in 0 .. 3 /\ 2 <= MaxQueue
      BY MonitorAssumption
    <2>2. \A a, b \in 0 .. 3 : /\ <<a, b>> \in Seq(0 .. 3) /\ Len(<<a, b>>) = 2
                               /\ <<a>> \in Seq(0 .. 3) /\ Len(<<a>>) = 1
      OBVIOUS
    <2>3. <<3, value>> \in Seq(0 .. 3) /\ Len(<<3, value>>) = 2
      BY <2>1, <2>2, Zenon
    <2>4. <<3>> \in Seq(0 .. 3) /\ Len(<<3>>) <= 2
      BY <2>1, <2>2
    <2>5. Len(<<3, value>>) <= 2
      BY <2>3
    <2> QED BY <1>1, <2>1, <2>3, <2>4, <2>5, Zenon
  <1>3. unread \in BoundedSeq(0 .. SynDropped, MaxQueue)
    BY <1>2, QueueType, MonitorAssumption DEF SynDropped
  <1>4. CASE unread = <<3, value>>
    <2>1. Len(unread) = 2 /\ unread[1] = 3 /\ unread[2] = value
      BY <1>4
    <2>2. HeldBy(unread) => value = 1
      BY <2>1 DEF HeldBy
    <2>3. Contains(unread, value)
      BY <2>1 DEF Contains
    <2> QED BY <1>3, <2>2, <2>3
  <1>5. CASE unread = <<3>>
    <2>1. Len(unread) = 1 /\ unread[1] = 3
      BY <1>5
    <2>2. ~HeldBy(unread)
      BY <2>1 DEF HeldBy
    <2>3. unread = <<SynDropped>>
      BY <1>5 DEF SynDropped
    <2> QED BY <1>3, <2>2, <2>3
  <1> QED BY <1>1, <1>4, <1>5

LEMMA EmptyQueue ==
    /\ <<>> \in BoundedSeq(0 .. SynDropped, MaxQueue)
    /\ ~HeldBy(<<>>) /\ ~Contains(<<>>, 0) /\ <<>> # <<SynDropped>>
  <1>1. <<>> \in Seq(0 .. SynDropped) /\ Len(<<>>) = 0
    BY EmptySeq
  <1>2. <<>> \in BoundedSeq(0 .. SynDropped, MaxQueue)
    <2>1. Len(<<>>) <= MaxQueue
      BY <1>1, MonitorAssumption
    <2> QED BY <1>1, <2>1, QueueType, Zenon
  <1>3. ~HeldBy(<<>>) /\ ~Contains(<<>>, 0)
    BY <1>1 DEF HeldBy, Contains
  <1>4. Len(<<SynDropped>>) = 1
    OBVIOUS
  <1> QED BY <1>1, <1>2, <1>3, <1>4

-----------------------------------------------------------------------------
(***************************************************************************)
(* The types.                                                              *)
(***************************************************************************)
\* The poll timeout, whatever the detectors wait for, never outlasts a deadline.
LEMMA TimeoutType ==
    ASSUME detector \in [Paths -> Detector]
    PROVE  /\ NextTimeout \in 0 .. RescanMs
           /\ \A x \in Deadlines : NextTimeout <= x
  <1> DEFINE S == Deadlines \union {RescanMs}
  <1>1. \A p \in Paths : Deadline(detector[p]) \in {None} \union Nat
    BY DeadlineType, TimingAssumption
  <1>2. Deadlines \subseteq Nat
    BY <1>1 DEF Deadlines
  <1>3. S \subseteq Nat /\ S # {} /\ RescanMs \in S /\ RescanMs \in Nat
    BY <1>2, MonitorAssumption
  <1> HIDE DEF S
  <1>4. Min(S) \in S /\ \A y \in S : Min(S) <= y
    BY <1>3, MinIsLeast
  <1>5. NextTimeout = Min(S)
    BY DEF NextTimeout, S
  <1>6. Min(S) \in 0 .. RescanMs
    <2>1. Min(S) \in Nat /\ Min(S) <= RescanMs
      BY <1>3, <1>4, Zenon
    <2> QED BY <1>3, <2>1
  <1>7. \A x \in Deadlines : Min(S) <= x
    BY <1>4 DEF S
  <1> QED BY <1>5, <1>6, <1>7, Zenon

LEMMA EmptiedType ==
    ASSUME TypeOK, NEW ps
    PROVE  /\ Emptied(ps) \in [Paths -> BoundedSeq(0 .. SynDropped, MaxQueue)]
           /\ Closed(ps) \in [Paths -> {"closed", "open", "hung"}]
  <1> DEFINE Queues == BoundedSeq(0 .. SynDropped, MaxQueue)
  <1>1. <<>> \in Queues
    BY EmptyQueue
  <1> HIDE DEF Queues
  <1>2. queue \in [Paths -> Queues]
    BY DEF TypeOK, Queues
  <1>3. Emptied(ps) \in [Paths -> Queues]
    BY <1>1, <1>2 DEF Emptied
  <1>4. Closed(ps) \in [Paths -> {"closed", "open", "hung"}]
    BY DEF Closed, TypeOK
  <1> QED BY <1>3, <1>4 DEF Queues

\* What a key event leaves in the queue of its path.
LEMMA KeyQueues ==
    ASSUME TypeOK, NEW p \in Paths, NEW value \in 0 .. 2, Key(p, value)
    PROVE  /\ queue' \in [Paths -> BoundedSeq(0 .. SynDropped, MaxQueue)]
           /\ \A r \in Paths \ {p} : queue'[r] = queue[r]
           /\ \/ queue'[p] = queue[p] /\ fd[p] # "open"
              \/ queue'[p] = Append(queue[p], value) /\ fd[p] = "open"
              \/ queue'[p] \in Overrun(value) /\ fd[p] = "open"
  <1> DEFINE Queues == BoundedSeq(0 .. SynDropped, MaxQueue)
  <1>1. /\ queue[p] \in Seq(0 .. SynDropped)
        /\ queue \in [Paths -> Queues]
    BY QueueType DEF TypeOK
  <1>2. CASE fd[p] # "open"
    BY <1>1, <1>2 DEF Key
  <1>3. CASE fd[p] = "open" /\ Len(queue[p]) < MaxQueue
    <2>1. queue' = [queue EXCEPT ![p] = Append(queue[p], value)]
      BY <1>3 DEF Key
    <2>2. Append(queue[p], value) \in Queues
      <3>1. value \in 0 .. SynDropped
        BY DEF SynDropped
      <3>2. Append(queue[p], value) \in Seq(0 .. SynDropped)
        BY <1>1, <3>1, AppendProperties
      <3>3. Len(Append(queue[p], value)) <= MaxQueue
        <4>1. Len(Append(queue[p], value)) = Len(queue[p]) + 1 /\ Len(queue[p]) \in Nat
          BY <1>1, <3>1, AppendProperties, LenProperties
        <4> QED BY <1>3, <4>1, MonitorAssumption
      <3> QED BY <3>2, <3>3, QueueType
    <2> HIDE DEF Queues
    <2>3. queue' \in [Paths -> Queues] /\ queue'[p] = Append(queue[p], value)
          /\ \A r \in Paths \ {p} : queue'[r] = queue[r]
      BY <1>1, <2>1, <2>2
    <2> QED BY <1>3, <2>3 DEF Queues
  <1>4. CASE fd[p] = "open" /\ ~(Len(queue[p]) < MaxQueue)
    <2>1. PICK unread \in Overrun(value) : queue' = [queue EXCEPT ![p] = unread]
      BY <1>4 DEF Key
    <2>2. unread \in Queues
      BY OverrunPress
    <2> HIDE DEF Queues
    <2>3. queue' \in [Paths -> Queues] /\ queue'[p] = unread
          /\ \A r \in Paths \ {p} : queue'[r] = queue[r]
      BY <1>1, <2>1, <2>2
    <2> QED BY <1>4, <2>3 DEF Queues
  <1> QED BY <1>2, <1>3, <1>4

\* What a drain leaves of the detectors.
LEMMA DrainType ==
    ASSUME TypeOK, Drain
    PROVE  detector' \in [Paths -> Detector]
  <1>1. \A p \in Paths : detector[p] \in Detector /\ queue[p] \in Seq(0 .. SynDropped)
    BY QueueType DEF TypeOK
  <1>2. \A p \in Paths : Drained(detector[p], queue[p]) \in Detector
    BY <1>1, DrainedKeeps
  <1> QED BY <1>1, <1>2 DEF Drain

\* Every step keeps the types.
LEMMA TypeInductive == ASSUME TypeOK, [Next]_vars PROVE TypeOK'
  <1> DEFINE Queues == BoundedSeq(0 .. SynDropped, MaxQueue)
  <1>t. /\ queue \in [Paths -> Queues] /\ detector \in [Paths -> Detector]
        /\ Configured \in Detector
    BY ConfiguredType DEF TypeOK
  <1>q. <<>> \in Queues
    BY EmptyQueue
  <1>e. \A ps : Emptied(ps) \in [Paths -> Queues]
                /\ Closed(ps) \in [Paths -> {"closed", "open", "hung"}]
    BY EmptiedType
  <1> HIDE DEF Queues
  <1>i. TypeOK <=> /\ pc \in {"check", "poll", "drain", "scan", "flush", "done"}
                   /\ fd \in [Paths -> {"closed", "open", "hung"}]
                   /\ detector \in [Paths -> Detector]
                   /\ sleepLeft \in 0 .. RescanMs
                   /\ ready \subseteq Paths /\ rescan \in BOOLEAN
                   /\ running \in BOOLEAN /\ wake \in BOOLEAN
                   /\ caller \in {"idle", "stored", "stopped"}
                   /\ node \in [Paths -> {"absent", "locked", "ready"}]
                   /\ inotify \in BOOLEAN
                   /\ button \in [Paths -> {"up", "down"}]
                   /\ queue \in [Paths -> Queues]
                   /\ lost \subseteq Paths
    BY DEF TypeOK, Queues
  <1>j. TypeOK' <=> /\ pc' \in {"check", "poll", "drain", "scan", "flush", "done"}
                    /\ fd' \in [Paths -> {"closed", "open", "hung"}]
                    /\ detector' \in [Paths -> Detector]
                    /\ sleepLeft' \in 0 .. RescanMs
                    /\ ready' \subseteq Paths /\ rescan' \in BOOLEAN
                    /\ running' \in BOOLEAN /\ wake' \in BOOLEAN
                    /\ caller' \in {"idle", "stored", "stopped"}
                    /\ node' \in [Paths -> {"absent", "locked", "ready"}]
                    /\ inotify' \in BOOLEAN
                    /\ button' \in [Paths -> {"up", "down"}]
                    /\ queue' \in [Paths -> Queues]
                    /\ lost' \subseteq Paths
    BY DEF TypeOK, Queues
  <1> USE <1>i, <1>j, MonitorAssumption DEF threadVars, stopVars, kernelVars
  <1>1. ASSUME NEW p \in Paths, NodeAppears(p) \/ NodeUnlocked(p) PROVE TypeOK'
    BY <1>1 DEF NodeAppears, NodeUnlocked
  <1>2. ASSUME NEW p \in Paths, NodeVanishes(p) PROVE TypeOK'
    BY <1>2, <1>q DEF NodeVanishes
  <1>3. ASSUME NEW p \in Paths, NEW value \in 0 .. 2, Key(p, value) PROVE TypeOK'
    <2>1. queue' \in [Paths -> Queues]
      BY <1>3, KeyQueues DEF Queues
    <2> QED BY <1>3, <2>1 DEF Key
  <1>4. CASE Tick
    <2>1. \A p \in Paths : Older(detector[p]) \in Detector
      BY <1>t, OlderKeeps
    <2>2. detector' \in [Paths -> Detector]
      BY <1>4, <1>t, <2>1 DEF Tick
    <2>3. sleepLeft' \in 0 .. RescanMs
      BY <1>4 DEF Tick
    <2> QED BY <1>4, <2>2, <2>3 DEF Tick
  <1>5. CASE StopStore \/ StopWrite
    BY <1>5 DEF StopStore, StopWrite
  <1>6. CASE Sleep
    <2>1. sleepLeft' \in 0 .. RescanMs
      BY <1>6, <1>t, TimeoutType DEF Sleep
    <2> QED BY <1>6, <2>1 DEF Sleep
  <1>7. CASE Leave \/ PollFails
    BY <1>7, <1>e DEF Leave, PollFails, Exit
  <1>8. CASE Wake
    <2>1. rescan' \in BOOLEAN /\ wake' \in BOOLEAN /\ inotify' \in BOOLEAN
      BY <1>8, Zenon DEF Wake
    <2> QED BY <1>8, <2>1 DEF Wake
  <1>9. CASE Drain
    <2>1. detector' \in [Paths -> Detector]
      BY <1>9, DrainType
    <2>2. rescan' \in BOOLEAN
      BY <1>9, Zenon DEF Drain
    <2> QED BY <1>9, <1>e, <2>1, <2>2 DEF Drain
  <1>10. CASE Scan
    <2>1. detector' \in [Paths -> Detector]
      BY <1>10, <1>t DEF Scan
    <2> QED BY <1>10, <2>1 DEF Scan
  <1>11. CASE Flush
    <2>1. \A p \in Paths : TickAt(detector[p]).det \in Detector
      BY <1>t, TickKeeps
    <2>2. detector' \in [Paths -> Detector]
      BY <1>11, <1>t, <2>1 DEF Flush
    <2> QED BY <1>11, <2>2 DEF Flush
  <1>12. CASE UNCHANGED vars
    BY <1>12 DEF vars
  <1> QED BY <1>1, <1>2, <1>3, <1>4, <1>5, <1>6, <1>7, <1>8, <1>9, <1>10, <1>11, <1>12
          DEF Next, Kernel, Thread

-----------------------------------------------------------------------------
(***************************************************************************)
(* What the detectors believe of the buttons.                              *)
(***************************************************************************)
\* Only an open node has a queue, through every removal, failure and drain.
LEMMA OpensInductive == ASSUME TypeOK, QueueIsOpens, [Next]_vars PROVE QueueIsOpens'
  <1> USE DEF QueueIsOpens, TypeOK, threadVars, stopVars, kernelVars, Watched
  <1>1. ASSUME NEW p \in Paths, NodeAppears(p) \/ NodeUnlocked(p) PROVE QueueIsOpens'
    BY <1>1 DEF NodeAppears, NodeUnlocked
  <1>2. ASSUME NEW p \in Paths, NodeVanishes(p) PROVE QueueIsOpens'
    BY <1>2 DEF NodeVanishes
  <1>3. ASSUME NEW p \in Paths, NEW value \in 0 .. 2, Key(p, value) PROVE QueueIsOpens'
    <2>1. /\ \A r \in Paths \ {p} : queue'[r] = queue[r]
          /\ fd[p] # "open" => queue'[p] = queue[p]
      BY <1>3, KeyQueues
    <2>2. fd' = fd /\ node' = node
      BY <1>3 DEF Key
    <2> QED BY <2>1, <2>2
  <1>4. CASE Tick \/ StopStore \/ StopWrite
    BY <1>4 DEF Tick, StopStore, StopWrite
  <1>5. CASE Sleep \/ Wake \/ Flush
    BY <1>5 DEF Sleep, Wake, Flush
  <1>6. CASE Leave \/ PollFails
    BY <1>6 DEF Leave, PollFails, Exit, Closed, Emptied
  <1>7. CASE Drain
    BY <1>7 DEF Drain, Closed, Emptied
  <1>8. CASE Scan
    BY <1>8 DEF Scan
  <1>9. CASE UNCHANGED vars
    BY <1>9 DEF vars
  <1> QED BY <1>1, <1>2, <1>3, <1>4, <1>5, <1>6, <1>7, <1>8, <1>9 DEF Next, Kernel, Thread

\* A queue that ends with the button pressed belongs to a held button: what the user
\* does to the button he also appends.
LEMMA PressInductive ==
    ASSUME TypeOK, QueueIsOpens, QueuedPressIsHeld, [Next]_vars
    PROVE  QueuedPressIsHeld'
  <1> USE EmptyQueue DEF QueuedPressIsHeld, threadVars, stopVars, kernelVars
  <1>t. /\ button \in [Paths -> {"up", "down"}] /\ DOMAIN queue = Paths
        /\ \A p \in Paths : queue[p] \in Seq(0 .. SynDropped)
    BY QueueType DEF TypeOK
  <1>1. ASSUME NEW p \in Paths, NodeAppears(p) PROVE QueuedPressIsHeld'
    BY <1>1, <1>t DEF NodeAppears, QueueIsOpens
  <1>2. ASSUME NEW p \in Paths, NodeUnlocked(p) \/ NodeVanishes(p) PROVE QueuedPressIsHeld'
    BY <1>2, <1>t DEF NodeUnlocked, NodeVanishes
  <1>3. ASSUME NEW p \in Paths, NEW value \in 0 .. 2, Key(p, value)
        PROVE  QueuedPressIsHeld'
    <2>1. /\ button'[p] = (IF value = 0 THEN "up" ELSE "down")
          /\ \A r \in Paths \ {p} : button'[r] = button[r]
      BY <1>3, <1>t DEF Key
    <2>2. ASSUME HeldBy(queue'[p]) PROVE value # 0
      <3>1. CASE queue'[p] = queue[p] /\ fd[p] # "open"
        BY <2>2, <3>1 DEF QueueIsOpens
      <3>2. CASE queue'[p] = Append(queue[p], value)
        BY <2>2, <3>2, <1>t, AppendedPress
      <3>3. CASE queue'[p] \in Overrun(value)
        BY <2>2, <3>3, OverrunPress
      <3> QED BY <1>3, <3>1, <3>2, <3>3, KeyQueues
    <2>3. \A r \in Paths \ {p} : queue'[r] = queue[r]
      BY <1>3, KeyQueues
    <2> QED BY <2>1, <2>2, <2>3
  <1>4. CASE Tick \/ StopStore \/ StopWrite
    BY <1>4 DEF Tick, StopStore, StopWrite
  <1>5. CASE Sleep \/ Wake \/ Scan \/ Flush
    BY <1>5 DEF Sleep, Wake, Scan, Flush
  <1>6. CASE Leave \/ PollFails \/ Drain
    BY <1>6 DEF Leave, PollFails, Exit, Drain, Emptied
  <1>7. CASE UNCHANGED vars
    BY <1>7 DEF vars
  <1> QED BY <1>1, <1>2, <1>3, <1>4, <1>5, <1>6, <1>7 DEF Next, Kernel, Thread

\* The detector of an open node after a drain.
LEMMA DrainedIsHeld ==
    ASSUME TypeOK, QueuedPressIsHeld, DownIsHeld, Drain
    PROVE  DownIsHeld'
  <1> SUFFICES ASSUME NEW p \in Paths,
                      fd'[p] = "open", detector'[p].down, button'[p] = "up"
               PROVE  p \in lost' \/ Contains(queue'[p], 0)
    BY DEF DownIsHeld
  <1>t. /\ detector[p] \in Detector /\ queue[p] \in Seq(0 .. SynDropped)
    BY QueueType DEF TypeOK
  <1>1. button' = button /\ lost' = lost /\ fd[p] = "open"
    BY DEF Drain, Closed, TypeOK
  <1>2. CASE p \in ready
    <2>1. detector'[p] = Drained(detector[p], queue[p])
      BY <1>1, <1>2 DEF Drain
    <2>2. CASE HeldBy(queue[p])
      BY <1>1, <2>2 DEF QueuedPressIsHeld
    <2>3. CASE detector[p].down /\ ~Contains(queue[p], 0)
      BY <1>1, <2>3 DEF DownIsHeld
    <2> QED BY <1>t, <2>1, <2>2, <2>3, DrainedKeeps
  <1>3. CASE p \notin ready
    <2>1. detector'[p] = detector[p] /\ queue'[p] = queue[p]
      BY <1>3 DEF Drain, Emptied
    <2> QED BY <1>1, <2>1 DEF DownIsHeld
  <1> QED BY <1>2, <1>3

\* Every step keeps the detectors' idea of the buttons as good as it can be.
LEMMA DownInductive ==
    ASSUME TypeOK, QueueIsOpens, QueuedPressIsHeld, DownIsHeld, [Next]_vars
    PROVE  DownIsHeld'
  <1> USE DEF DownIsHeld, threadVars, stopVars, kernelVars
  <1>t. /\ button \in [Paths -> {"up", "down"}] /\ detector \in [Paths -> Detector]
        /\ fd \in [Paths -> {"closed", "open", "hung"}] /\ DOMAIN queue = Paths
        /\ lost \subseteq Paths
        /\ \A p \in Paths : queue[p] \in Seq(0 .. SynDropped)
    BY QueueType DEF TypeOK
  <1>1. ASSUME NEW p \in Paths, NodeAppears(p) PROVE DownIsHeld'
    BY <1>1, <1>t DEF NodeAppears, QueueIsOpens
  <1>2. ASSUME NEW p \in Paths, NodeUnlocked(p) \/ NodeVanishes(p) PROVE DownIsHeld'
    BY <1>2, <1>t DEF NodeUnlocked, NodeVanishes
  <1>3. ASSUME NEW p \in Paths, NEW value \in 0 .. 2, Key(p, value) PROVE DownIsHeld'
    <2>1. /\ fd' = fd /\ detector' = detector
          /\ value # 0 => button'[p] = "down"
          /\ \A r \in Paths \ {p} : button'[r] = button[r]
          /\ lost' = IF queue'[p] = <<SynDropped>> THEN lost \union {p} ELSE lost \ {p}
      BY <1>3, <1>t DEF Key
    <2>2. ASSUME fd[p] = "open", value = 0 PROVE p \in lost' \/ Contains(queue'[p], 0)
      <3>1. CASE queue'[p] = Append(queue[p], value)
        BY <2>2, <3>1, <1>t, AppendedPress
      <3>2. CASE queue'[p] \in Overrun(value)
        BY <2>1, <2>2, <3>2, OverrunPress
      <3> QED BY <1>3, <2>2, <3>1, <3>2, KeyQueues
    <2>3. \A r \in Paths \ {p} : queue'[r] = queue[r] /\ (r \in lost' <=> r \in lost)
      BY <1>3, <2>1, KeyQueues
    <2> QED BY <2>1, <2>2, <2>3
  <1>4. CASE Tick
    <2>1. \A p \in Paths : detector'[p].down = detector[p].down
      BY <1>4, <1>t, OlderKeeps DEF Tick
    <2> QED BY <1>4, <2>1 DEF Tick
  <1>5. CASE StopStore \/ StopWrite \/ Sleep \/ Wake
    BY <1>5 DEF StopStore, StopWrite, Sleep, Wake
  <1>6. CASE Leave \/ PollFails
    BY <1>6, <1>t DEF Leave, PollFails, Exit, Closed
  <1>7. CASE Drain
    BY <1>7, DrainedIsHeld
  <1>8. CASE Scan
    BY <1>8, <1>t, ConfiguredType DEF Scan
  <1>9. CASE Flush
    <2>1. \A p \in Paths : detector'[p].down = detector[p].down
      BY <1>9, <1>t, TickKeeps DEF Flush
    <2> QED BY <1>9, <2>1 DEF Flush
  <1>10. CASE UNCHANGED vars
    BY <1>10 DEF vars
  <1> QED BY <1>1, <1>2, <1>3, <1>4, <1>5, <1>6, <1>7, <1>8, <1>9, <1>10
          DEF Next, Kernel, Thread

-----------------------------------------------------------------------------
(***************************************************************************)
(* stop() and the poll timeout.                                            *)
(***************************************************************************)
LEMMA WakeInductive ==
    ASSUME TypeOK, FlagFirst, NoLostWake, [Next]_vars
    PROVE  FlagFirst' /\ NoLostWake'
  <1> USE DEF TypeOK, FlagFirst, NoLostWake, threadVars, stopVars, kernelVars
  <1>1. ASSUME NEW p \in Paths,
               \/ NodeAppears(p) \/ NodeUnlocked(p) \/ NodeVanishes(p)
               \/ \E value \in 0 .. 2 : Key(p, value)
        PROVE  FlagFirst' /\ NoLostWake'
    BY <1>1 DEF NodeAppears, NodeUnlocked, NodeVanishes, Key
  <1>2. CASE Tick
    BY <1>2 DEF Tick
  <1>3. CASE StopStore \/ StopWrite
    BY <1>3 DEF StopStore, StopWrite
  <1>4. CASE Sleep \/ Leave \/ PollFails
    BY <1>4 DEF Sleep, Leave, PollFails, Exit
  <1>5. CASE Wake \/ Drain \/ Scan \/ Flush
    BY <1>5 DEF Wake, Drain, Scan, Flush
  <1>6. CASE UNCHANGED vars
    BY <1>6 DEF vars
  <1> QED BY <1>1, <1>2, <1>3, <1>4, <1>5, <1>6 DEF Next, Kernel, Thread

LEMMA SleepInductive ==
    ASSUME TypeOK, SleepsUntilDue, [Next]_vars
    PROVE  SleepsUntilDue'
  <1> USE DEF SleepsUntilDue, Watched, threadVars, stopVars, kernelVars
  <1> DEFINE Most == LongPressMs + DoubleClickMs
  <1>t. /\ \A p \in Paths : detector[p] \in Detector
        /\ fd \in [Paths -> {"closed", "open", "hung"}]
        /\ sleepLeft \in Nat /\ Most \in Nat
    BY TimingAssumption, MonitorAssumption DEF TypeOK
  <1>1. ASSUME NEW p \in Paths,
               \/ NodeAppears(p) \/ NodeUnlocked(p) \/ NodeVanishes(p)
               \/ \E value \in 0 .. 2 : Key(p, value)
        PROVE  SleepsUntilDue'
    BY <1>1, <1>t DEF NodeAppears, NodeUnlocked, NodeVanishes, Key
  <1>2. CASE Tick
    <2> SUFFICES ASSUME pc' = "poll", NEW p \in Paths, Watched(p)'
                 PROVE  Deadline(detector'[p]) \in {None} \union (sleepLeft' .. Most)
      OBVIOUS
    <2>1. /\ pc = "poll" /\ Watched(p) /\ detector'[p] = Older(detector[p])
          /\ sleepLeft' = IF sleepLeft > 0 THEN sleepLeft - 1 ELSE sleepLeft
      BY <1>2 DEF Tick
    <2>2. Deadline(detector[p]) \in {None} \union (sleepLeft .. Most)
      BY <2>1
    <2>3. /\ Deadline(Older(detector[p])) = None <=> Deadline(detector[p]) = None
          /\ Deadline(Older(detector[p])) # None =>
                 Deadline(Older(detector[p])) >= Deadline(detector[p]) - 1
          /\ Deadline(Older(detector[p])) \in {None} \union (0 .. Most)
      BY <1>t, OlderKeeps, DeadlineType
    <2> QED BY <1>t, <2>1, <2>2, <2>3 DEF None
  <1>3. CASE Sleep
    <2>1. detector \in [Paths -> Detector]
      BY DEF TypeOK
    <2>2. \A x \in Deadlines : NextTimeout <= x
      BY <2>1, TimeoutType
    <2>3. NextTimeout \in Nat
      BY <2>1, TimeoutType, MonitorAssumption
    <2>4. ASSUME NEW p \in Paths, Watched(p)
          PROVE  Deadline(detector[p]) \in {None} \union (NextTimeout .. Most)
      <3>1. Deadline(detector[p]) \in {None} \union (0 .. Most)
        BY <1>t, DeadlineType
      <3>2. Deadline(detector[p]) # None => Deadline(detector[p]) \in Deadlines
        BY <2>4 DEF Deadlines
      <3> QED BY <2>2, <2>3, <3>1, <3>2 DEF None
    <2> QED BY <1>3, <2>4 DEF Sleep
  <1>4. CASE StopStore \/ StopWrite
    BY <1>4 DEF StopStore, StopWrite
  <1>5. CASE Leave \/ PollFails \/ Wake \/ Drain \/ Scan \/ Flush
    BY <1>5 DEF Leave, PollFails, Exit, Wake, Drain, Scan, Flush
  <1>6. CASE UNCHANGED vars
    BY <1>6 DEF vars
  <1> QED BY <1>1, <1>2, <1>3, <1>4, <1>5, <1>6 DEF Next, Kernel, Thread

-----------------------------------------------------------------------------
LEMMA IInvInitial == Init => IInv
  <1> SUFFICES ASSUME Init PROVE IInv
    OBVIOUS
  <1>1. TypeOK
    <2>1. queue \in [Paths -> BoundedSeq(0 .. SynDropped, MaxQueue)]
      BY EmptyQueue DEF Init
    <2>2. detector \in [Paths -> Detector]
      BY ConfiguredType DEF Init
    <2>3. {running, wake, rescan, inotify} \subseteq BOOLEAN
      BY Zenon DEF Init
    <2> QED BY <2>1, <2>2, <2>3, MonitorAssumption DEF Init, TypeOK
  <1>2. QueueIsOpens /\ QueuedPressIsHeld
    BY EmptyQueue DEF Init, QueueIsOpens, QueuedPressIsHeld
  <1>3. FlagFirst /\ NoLostWake /\ DownIsHeld /\ SleepsUntilDue
    BY DEF Init, FlagFirst, NoLostWake, DownIsHeld, SleepsUntilDue
  <1> QED BY <1>1, <1>2, <1>3 DEF IInv

LEMMA IInvAlways == Spec => []IInv
  <1>1. IInv /\ [Next]_vars => IInv'
    BY TypeInductive, OpensInductive, PressInductive, DownInductive, WakeInductive,
       SleepInductive DEF IInv
  <1> QED BY <1>1, IInvInitial, PTL DEF Spec

\* The variables of the thread, the kernel and stop() keep their types; no queue grows
\* past what evdev buffers, no detector leaves its ranges.
THEOREM MonitorTypes == Spec => []TypeOK
  BY IInvAlways, PTL DEF IInv

\* Once stop() has returned, the thread is never asleep in poll() without the wake-up
\* that ends it, whatever else happens in the meantime.
THEOREM StopIsNotLost == Spec => []NoLostWake
  BY IInvAlways, PTL DEF IInv

\* However many events the kernel queued before a drain, and however often the node
\* came and went, a detector that is down over a released button has the release to
\* read or lost it in an overrun.
THEOREM DetectorFollowsButton == Spec => []DownIsHeld
  BY IInvAlways, PTL DEF IInv

\* The timeout of poll() ends before the deadline of every watched node, for every
\* number of nodes, thresholds and re-scan interval.
THEOREM SleepIsBounded == Spec => []SleepsUntilDue
  BY IInvAlways, PTL DEF IInv
=============================================================================
