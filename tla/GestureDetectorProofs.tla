----------------------- MODULE GestureDetectorProofs -----------------------
(***************************************************************************)
(* The detector's safety for every pair of thresholds, with auto-repeat    *)
(* mapped and without: its types, what may be run for one press, the       *)
(* exactness of the deadline the poll loop sleeps on, and the refinement   *)
(* of the automaton Gestures.                                              *)
(***************************************************************************)
EXTENDS GestureDetector, TLAPS

\* A click is held back only while the button is up: press() clears it.
\* Without this the two halves of Undecided could both hold.
ClickNotHeld == det.down => det.pendingFor = None /\ button = "down"

\* A hold that is not a double click's has run none: without this, repeats could
\* add a `long` to a press that has already been half of a double click.
DoubleIsDoubles == det.down /\ ~det.doubleFired => ran["double"] = 0

\* The inductive invariant, whether or not auto-repeat is mapped.
IInv == TypeOK /\ ClickNotHeld /\ DoubleIsDoubles /\ OneGesturePerPress

\* The detector's fields keep their ranges in every handler.
LEMMA PressType ==
    ASSUME NEW d \in Detector
    PROVE  Press(d).det \in Detector /\ Press(d).out \in {"none", "double"}
  <1> USE TimingAssumption DEF Detector, Returns, None
  <1>1. CASE d.pendingFor # None
    BY <1>1 DEF Press
  <1>2. CASE d.pendingFor = None
    BY <1>2 DEF Press
  <1> QED BY <1>1, <1>2

LEMMA ReleaseType ==
    ASSUME NEW d \in Detector
    PROVE  Release(d).det \in Detector /\ Release(d).out \in {"none", "long"}
  <1>1. \A longFired \in BOOLEAN, p \in {d.pendingFor, 0} : Up(d, longFired, p) \in Detector
    BY TimingAssumption DEF Up, Detector, None
  <1>2. \/ Release(d) = Returns(d, "none")
        \/ Release(d) = Returns(Up(d, d.longFired, d.pendingFor), "none")
        \/ Release(d) = Returns(Up(d, TRUE, d.pendingFor), "long")
        \/ Release(d) = Returns(Up(d, FALSE, 0), "none")
    <2>1. CASE ~d.down
      BY <2>1 DEF Release
    <2>2. CASE d.down /\ (d.doubleFired \/ d.longFired)
      BY <2>2 DEF Release
    <2>3. CASE d.down /\ ~(d.doubleFired \/ d.longFired) /\ HeldLong(d)
      BY <2>3 DEF Release
    <2>4. CASE d.down /\ ~(d.doubleFired \/ d.longFired) /\ ~HeldLong(d)
      BY <2>4 DEF Release
    <2> QED BY <2>1, <2>2, <2>3, <2>4
  <1>3. d.longFired \in BOOLEAN
    BY DEF Detector
  <1>4. \A x, g : Returns(x, g).det = x /\ Returns(x, g).out = g
    BY DEF Returns
  <1>5. /\ Up(d, d.longFired, d.pendingFor) \in Detector
        /\ Up(d, TRUE, d.pendingFor) \in Detector
        /\ Up(d, FALSE, 0) \in Detector
    BY <1>1, <1>3
  <1>6. \E x \in Detector, g \in {"none", "long"} : Release(d) = Returns(x, g)
    BY <1>2, <1>5
  <1> QED BY <1>4, <1>6

LEMMA TickType ==
    ASSUME NEW d \in Detector
    PROVE  TickAt(d).det \in Detector /\ TickAt(d).out \in {"none", "single", "long"}
  BY TimingAssumption DEF Detector, Returns, None, TickAt, HeldLong

LEMMA OlderType ==
    ASSUME NEW d \in Detector
    PROVE  Older(d) \in Detector
  <1> USE TimingAssumption DEF Detector, None
  <1>1. Sooner(d.heldFor, LongPressMs) \in 0 .. LongPressMs
    BY DEF Sooner
  <1>2. d.pendingFor # None => Sooner(d.pendingFor, DoubleClickMs) \in 0 .. DoubleClickMs
    BY DEF Sooner
  <1> QED BY <1>1, <1>2 DEF Older

LEMMA AutoRepeatType ==
    ASSUME NEW d \in Detector
    PROVE  AutoRepeat(d).det \in Detector /\ AutoRepeat(d).out \in Gesture \union {"none"}
  BY DEF AutoRepeat, Returns, Detector, Gesture

\* What a call adds to the ghost.
LEMMA CallCounts ==
    ASSUME NEW r, NEW before \in [Gesture -> 0 .. Many],
           r.out \in Gesture \union {"none"}, Call(r, before)
    PROVE  /\ det' = r.det /\ gesture' = r.out
           /\ ran' \in [Gesture -> 0 .. Many]
           /\ r.out = "none" => ran' = before
           /\ r.out # "none" => /\ ran'[r.out] > 0
                                /\ \A g \in Gesture \ {r.out} : ran'[g] = before[g]
           /\ r.out # "none" /\ before = NotRun => ran' = Once(r.out)
  <1>1. det' = r.det /\ gesture' = r.out
    BY DEF Call
  <1>2. CASE r.out = "none"
    BY <1>1, <1>2 DEF Call
  <1>3. CASE r.out # "none"
    <2>1. ran' = [before EXCEPT ![r.out] = Sooner(@, Many)] /\ r.out \in Gesture
      BY <1>3 DEF Call
    <2>2. \A n \in 0 .. Many : Sooner(n, Many) \in 1 .. Many
      BY DEF Sooner, Many
    <2>3. ran' \in [Gesture -> 0 .. Many] /\ ran'[r.out] > 0
      BY <2>1, <2>2
    <2>4. \A g \in Gesture \ {r.out} : ran'[g] = before[g]
      BY <2>1
    <2>a. NotRun[r.out] = 0 /\ Sooner(0, Many) = 1
      BY <2>1 DEF NotRun, Sooner, Many
    <2>5. before = NotRun => ran' = Once(r.out)
      BY <2>1, <2>a DEF Once
    <2> QED BY <1>1, <1>3, <2>3, <2>4, <2>5
  <1> QED BY <1>2, <1>3

\* Nothing has been run for a press that has just begun.
LEMMA NotRunType == NotRun \in [Gesture -> 0 .. Many] /\ \A g \in Gesture : NotRun[g] = 0
  BY DEF NotRun, Many

LEMMA OnceType ==
    ASSUME NEW g \in Gesture
    PROVE  /\ Once(g) \in [Gesture -> 0 .. Many]
           /\ \A x \in Gesture : Once(g)[x] = IF x = g THEN 1 ELSE 0
  BY DEF Once, NotRun, Many

\* OneGesturePerPress speaks of no more than the button's state and the ghost: what a
\* step that runs `out` for a press must be, for the property to hold after it.
LEMMA Counted ==
    ASSUME IInv, repeat' = repeat, NEW out \in {"none", "single", "long"},
           /\ out = "none" => ran' = ran
           /\ out # "none" => /\ ran'[out] > 0
                              /\ \A g \in Gesture \ {out} : ran'[g] = ran[g]
           /\ out # "none" /\ ran = NotRun => ran' = Once(out),
           \/ out = "none" /\ Undecided(det') = Undecided(det)
           \/ out # "none" /\ Undecided(det) /\ ~Undecided(det')
           \/ /\ repeat /\ out # "none" /\ Undecided(det') = Undecided(det)
              /\ ran["double"] = 0 /\ (Undecided(det) => out = "single")
    PROVE  OneGesturePerPress'
  <1> USE DEF Gesture
  <1>r. repeat \in BOOLEAN /\ ran \in [Gesture -> 0 .. Many]
    BY DEF IInv, TypeOK
  <1>1. CASE out = "none"
    BY <1>1 DEF IInv, OneGesturePerPress
  <1>2. CASE out # "none" /\ Undecided(det) /\ ~Undecided(det')
    <2>1. CASE repeat
      <3>1. ran["double"] = 0
        BY <1>2, <2>1 DEF IInv, OneGesturePerPress
      <3>2. ran'["double"] = 0 /\ (ran'["single"] > 0 \/ ran'["long"] > 0)
        BY <1>2, <3>1
      <3> QED BY <1>2, <2>1, <3>2 DEF OneGesturePerPress
    <2>2. CASE ~repeat
      <3>1. ran = NotRun
        BY <1>2, <2>2 DEF IInv, OneGesturePerPress
      <3>2. ran' = Once("single") \/ ran' = Once("long")
        BY <1>2, <3>1
      <3> QED BY <1>2, <2>2, <3>2 DEF OneGesturePerPress
    <2> QED BY <2>1, <2>2
  <1>3. CASE /\ repeat /\ out # "none" /\ Undecided(det') = Undecided(det)
             /\ ran["double"] = 0 /\ (Undecided(det) => out = "single")
    <2>1. ran'["double"] = 0 /\ (ran'["single"] > 0 \/ ran'["long"] > 0)
      BY <1>3
    <2>2. CASE Undecided(det)
      <3>1. ran["long"] = 0
        BY <1>3, <2>2 DEF IInv, OneGesturePerPress
      <3>2. ran'["long"] = 0
        BY <1>3, <2>2, <3>1
      <3> QED BY <1>3, <2>1, <2>2, <3>2 DEF OneGesturePerPress
    <2>3. CASE ~Undecided(det)
      BY <1>3, <2>1, <2>3 DEF OneGesturePerPress
    <2> QED BY <2>2, <2>3
  <1> QED BY <1>1, <1>2, <1>3

\* Every step of the detector keeps IInv.
LEMMA IInvInductive ==
    ASSUME IInv, [Next]_vars
    PROVE  IInv'
  <1> USE TimingAssumption DEF IInv
  <1>d. /\ det \in Detector /\ ran \in [Gesture -> 0 .. Many] /\ button \in {"up", "down"}
        /\ gesture \in Gesture \union {"none"} /\ repeat \in BOOLEAN
    BY DEF TypeOK
  <1>1. CASE PressEvent
    <2>1. /\ Call(Press(det), NotRun) /\ repeat' = repeat
          /\ button = "up" /\ button' = "down"
      BY <1>1 DEF PressEvent, Feed
    <2>2. Press(det).det \in Detector /\ Press(det).out \in Gesture \union {"none"}
      BY <1>d, PressType DEF Gesture
    <2>3. /\ det' = Press(det).det /\ gesture' = Press(det).out
          /\ ran' \in [Gesture -> 0 .. Many]
          /\ Press(det).out = "none" => ran' = NotRun
          /\ Press(det).out # "none" => ran' = Once(Press(det).out)
      BY <2>1, <2>2, CallCounts, NotRunType
    <2>4. /\ det'.down /\ det'.pendingFor = None /\ ~det'.longFired
          /\ IF det.pendingFor # None THEN det'.doubleFired /\ Press(det).out = "double"
                                      ELSE ~det'.doubleFired /\ Press(det).out = "none"
      BY <2>3 DEF Press, Returns
    <2>5. TypeOK' /\ ClickNotHeld'
      BY <1>d, <2>1, <2>2, <2>3, <2>4 DEF TypeOK, ClickNotHeld
    <2>6. NotRun["double"] = 0 /\ NotRun["long"] = 0
      BY NotRunType DEF Gesture
    <2>7. CASE det.pendingFor # None
      <3>1. ran' = Once("double") /\ det'.doubleFired
        BY <2>3, <2>4, <2>7
      <3>2. ~Undecided(det')
        BY <2>4, <3>1 DEF Undecided
      <3> QED BY <2>5, <3>1, <3>2 DEF DoubleIsDoubles, OneGesturePerPress
    <2>8. CASE det.pendingFor = None
      <3>1. ran' = NotRun /\ ~det'.doubleFired
        BY <2>3, <2>4, <2>8
      <3>2. Undecided(det')
        BY <2>4, <3>1 DEF Undecided
      <3> QED BY <2>5, <2>6, <3>1, <3>2 DEF DoubleIsDoubles, OneGesturePerPress
    <2> QED BY <2>7, <2>8
  <1>2. CASE ReleaseEvent
    <2>1. Call(Release(det), ran) /\ button' = "up" /\ repeat' = repeat
      BY <1>2 DEF ReleaseEvent, Feed
    <2>2. Release(det).det \in Detector /\ Release(det).out \in {"none", "long"}
      BY <1>d, ReleaseType
    <2>3. TypeOK' /\ det' = Release(det).det
      BY <1>d, <2>1, <2>2, CallCounts DEF TypeOK, Gesture
    <2>4. ~det'.down
      BY <1>d, <2>3 DEF Release, Up, Returns
    <2>5. \/ Release(det).out = "none" /\ Undecided(det') = Undecided(det)
          \/ Release(det).out # "none" /\ Undecided(det) /\ ~Undecided(det')
      BY <1>d, <2>3
         DEF ClickNotHeld, Undecided, Release, Up, HeldLong, Returns, Detector, None
    <2>6. OneGesturePerPress'
      BY <1>d, <2>1, <2>2, <2>5, CallCounts, Counted DEF Gesture
    <2> QED BY <2>3, <2>4, <2>6 DEF ClickNotHeld, DoubleIsDoubles
  <1>3. CASE RepeatEvent
    <2>1. /\ button = "down" /\ button' = "down" /\ repeat' = repeat
          /\ Call(IF repeat THEN AutoRepeat(det) ELSE Returns(det, "none"), ran)
      BY <1>3 DEF RepeatEvent, Feed
    <2>2. CASE ~repeat
      <3>1. Call(Returns(det, "none"), ran) /\ Returns(det, "none").out = "none"
            /\ Returns(det, "none").det = det
        BY <2>1, <2>2 DEF Returns
      <3>2. UNCHANGED <<det, ran>> /\ gesture' = "none"
        BY <1>d, <3>1 DEF Call
      <3> QED BY <2>1, <3>2
              DEF TypeOK, ClickNotHeld, DoubleIsDoubles, OneGesturePerPress
    <2>3. CASE repeat
      <3>1. Call(AutoRepeat(det), ran)
        BY <2>1, <2>3
      <3>2. /\ AutoRepeat(det).det \in Detector
            /\ AutoRepeat(det).out \in {"none", "single", "long"}
        BY <1>d, AutoRepeatType DEF AutoRepeat, Returns
      <3>3. TypeOK' /\ det' = AutoRepeat(det).det
        BY <1>d, <2>1, <3>1, <3>2, CallCounts DEF TypeOK, Gesture
      <3>4. /\ det'.down = det.down /\ det'.pendingFor = det.pendingFor
            /\ det'.doubleFired = det.doubleFired
        BY <1>d, <3>3 DEF AutoRepeat, Returns, Detector
      <3>5. \/ AutoRepeat(det).out = "none" /\ Undecided(det') = Undecided(det)
            \/ AutoRepeat(det).out # "none" /\ Undecided(det) /\ ~Undecided(det')
            \/ /\ repeat /\ AutoRepeat(det).out # "none" /\ Undecided(det') = Undecided(det)
               /\ ran["double"] = 0 /\ (Undecided(det) => AutoRepeat(det).out = "single")
        BY <1>d, <2>3, <3>3
           DEF ClickNotHeld, DoubleIsDoubles, Undecided, AutoRepeat, Returns, Detector
      <3>6. /\ AutoRepeat(det).out = "none" => ran' = ran
            /\ AutoRepeat(det).out # "none" =>
                  \A g \in Gesture \ {AutoRepeat(det).out} : ran'[g] = ran[g]
        BY <1>d, <3>1, <3>2, CallCounts DEF Gesture
      <3>7. ran'["double"] = ran["double"]
        BY <3>2, <3>6 DEF Gesture
      <3>8. OneGesturePerPress'
        BY <1>d, <2>1, <3>1, <3>2, <3>5, CallCounts, Counted DEF Gesture
      <3> QED BY <2>1, <3>3, <3>4, <3>7, <3>8 DEF ClickNotHeld, DoubleIsDoubles
    <2> QED BY <1>d, <2>2, <2>3
  <1>4. CASE Flush
    <2>1. Call(TickAt(det), ran) /\ button' = button /\ repeat' = repeat
      BY <1>4 DEF Flush
    <2>2. TickAt(det).det \in Detector /\ TickAt(det).out \in {"none", "single", "long"}
      BY <1>d, TickType
    <2>3. TypeOK' /\ det' = TickAt(det).det
      BY <1>d, <2>1, <2>2, CallCounts DEF TypeOK, Gesture
    <2>4. \/ TickAt(det).out = "none" /\ Undecided(det') = Undecided(det)
          \/ TickAt(det).out # "none" /\ Undecided(det) /\ ~Undecided(det')
      BY <1>d, <2>3 DEF ClickNotHeld, Undecided, TickAt, HeldLong, Returns, Detector, None
    <2>5. OneGesturePerPress'
      BY <1>d, <2>1, <2>2, <2>4, CallCounts, Counted DEF Gesture
    <2>6. /\ det'.down = det.down /\ det'.doubleFired = det.doubleFired
          /\ det'.pendingFor \in {det.pendingFor, None}
      BY <1>d, <2>3 DEF TickAt, Returns, Detector
    <2>7. ran'["double"] = ran["double"]
      BY <1>d, <2>1, <2>2, CallCounts DEF Gesture
    <2> QED BY <2>1, <2>3, <2>5, <2>6, <2>7 DEF ClickNotHeld, DoubleIsDoubles
  <1>5. CASE Elapse
    <2>1. TypeOK'
      BY <1>5, <1>d, OlderType DEF TypeOK, Elapse
    <2>2. /\ det'.down = det.down /\ det'.doubleFired = det.doubleFired
          /\ det'.longFired = det.longFired
          /\ (det'.pendingFor = None) = (det.pendingFor = None)
      BY <1>5, <1>d DEF Elapse, Older, Sooner, Detector, None
    <2>3. Undecided(det') = Undecided(det) /\ UNCHANGED <<repeat, button, ran>>
      BY <1>5, <2>2 DEF Undecided, Elapse
    <2> QED BY <2>1, <2>2, <2>3 DEF ClickNotHeld, DoubleIsDoubles, OneGesturePerPress
  <1>6. CASE UNCHANGED vars
    BY <1>6 DEF vars, TypeOK, ClickNotHeld, DoubleIsDoubles, OneGesturePerPress
  <1> QED BY <1>1, <1>2, <1>3, <1>4, <1>5, <1>6 DEF Next

LEMMA IInvInitial == Init => IInv
  <1> SUFFICES ASSUME Init PROVE IInv
    OBVIOUS
  <1>1. ran \in [Gesture -> 0 .. Many] /\ ran["double"] = 0 /\ ran["single"] = 1
    BY OnceType DEF Init, Gesture
  <1>2. det \in Detector
    BY TimingAssumption DEF Init, Configured, Detector, None
  <1> QED BY <1>1, <1>2
          DEF Init, IInv, TypeOK, ClickNotHeld, DoubleIsDoubles, OneGesturePerPress,
              Undecided, Configured, None, Gesture

LEMMA IInvAlways == Spec => []IInv
  BY IInvInitial, IInvInductive, PTL DEF Spec

-----------------------------------------------------------------------------
\* The fields of the detector, and the ghosts, keep their types.
THEOREM DetectorTypes == Spec => []TypeOK
  BY IInvAlways, PTL DEF IInv

\* deadlineMs() is due exactly when tick() would fire, with auto-repeat and without.
THEOREM DeadlineIsExact == Spec => []DeadlineExact
  <1>1. IInv => DeadlineExact
    BY TimingAssumption
       DEF IInv, TypeOK, Detector, ClickNotHeld, DeadlineExact, Deadline, TickAt, HeldLong,
           Returns, None
  <1> QED BY <1>1, IInvAlways, PTL

\* What a press may run, whatever the thresholds and in every order of clock, release,
\* second press and repeats: without auto-repeat exactly one gesture; with it no more
\* than singles before the hold is decided, and a double click still exactly once.
THEOREM OneGesture == Spec => []OneGesturePerPress
  BY IInvAlways, PTL DEF IInv

-----------------------------------------------------------------------------
\* Every step of the detector is a step of the automaton, or a stutter of it.
LEMMA StepSimulation ==
    ASSUME IInv, [Next]_vars
    PROVE  [Abstract!Next]_(Abstract!vars)
  <1> USE TimingAssumption
  <1> USE DEF Abstract!Next, Abstract!vars, Abstract!Step, Phase, IInv, TypeOK, Detector,
              Returns, None
  <1>1. CASE PressEvent
    <2>1. CASE det.pendingFor = None /\ ~det.down
      BY <1>1, <2>1 DEF PressEvent, Call, Feed, Press, Abstract!FirstPress
    <2>2. CASE det.pendingFor # None
      <3>1. Phase(det) = "waiting"
        BY <2>2 DEF ClickNotHeld
      <3>2. det'.down /\ gesture' = "double" /\ det'.doubleFired = (det.pendingFor # None)
        BY <1>1, <2>2 DEF PressEvent, Call, Feed, Press
      <3> QED BY <1>1, <2>2, <3>1, <3>2 DEF PressEvent, Abstract!SecondPress
    <2> QED BY <1>1, <2>1, <2>2 DEF PressEvent, ClickNotHeld
  <1>2. CASE ReleaseEvent
    BY <1>2 DEF ReleaseEvent, Call, Feed, Release, Up, HeldLong, ClickNotHeld,
                Abstract!ReleaseLong, Abstract!ReleaseClick, Abstract!ReleaseAfter,
                Abstract!Nothing
  <1>3. CASE RepeatEvent
    <2>u. repeat' = repeat
      BY <1>3 DEF RepeatEvent
    <2>1. CASE det' = det /\ gesture' = "none"
      BY <2>u, <2>1 DEF Abstract!Nothing
    <2>2. CASE repeat /\ det' = AutoRepeat(det).det /\ gesture' = AutoRepeat(det).out
      <3>1. CASE ~det.down \/ det.doubleFired
        BY <2>u, <2>2, <3>1 DEF AutoRepeat, Abstract!Nothing
      <3>2. CASE det.down /\ ~det.doubleFired /\ det.longFired
        BY <2>u, <2>2, <3>2 DEF AutoRepeat, Abstract!RerunLong
      <3>3. CASE det.down /\ ~det.doubleFired /\ ~det.longFired
        BY <2>u, <2>2, <3>3 DEF AutoRepeat, Abstract!HeldLong, Abstract!RerunSingle
      <3> QED BY <3>1, <3>2, <3>3
    <2> QED BY <1>3, <2>1, <2>2 DEF RepeatEvent, Feed, Call
  <1>4. CASE Flush
    BY <1>4 DEF Flush, Call, TickAt, HeldLong, ClickNotHeld, Abstract!HeldLong,
                Abstract!WindowOver, Abstract!Nothing
  <1>5. CASE Elapse
    BY <1>5 DEF Elapse, Older, Sooner, Abstract!Nothing
  <1>6. CASE UNCHANGED vars
    BY <1>6 DEF vars
  <1> QED BY <1>1, <1>2, <1>3, <1>4, <1>5, <1>6 DEF Next

\* The detector implements the automaton of five phases: of a double click nothing more
\* comes, of a long press only that again, and of an undecided hold only singles.
THEOREM Refinement == Spec => ImplementsGestures
  <1>1. Init => Abstract!Init
    BY DEF Init, Abstract!Init, Phase, Configured, None
  <1> QED BY <1>1, IInvAlways, StepSimulation, PTL
          DEF Spec, ImplementsGestures, Abstract!Spec
=============================================================================
