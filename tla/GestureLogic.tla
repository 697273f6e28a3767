---------------------------- MODULE GestureLogic ----------------------------
(***************************************************************************)
(* The gesture detector of one pen button (src/src/stylusgestures.cpp), as *)
(* a pure function of its fields.                                          *)
(*                                                                         *)
(* The code keeps absolute times and only ever compares `now - time` with  *)
(* a threshold, so a detector holds the AGE of each time in ticks, capped  *)
(* at the threshold it is compared with:                                   *)
(*     heldFor      = min(now - m_pressedAt, longPressMs)                  *)
(*     pendingFor   = min(now - m_pendingSingle, doubleClickMs), or None   *)
(* A handler returns [det, out]: the detector after the call and the       *)
(* gesture it returns, or "none".                                          *)
(***************************************************************************)
EXTENDS Integers

CONSTANTS DoubleClickMs, LongPressMs

\* appconfig.cpp clamps both thresholds to 50..10000 ms: never zero.
ASSUME TimingAssumption == DoubleClickMs \in Nat \ {0} /\ LongPressMs \in Nat \ {0}

None == -1

Gesture == {"single", "double", "long"}

Detector ==
    [down : BOOLEAN, longFired : BOOLEAN, doubleFired : BOOLEAN,
     heldFor : 0 .. LongPressMs, pendingFor : {None} \union 0 .. DoubleClickMs]

\* ButtonGestureDetector::configure: a clean slate.
Configured ==
    [down |-> FALSE, longFired |-> FALSE, doubleFired |-> FALSE,
     heldFor |-> 0, pendingFor |-> None]

Returns(d, g) == [det |-> d, out |-> g]

\* The detector once the button is released.
Up(d, longFired, pendingFor) ==
    [down |-> FALSE, longFired |-> longFired, doubleFired |-> FALSE,
     heldFor |-> d.heldFor, pendingFor |-> pendingFor]

HeldLong(d) == d.heldFor >= LongPressMs

\* The hold, or the click held back, has produced nothing yet.
Undecided(d) == \/ d.down /\ ~d.longFired /\ ~d.doubleFired
                \/ d.pendingFor # None

-----------------------------------------------------------------------------
\* Mutants: the bugs the runs must notice.

RepeatAfterDouble(d) ==
    IF ~d.down THEN Returns(d, "none")
    ELSE IF d.longFired \/ HeldLong(d) THEN Returns([d EXCEPT !.longFired = TRUE], "long")
    ELSE Returns(d, "single")

ReleaseForgetsLongFired(d) ==
    IF ~d.down THEN Returns(d, "none")
    ELSE IF d.doubleFired THEN Returns(Up(d, d.longFired, d.pendingFor), "none")
    ELSE IF HeldLong(d) THEN Returns(Up(d, TRUE, d.pendingFor), "long")
    ELSE Returns(Up(d, d.longFired, 0), "none")

TickWindowOffByOne(d) ==
    IF d.down /\ ~d.doubleFired /\ ~d.longFired /\ HeldLong(d)
    THEN Returns([d EXCEPT !.longFired = TRUE], "long")
    ELSE IF ~d.down /\ d.pendingFor > DoubleClickMs
         THEN Returns([d EXCEPT !.pendingFor = None], "single")
         ELSE Returns(d, "none")

DeadlineOfDoubleToo(d) ==
    IF d.down /\ ~d.longFired THEN LongPressMs - d.heldFor
    ELSE IF d.pendingFor # None THEN DoubleClickMs - d.pendingFor ELSE None

OlderUncapped(d) ==
    [d EXCEPT !.heldFor = IF d.down THEN @ + 1 ELSE @,
              !.pendingFor = IF @ = None THEN None ELSE @ + 1]

-----------------------------------------------------------------------------
(***************************************************************************)
(* The handlers.                                                           *)
(***************************************************************************)

\* A pending single makes this press the second click of a double click,
\* however old it is.
Press(d) ==
    LET second == d.pendingFor # None
    IN  Returns([down |-> TRUE, longFired |-> FALSE, doubleFired |-> second,
                 heldFor |-> 0, pendingFor |-> None],
                IF second THEN "double" ELSE "none")

Release(d) ==
    IF ~d.down THEN Returns(d, "none")
    ELSE IF d.doubleFired \/ d.longFired THEN Returns(Up(d, d.longFired, d.pendingFor), "none")
    ELSE IF HeldLong(d) THEN Returns(Up(d, TRUE, d.pendingFor), "long")
    ELSE Returns(Up(d, FALSE, 0), "none")

AutoRepeat(d) ==
    IF ~d.down \/ d.doubleFired THEN Returns(d, "none")
    ELSE IF d.longFired \/ HeldLong(d) THEN Returns([d EXCEPT !.longFired = TRUE], "long")
    ELSE Returns(d, "single")

TickAt(d) ==
    IF d.down /\ ~d.doubleFired /\ ~d.longFired /\ HeldLong(d)
    THEN Returns([d EXCEPT !.longFired = TRUE], "long")
    ELSE IF ~d.down /\ d.pendingFor >= DoubleClickMs
         THEN Returns([d EXCEPT !.pendingFor = None], "single")
         ELSE Returns(d, "none")

\* feed(value): 0 release, 1 press, 2 auto-repeat.
Feed(d, value) == CASE value = 0 -> Release(d)
                    [] value = 1 -> Press(d)
                    [] OTHER     -> AutoRepeat(d)

\* deadlineMs() - now, or None.
Deadline(d) ==
    LET hold  == IF d.down /\ ~d.doubleFired /\ ~d.longFired
                 THEN LongPressMs - d.heldFor ELSE None
        click == IF d.pendingFor # None THEN DoubleClickMs - d.pendingFor ELSE None
    IN  IF click # None /\ (hold = None \/ click < hold) THEN click ELSE hold

Sooner(a, cap) == IF a < cap THEN a + 1 ELSE cap

\* One tick of the clock passes.
Older(d) ==
    [d EXCEPT !.heldFor = IF d.down THEN Sooner(@, LongPressMs) ELSE @,
              !.pendingFor = IF @ = None THEN None ELSE Sooner(@, DoubleClickMs)]
=============================================================================
