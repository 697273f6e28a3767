-------------------------- MODULE GestureDetector --------------------------
(***************************************************************************)
(* One ButtonGestureDetector with its callers: the key events the kernel   *)
(* sends while the user works the button, and the flush of due gestures at *)
(* the end of each turn of the poll loop (stylusbuttons.cpp).              *)
(***************************************************************************)
EXTENDS GestureLogic

VARIABLES repeat,   \* the `repeat` option, read once at start: auto-repeat events are fed
          det,      \* the detector's fields
          button,   \* the physical button, "up" or "down"
          gesture,  \* what the last call returned
          ran       \* ghost: how often each gesture was run for the last press

vars == <<repeat, det, button, gesture, ran>>

Many == 2           \* the count stops here

NotRun  == [g \in Gesture |-> 0]
Once(g) == [NotRun EXCEPT ![g] = 1]

\* The pen may attach with its button already held: a press nobody read, which
\* counts as one that is over.
Init == /\ repeat \in BOOLEAN
        /\ det = Configured
        /\ button \in {"up", "down"}
        /\ gesture = "none"
        /\ ran = Once("single")

\* A call that returned r; `before` is what was run for the press before it.
Call(r, before) ==
    /\ det' = r.det
    /\ gesture' = r.out
    /\ ran' = IF r.out = "none" THEN before
              ELSE [before EXCEPT ![r.out] = Sooner(@, Many)]

PressEvent == /\ button = "up"
              /\ button' = "down"
              /\ Call(Feed(det, 1), NotRun)
              /\ UNCHANGED repeat

ReleaseEvent == /\ button = "down"
                /\ button' = "up"
                /\ Call(Feed(det, 0), ran)
                /\ UNCHANGED repeat

\* StylusButtonMonitor::feed drops auto-repeat unless the option is set.
RepeatEvent == /\ button = "down"
               /\ Call(IF repeat THEN Feed(det, 2) ELSE Returns(det, "none"), ran)
               /\ UNCHANGED <<repeat, button>>

Flush == /\ Call(TickAt(det), ran)
         /\ UNCHANGED <<repeat, button>>

Elapse == /\ det' = Older(det)
          /\ gesture' = "none"
          /\ UNCHANGED <<repeat, button, ran>>

Next == PressEvent \/ ReleaseEvent \/ RepeatEvent \/ Flush \/ Elapse

\* The poll loop sleeps no longer than the earliest deadline, so time passes
\* and a due gesture is flushed; the user owes nothing.
Spec == Init /\ [][Next]_vars /\ WF_vars(Elapse) /\ WF_vars(Flush)

-----------------------------------------------------------------------------
TypeOK == /\ repeat \in BOOLEAN
          /\ det \in Detector
          /\ button \in {"up", "down"}
          /\ gesture \in Gesture \union {"none"}
          /\ ran \in [Gesture -> 0 .. Many]

\* "One press produces at most one gesture" (stylusgestures.h), and no press is
\* lost: whatever any call returned is counted, and it is nothing while the press
\* is undecided and one gesture after.  The second press of a double click speaks
\* for both.  This is so without auto-repeat only.  With it the header says that
\* repeats re-run what the hold already resolved to, but repeat() runs `single`
\* for a hold that has resolved to nothing, any number of times, and the hold may
\* fire `long`, or click, after that.  What then remains: an undecided press has
\* run nothing but singles, a double click runs once and alone, and every press
\* that is decided has run something.
OneGesturePerPress ==
    IF Undecided(det)
    THEN IF repeat THEN ran["double"] = 0 /\ ran["long"] = 0 ELSE ran = NotRun
    ELSE \/ ran = Once("double")
         \/ ~repeat /\ (ran = Once("single") \/ ran = Once("long"))
         \/ repeat /\ ran["double"] = 0 /\ (ran["single"] > 0 \/ ran["long"] > 0)

\* deadlineMs() drives the poll timeout: it is due exactly when tick() would
\* fire, so the loop neither spins on a deadline nothing answers nor sleeps
\* past a gesture that is due.
DeadlineExact == (Deadline(det) = 0) <=> (TickAt(det).out # "none")

\* Every press gets its verdict, even if the user never touches the pen again.
EveryPressDecided == Undecided(det) ~> ~Undecided(det)

-----------------------------------------------------------------------------
(***************************************************************************)
(* The detector implements the automaton of Gestures.                      *)
(***************************************************************************)
Phase(d) == CASE d.down /\ d.doubleFired                     -> "double"
              [] d.down /\ ~d.doubleFired /\ d.longFired     -> "long"
              [] d.down /\ ~(d.longFired \/ d.doubleFired)   -> "held"
              [] ~d.down /\ d.pendingFor # None              -> "waiting"
              [] OTHER                                       -> "idle"

Abstract == INSTANCE Gestures WITH phase <- Phase(det)

ImplementsGestures == Abstract!Spec
=============================================================================
