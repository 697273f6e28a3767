------------------------------ MODULE Gestures ------------------------------
(***************************************************************************)
(* What the detector promises of one button: an automaton of five phases.  *)
(* Every press is followed by exactly one verdict -- single, double or     *)
(* long -- and a double click consumes two presses.  Auto-repeat, where it *)
(* is mapped, re-runs a long press that has resolved and runs a single of  *)
(* a hold that has not; of a double click it runs nothing.  No clock: when *)
(* a verdict falls due is the detector's concern.                          *)
(***************************************************************************)
VARIABLES repeat,   \* auto-repeat is mapped
          phase,    \* idle, held (undecided), long and double (decided, still down), waiting
          gesture   \* the verdict the last step gave, or "none"

vars == <<repeat, phase, gesture>>

Init == repeat \in BOOLEAN /\ phase = "idle" /\ gesture = "none"

Step(from, to, g) == phase = from /\ phase' = to /\ gesture' = g /\ repeat' = repeat

FirstPress   == Step("idle", "held", "none")
SecondPress  == Step("waiting", "double", "double")
HeldLong     == Step("held", "long", "long")
ReleaseLong  == Step("held", "idle", "long")
ReleaseClick == Step("held", "waiting", "none")
ReleaseAfter == Step("long", "idle", "none") \/ Step("double", "idle", "none")
WindowOver   == Step("waiting", "idle", "single")

RerunSingle  == repeat /\ Step("held", "held", "single")
RerunLong    == repeat /\ Step("long", "long", "long")

\* A call that finds nothing to do.
Nothing == phase' = phase /\ gesture' = "none" /\ repeat' = repeat

Next == \/ FirstPress \/ SecondPress \/ HeldLong \/ ReleaseLong
        \/ ReleaseClick \/ ReleaseAfter \/ WindowOver
        \/ RerunSingle \/ RerunLong \/ Nothing

Spec == Init /\ [][Next]_vars
=============================================================================
