---------------------------- MODULE PopupProofs ----------------------------
(***************************************************************************)
(* The popup's safety for every dismiss time, error hold and connect       *)
(* timeout, 0 ("wait forever") included.                                   *)
(*                                                                         *)
(* No conjunct of IInv is inductive alone.  "An attempt is starting" on a  *)
(* paired pill starts no timer: that the pill still has a deadline rests   *)
(* on the connect timer being off while paired (DeadlineOnlyWhileWaiting)  *)
(* and the error timer off outside the error (ErrorHoldIsTheErrors), so    *)
(* the one ShownHasDeadline names is the dismiss timer.  A report after    *)
(* giving up stops the dismiss timer: that a pill left up has a deadline   *)
(* rests on its being the error (GivenUpIsDown).                           *)
(***************************************************************************)
EXTENDS Popup, TLAPS

FlagTypes  == /\ attached \in BOOLEAN /\ phase \in Phases
              /\ btPaired \in BOOLEAN /\ gaveUp \in BOOLEAN /\ mode \in Modes
TimerTypes == /\ dismissTimer \in Off .. DismissMs
              /\ connectTimer \in Off .. ConnectTimeoutMs
              /\ errorTimer \in Off .. ErrorHoldMs

\* What relates the timers to the mode and the flags.
Timely == /\ ShownHasDeadline /\ DeadlineOnlyWhileWaiting
          /\ ErrorHoldIsTheErrors /\ GivenUpIsDown /\ HiddenIsQuiet

IInv == FlagTypes /\ TimerTypes /\ Timely

LEMMA IInvInitial == PopupInit => IInv
  <1>1. PopupInit => FlagTypes
    BY DEF PopupInit, FlagTypes, Phases, Modes
  <1>2. PopupInit => TimerTypes
    BY TimeoutAssumption DEF PopupInit, TimerTypes, Off
  <1>3. PopupInit => Timely
    BY DEF PopupInit, Timely, ShownHasDeadline, DeadlineOnlyWhileWaiting,
           ErrorHoldIsTheErrors, GivenUpIsDown, HiddenIsQuiet, Shown
  <1> QED BY <1>1, <1>2, <1>3 DEF IInv

\* The flags and the mode keep their types.
LEMMA FlagsInductive ==
    ASSUME IInv, [Next]_popupVars
    PROVE  FlagTypes'
  <1> USE DEF IInv, FlagTypes, Modes
  <1>1. CASE DriverReport
    <2>1. ASSUME NEW ph \in Phases, Detached(ph) PROVE FlagTypes'
      BY <2>1 DEF Detached, EndWaiting, ShowError, Collapse
    <2>2. ASSUME NEW ph \in Phases, Reported(ph) PROVE FlagTypes'
      BY <2>2 DEF Reported, Present, Refresh, SetMode, ModeFor
    <2> QED BY <1>1, <2>1, <2>2 DEF DriverReport, ShowState
  <1>2. CASE OnConnectAttemptStarted
    BY <1>2 DEF OnConnectAttemptStarted, popupVars, Present, SetMode, ModeFor
  <1>3. CASE OnBtPaired
    BY <1>3 DEF OnBtPaired, popupVars, SetMode
  <1>4. CASE OnBtConnectionFailed \/ OnConnectTimeout
    BY <1>4 DEF OnBtConnectionFailed, OnConnectTimeout, EndWaiting, ShowError, Collapse
  <1>5. CASE OnDismissTimeout \/ OnErrorTimeout
    BY <1>5 DEF OnDismissTimeout, OnErrorTimeout, Collapse
  <1>6. CASE PopupTick \/ UNCHANGED popupVars
    BY <1>6 DEF PopupTick, popupVars
  <1> QED BY <1>1, <1>2, <1>3, <1>4, <1>5, <1>6 DEF Next

\* What endWaiting() does, whatever the reason.
WaitEnded ==
    \/ /\ ~Shown
       /\ connectTimer' = Off /\ dismissTimer' \in {dismissTimer, Off}
       /\ UNCHANGED <<mode, errorTimer>>
    \/ Shown /\ ShowError
    \/ Shown /\ Collapse

LEMMA WaitEndedKeeps ==
    ASSUME IInv, WaitEnded
    PROVE  TimerTypes' /\ Timely'
  <1> USE TimeoutAssumption
          DEF Off, IInv, TimerTypes, Timely, ShownHasDeadline, DeadlineOnlyWhileWaiting,
              ErrorHoldIsTheErrors, GivenUpIsDown, HiddenIsQuiet, Shown
  <1>1. CASE /\ ~Shown
             /\ connectTimer' = Off /\ dismissTimer' \in {dismissTimer, Off}
             /\ UNCHANGED <<mode, errorTimer>>
    BY <1>1
  <1>2. CASE Shown /\ ShowError
    BY <1>2 DEF ShowError
  <1>3. CASE Shown /\ Collapse
    BY <1>3 DEF Collapse
  <1> QED BY <1>1, <1>2, <1>3 DEF WaitEnded

\* present() opens a wait, or a moment for a paired pen.
LEMMA PresentKeeps ==
    ASSUME IInv, NEW d, d = dismissTimer \/ d = Off,
           attached' = TRUE, phase' \in Phases, btPaired' \in BOOLEAN, gaveUp' = FALSE,
           mode \in {"Hidden", "Error"},
           Present(TRUE, phase', btPaired', d)
    PROVE  TimerTypes' /\ Timely'
  <1> USE TimeoutAssumption DEF Off
  <1>1. connectTimer = Off
    BY DEF IInv, Timely, DeadlineOnlyWhileWaiting
  <1>2. PICK m \in {"Compact", "Expanded"} :
           /\ SetMode(m)
           /\ IF btPaired' THEN connectTimer' = Off /\ dismissTimer' = DismissMs
                           ELSE connectTimer' = Armed /\ dismissTimer' = DismissAfter(m, d)
    BY DEF Present, ModeFor
  <1>3. mode' = m /\ errorTimer' = Off
    BY <1>2 DEF SetMode
  <1>4. connectTimer' = IF btPaired' \/ ConnectTimeoutMs = 0 THEN Off ELSE ConnectTimeoutMs
    BY <1>1, <1>2 DEF Armed
  <1>5. dismissTimer' \in {d, DismissMs} /\ (btPaired' => dismissTimer' = DismissMs)
    BY <1>2 DEF DismissAfter
  <1> QED
    BY <1>2, <1>3, <1>4, <1>5
       DEF IInv, TimerTypes, Timely, ShownHasDeadline, DeadlineOnlyWhileWaiting,
           ErrorHoldIsTheErrors, GivenUpIsDown, HiddenIsQuiet, Shown

\* A report about a pen whose pill is up neither restarts nor drops its wait.
LEMMA RefreshKeeps ==
    ASSUME IInv, mode \in {"Compact", "Expanded"},
           attached' = TRUE, phase' \in Phases, btPaired' \in BOOLEAN, gaveUp' = FALSE,
           Refresh(TRUE, phase', btPaired')
    PROVE  TimerTypes' /\ Timely'
  <1> USE TimeoutAssumption DEF Off
  <1>1. mode' \in {"Compact", "Expanded"} /\ errorTimer' = Off
    BY DEF Refresh, SetMode, ModeFor, IInv, Timely, ErrorHoldIsTheErrors
  <1>2. /\ btPaired' => connectTimer' = Off /\ dismissTimer' = DismissMs
        /\ ~btPaired' => /\ dismissTimer' = Off
                         /\ connectTimer' \in {connectTimer, ConnectTimeoutMs}
                         /\ ConnectTimeoutMs > 0 => connectTimer' # Off
                         /\ connectTimer' \in Off .. ConnectTimeoutMs
    BY DEF Refresh, Armed, IInv, TimerTypes
  <1> QED
    BY <1>1, <1>2
       DEF IInv, TimerTypes, Timely, ShownHasDeadline, DeadlineOnlyWhileWaiting,
           ErrorHoldIsTheErrors, GivenUpIsDown, HiddenIsQuiet, Shown

-----------------------------------------------------------------------------
\* Every step keeps the timers in step with the mode and the flags.
LEMMA TimelyInductive ==
    ASSUME IInv, [Next]_popupVars
    PROVE  TimerTypes' /\ Timely'
  <1> USE TimeoutAssumption DEF Off
  <1>t. attached \in BOOLEAN /\ phase \in Phases /\ btPaired \in BOOLEAN /\ gaveUp \in BOOLEAN
        /\ mode \in Modes
    BY DEF IInv, FlagTypes
  <1>1. ASSUME NEW ph \in Phases, Detached(ph) PROVE TimerTypes' /\ Timely'
    BY <1>1, WaitEndedKeeps DEF Detached, EndWaiting, WaitEnded
  <1>2. ASSUME NEW ph \in Phases, Reported(ph) PROVE TimerTypes' /\ Timely'
    <2>1. /\ attached' = TRUE /\ phase' = ph
          /\ btPaired' = (btPaired /\ ph # "attaching")
          /\ gaveUp' = (gaveUp /\ ph # "attaching")
      BY <1>2 DEF Reported
    <2>2. btPaired' \in BOOLEAN /\ gaveUp' \in BOOLEAN
      BY <2>1
    <2>3. CASE gaveUp' /\ dismissTimer' = Off /\ UNCHANGED <<mode, connectTimer, errorTimer>>
      <3>1. gaveUp /\ connectTimer = Off
        BY <2>1, <2>3 DEF IInv, Timely, DeadlineOnlyWhileWaiting
      <3> QED
        BY <2>3, <3>1
           DEF IInv, TimerTypes, Timely, ShownHasDeadline, DeadlineOnlyWhileWaiting,
               ErrorHoldIsTheErrors, GivenUpIsDown, HiddenIsQuiet, Shown
    <2>4. CASE ~gaveUp' /\ mode \in {"Hidden", "Error"} /\ Present(TRUE, ph, btPaired', Off)
      BY <2>1, <2>2, <2>4, PresentKeeps
    <2>5. CASE ~gaveUp' /\ mode \in {"Compact", "Expanded"} /\ Refresh(TRUE, ph, btPaired')
      BY <2>1, <2>2, <2>5, RefreshKeeps
    <2> QED BY <1>2, <2>3, <2>4, <2>5 DEF Reported
  <1>3. CASE DriverReport
    BY <1>1, <1>2, <1>3 DEF DriverReport, ShowState
  <1>4. CASE OnConnectAttemptStarted
    <2>1. CASE ~attached
      BY <1>4, <2>1 DEF OnConnectAttemptStarted, popupVars, IInv, TimerTypes, Timely, ShownHasDeadline,
             DeadlineOnlyWhileWaiting, ErrorHoldIsTheErrors, GivenUpIsDown, HiddenIsQuiet, Shown
    <2>2. CASE attached /\ mode \in {"Hidden", "Error"}
      <3>1. /\ attached' = TRUE /\ phase' = phase /\ btPaired' = btPaired /\ gaveUp' = FALSE
            /\ Present(TRUE, phase', btPaired', dismissTimer)
        BY <1>4, <1>t, <2>2 DEF OnConnectAttemptStarted
      <3> QED BY <1>t, <2>2, <3>1, PresentKeeps
    <2>3. CASE attached /\ mode \in {"Compact", "Expanded"}
      <3>1. /\ gaveUp' = FALSE /\ UNCHANGED <<attached, phase, btPaired>>
            /\ connectTimer' = IF ~btPaired /\ connectTimer = Off THEN Armed ELSE connectTimer
            /\ UNCHANGED <<mode, dismissTimer, errorTimer>>
        BY <1>4, <2>3 DEF OnConnectAttemptStarted
      <3>2. connectTimer' \in Off .. ConnectTimeoutMs
        BY <3>1 DEF Armed, IInv, TimerTypes
      <3>3. btPaired => connectTimer' = connectTimer /\ connectTimer' = Off
        BY <3>1 DEF IInv, Timely, DeadlineOnlyWhileWaiting
      <3>4. ~btPaired /\ ConnectTimeoutMs > 0 => connectTimer' # Off
        BY <3>1 DEF Armed
      <3> QED
        BY <2>3, <3>1, <3>2, <3>3, <3>4
           DEF IInv, TimerTypes, Timely, ShownHasDeadline, DeadlineOnlyWhileWaiting,
               ErrorHoldIsTheErrors, GivenUpIsDown, HiddenIsQuiet, Shown
    <2> QED BY <1>t, <2>1, <2>2, <2>3 DEF Modes
  <1>5. CASE OnBtPaired
    <2>1. CASE ~attached
      BY <1>5, <2>1 DEF OnBtPaired, popupVars, IInv, TimerTypes, Timely, ShownHasDeadline,
             DeadlineOnlyWhileWaiting, ErrorHoldIsTheErrors, GivenUpIsDown, HiddenIsQuiet, Shown
    <2>2. CASE attached
      <3>1. /\ gaveUp' = FALSE /\ connectTimer' = Off
            /\ dismissTimer' = IF mode' # "Hidden" THEN DismissMs ELSE dismissTimer
        BY <1>5, <2>2 DEF OnBtPaired
      <3>2. \/ mode' = "Expanded"
               /\ errorTimer' = IF mode # "Expanded" THEN Off ELSE errorTimer
            \/ mode' = mode /\ errorTimer' = errorTimer
        BY <1>5, <2>2 DEF OnBtPaired, SetMode
      <3> QED
        BY <3>1, <3>2
           DEF IInv, TimerTypes, Timely, ShownHasDeadline, DeadlineOnlyWhileWaiting,
               ErrorHoldIsTheErrors, GivenUpIsDown, HiddenIsQuiet, Shown
    <2> QED BY <2>1, <2>2
  <1>6. CASE OnBtConnectionFailed
    BY <1>6, WaitEndedKeeps DEF OnBtConnectionFailed, EndWaiting, WaitEnded
  <1>7. CASE OnConnectTimeout
    BY <1>7, WaitEndedKeeps DEF OnConnectTimeout, EndWaiting, WaitEnded
  <1>8. CASE OnDismissTimeout \/ OnErrorTimeout
    BY <1>8
       DEF OnDismissTimeout, OnErrorTimeout, Collapse, IInv, TimerTypes, Timely, ShownHasDeadline,
           DeadlineOnlyWhileWaiting, ErrorHoldIsTheErrors, GivenUpIsDown, HiddenIsQuiet,
           Shown
  <1>9. CASE PopupTick
    BY <1>9
       DEF PopupTick, Elapsed, IInv, TimerTypes, Timely, ShownHasDeadline, DeadlineOnlyWhileWaiting,
           ErrorHoldIsTheErrors, GivenUpIsDown, HiddenIsQuiet, Shown
  <1>10. CASE UNCHANGED popupVars
    BY <1>10 DEF popupVars, IInv, TimerTypes, Timely, ShownHasDeadline,
           DeadlineOnlyWhileWaiting, ErrorHoldIsTheErrors, GivenUpIsDown, HiddenIsQuiet, Shown
  <1> QED BY <1>3, <1>4, <1>5, <1>6, <1>7, <1>8, <1>9, <1>10 DEF Next

LEMMA IInvInductive ==
    ASSUME IInv, [Next]_popupVars
    PROVE  IInv'
  BY FlagsInductive, TimelyInductive DEF IInv

LEMMA IInvAlways == Spec => []IInv
  BY IInvInitial, IInvInductive, PTL DEF Spec

-----------------------------------------------------------------------------
\* The state of the popup keeps its types; no timer exceeds its interval.
THEOREM PopupTypes == Spec => []TypeOK
  <1>1. IInv => TypeOK
    BY DEF IInv, FlagTypes, TimerTypes, TypeOK
  <1> QED BY <1>1, IInvAlways, PTL

\* No pill stays up with nothing left to take it down.
THEOREM EveryPillHasADeadline == Spec => []ShownHasDeadline
  BY IInvAlways, PTL DEF IInv, Timely

\* The connect deadline never fires at a paired, detached or given-up pen.
THEOREM DeadlineIsTheWaits == Spec => []DeadlineOnlyWhileWaiting
  BY IInvAlways, PTL DEF IInv, Timely

\* The error hold runs exactly as long as the error pill is up.
THEOREM ErrorHold == Spec => []ErrorHoldIsTheErrors
  BY IInvAlways, PTL DEF IInv, Timely

\* A hidden popup has no timer running.
THEOREM HiddenQuiet == Spec => []HiddenIsQuiet
  BY IInvAlways, PTL DEF IInv, Timely

-----------------------------------------------------------------------------
\* No event postpones a running connect deadline: present() runs only where
\* the connect timer is off, and a refresh leaves a running one alone.
THEOREM NotPostponed == Spec => DeadlineNotPostponed
  <1>1. ASSUME IInv, [Next]_popupVars, connectTimer # Off, connectTimer' # Off
        PROVE  connectTimer' <= connectTimer
    <2> USE TimeoutAssumption DEF Off
    <2>1. connectTimer \in 0 .. ConnectTimeoutMs /\ mode \in {"Compact", "Expanded"}
      BY <1>1 DEF IInv, TimerTypes, Timely, DeadlineOnlyWhileWaiting
    <2>2. CASE DriverReport
      <3>1. ASSUME NEW ph, Detached(ph) PROVE connectTimer' = Off
        BY <3>1 DEF Detached, EndWaiting, ShowError, Collapse
      <3>2. ASSUME NEW ph, Reported(ph) PROVE connectTimer' = connectTimer
        BY <1>1, <2>1, <3>2 DEF Reported, Refresh
      <3>3. \E ph : Detached(ph) \/ Reported(ph)
        BY <2>2 DEF DriverReport, ShowState
      <3>4. connectTimer' = connectTimer
        BY <1>1, <3>1, <3>2, <3>3
      <3> QED BY <2>1, <3>4
    <2>3. CASE OnConnectAttemptStarted
      BY <1>1, <2>1, <2>3 DEF OnConnectAttemptStarted, popupVars
    <2>4. CASE OnBtPaired
      BY <1>1, <2>1, <2>4 DEF OnBtPaired, popupVars
    <2>5. CASE OnBtConnectionFailed \/ OnConnectTimeout
      BY <1>1, <2>5 DEF OnBtConnectionFailed, OnConnectTimeout, EndWaiting, ShowError, Collapse
    <2>6. CASE OnDismissTimeout \/ OnErrorTimeout
      BY <1>1, <2>6 DEF OnDismissTimeout, OnErrorTimeout, Collapse
    <2>7. CASE PopupTick \/ UNCHANGED popupVars
      BY <2>1, <2>7 DEF PopupTick, Elapsed, popupVars
    <2> QED BY <1>1, <2>2, <2>3, <2>4, <2>5, <2>6, <2>7 DEF Next
  <1>2. IInv /\ [Next]_popupVars =>
          [connectTimer # Off /\ connectTimer' # Off => connectTimer' <= connectTimer]_popupVars
    BY <1>1
  <1> QED BY <1>2, IInvAlways, PTL DEF Spec, DeadlineNotPostponed

\* After giving up, the driver's reports show nothing again but at a fresh seat.
THEOREM NoResurrection == Spec => ChatterNeverResurrects
  <1>1. gaveUp /\ DriverReport /\ mode' \notin {"Hidden", mode} => phase' = "attaching"
    <2>1. ASSUME gaveUp, NEW ph \in Phases, Detached(ph)
          PROVE  mode' \in {"Hidden", mode}
      BY <2>1 DEF Detached, EndWaiting, Collapse
    <2>2. ASSUME gaveUp, NEW ph \in Phases, Reported(ph), ph # "attaching"
          PROVE  mode' = mode
      BY <2>2 DEF Reported
    <2>3. \A ph : Reported(ph) => phase' = ph
      BY DEF Reported
    <2> QED BY <2>1, <2>2, <2>3 DEF DriverReport, ShowState
  <1> QED BY <1>1, PTL DEF Spec, ChatterNeverResurrects

\* An error is asked only of a pill that is up: what Island expects of its caller.
THEOREM ErrorNeedsAPill == Spec => [][mode = "Hidden" => mode' # "Error"]_popupVars
  <1>1. ASSUME Next, mode = "Hidden" PROVE mode' # "Error"
    <2>1. CASE DriverReport
      <3>1. ASSUME NEW ph \in Phases, Detached(ph) PROVE mode' # "Error"
        BY <1>1, <3>1 DEF Detached, EndWaiting, Shown
      <3>2. ASSUME NEW ph \in Phases, Reported(ph) PROVE mode' # "Error"
        BY <1>1, <3>2 DEF Reported, Present, SetMode, ModeFor
      <3> QED BY <2>1, <3>1, <3>2 DEF DriverReport, ShowState
    <2>2. CASE OnConnectAttemptStarted
      BY <1>1, <2>2 DEF OnConnectAttemptStarted, popupVars, Present, SetMode, ModeFor
    <2>3. CASE OnBtPaired
      BY <1>1, <2>3 DEF OnBtPaired, popupVars, SetMode
    <2>4. CASE OnBtConnectionFailed \/ OnConnectTimeout
      BY <1>1, <2>4 DEF OnBtConnectionFailed, OnConnectTimeout, EndWaiting, Shown
    <2>5. CASE OnDismissTimeout \/ OnErrorTimeout \/ PopupTick
      BY <1>1, <2>5 DEF OnDismissTimeout, OnErrorTimeout, Collapse, PopupTick
    <2> QED BY <1>1, <2>1, <2>2, <2>3, <2>4, <2>5 DEF Next
  <1>2. ASSUME [Next]_popupVars
        PROVE  [mode = "Hidden" => mode' # "Error"]_popupVars
    BY <1>1, <1>2
  <1> QED BY <1>2, PTL DEF Spec

-----------------------------------------------------------------------------
(***************************************************************************)
(* The refinement of PillStages.                                           *)
(***************************************************************************)
\* Nothing is shown of a pen that is away, nor of one given up on although it was
\* paired, and no pen that is away is paired: what keeps an error, or a paired pill,
\* from following out of nowhere.
OnlyOfThePen == /\ btPaired => attached
                /\ ~attached => mode = "Hidden"
                /\ gaveUp /\ btPaired => mode = "Hidden"

\* What a handler may do to the stage and the pill.
StageStep == \/ Stages!Wait
             \/ Stages!Confirm
             \/ Stages!GiveUp
             \/ Stages!Leave
             \/ Stages!TakeDown
             \/ UNCHANGED <<Stage, Pill>>

\* Giving up is announced to whoever watches an unpaired pen's pill, and nobody else.
LEMMA GiveUpStage ==
    ASSUME FlagTypes, GivenUpIsDown, OnlyOfThePen, UNCHANGED <<attached, phase, btPaired>>,
           NEW d, EndWaiting(TRUE, ~btPaired, d)
    PROVE  OnlyOfThePen' /\ Stages!GiveUp
  <1> USE DEF FlagTypes, OnlyOfThePen, GivenUpIsDown, EndWaiting, Shown, ShowError,
              Collapse, Modes
  <1>1. OnlyOfThePen'
    OBVIOUS
  <1>2. Stage' = "givenUp"
    BY DEF Stage
  <1>3. Pill' = IF Pill = "none" \/ Stage = "paired" THEN "none" ELSE "error"
    <2>1. CASE mode = "Hidden"
      BY <2>1 DEF Pill
    <2>2. CASE mode # "Hidden" /\ btPaired
      BY <2>2 DEF Pill, Stage
    <2>3. CASE mode # "Hidden" /\ ~btPaired
      BY <2>3 DEF Pill, Stage
    <2> QED BY <2>1, <2>2, <2>3
  <1> QED BY <1>1, <1>2, <1>3 DEF Stages!GiveUp

\* A pill for a pen that is there, waited for or paired as before.
LEMMA PillStage ==
    ASSUME FlagTypes, OnlyOfThePen, attached' = TRUE, gaveUp' = FALSE,
           mode' \in {"Compact", "Expanded"}, btPaired' \in BOOLEAN, btPaired' => btPaired
    PROVE  OnlyOfThePen' /\ StageStep
  <1> USE DEF FlagTypes, OnlyOfThePen
  <1>1. OnlyOfThePen'
    OBVIOUS
  <1>2. Pill' = "pill"
    BY DEF Pill
  <1>3. CASE btPaired'
    BY <1>2, <1>3 DEF Stage, Stages!Confirm, StageStep
  <1>4. CASE ~btPaired'
    BY <1>2, <1>4 DEF Stage, Stages!Wait, StageStep
  <1> QED BY <1>1, <1>3, <1>4

\* Every step of the popup is a step of the stages, or leaves both as they are.
LEMMA StageSimulation ==
    ASSUME IInv, OnlyOfThePen, [Next]_popupVars
    PROVE  OnlyOfThePen' /\ StageStep
  <1>t. FlagTypes /\ FlagTypes' /\ GivenUpIsDown
    BY FlagsInductive DEF IInv, Timely
  <1>1. ASSUME NEW ph \in Phases, Detached(ph) PROVE OnlyOfThePen' /\ StageStep
    <2>1. attached' = FALSE /\ btPaired' = FALSE /\ gaveUp' = FALSE /\ mode' = "Hidden"
      BY <1>1 DEF Detached, EndWaiting, Collapse, Shown
    <2> QED BY <2>1 DEF OnlyOfThePen, StageStep, Stages!Leave, Stage, Pill
  <1>2. ASSUME NEW ph \in Phases, Reported(ph) PROVE OnlyOfThePen' /\ StageStep
    <2>1. /\ attached' = TRUE /\ btPaired' \in BOOLEAN /\ gaveUp' \in BOOLEAN
          /\ btPaired' => btPaired
          /\ gaveUp' => gaveUp
      BY <1>2 DEF Reported
    <2>2. CASE gaveUp' /\ mode' = mode
      BY <1>t, <2>1, <2>2 DEF OnlyOfThePen, StageStep, Stage, Pill
    <2>3. CASE ~gaveUp' /\ mode' \in {"Compact", "Expanded"}
      BY <1>t, <2>1, <2>3, PillStage
    <2>4. \/ gaveUp' /\ mode' = mode
          \/ ~gaveUp' /\ mode' \in {"Compact", "Expanded"}
      BY <1>2, <2>1 DEF Reported, Present, Refresh, SetMode, ModeFor
    <2> QED BY <2>2, <2>3, <2>4
  <1>3. CASE DriverReport
    BY <1>1, <1>2, <1>3 DEF DriverReport, ShowState
  <1>4. CASE OnConnectAttemptStarted
    <2>1. CASE ~attached
      BY <1>4, <2>1 DEF OnConnectAttemptStarted, popupVars, OnlyOfThePen, StageStep, Stage, Pill
    <2>2. CASE attached
      <3>1. gaveUp' = FALSE /\ btPaired' = btPaired /\ attached' = TRUE
        BY <1>4, <2>2, <1>t DEF OnConnectAttemptStarted, FlagTypes
      <3>2. mode' \in {"Compact", "Expanded"}
        BY <1>4, <1>t, <2>2 DEF OnConnectAttemptStarted, Present, SetMode, ModeFor
      <3> QED BY <1>t, <3>1, <3>2, PillStage DEF FlagTypes
    <2> QED BY <2>1, <2>2
  <1>5. CASE OnBtPaired
    <2>1. CASE ~attached
      BY <1>5, <2>1 DEF OnBtPaired, popupVars, OnlyOfThePen, StageStep, Stage, Pill
    <2>2. CASE attached
      <3>1. /\ gaveUp' = FALSE /\ btPaired' = TRUE /\ attached' = TRUE
            /\ mode' \in {mode, "Expanded"}
        BY <1>5, <2>2, <1>t DEF OnBtPaired, SetMode, FlagTypes
      <3>2. Stage' = "paired" /\ Stage # "away"
        BY <2>2, <3>1 DEF Stage
      <3>3. Pill' \in {Pill, "pill"}
        BY <3>1 DEF Pill
      <3> QED BY <3>1, <3>2, <3>3 DEF OnlyOfThePen, StageStep, Stages!Confirm
    <2> QED BY <2>1, <2>2
  <1>6. CASE OnBtConnectionFailed
    BY <1>t, <1>6, GiveUpStage DEF OnBtConnectionFailed, StageStep
  <1>7. CASE OnConnectTimeout
    BY <1>t, <1>7, GiveUpStage DEF OnConnectTimeout, StageStep
  <1>8. CASE OnDismissTimeout \/ OnErrorTimeout
    <2>1. mode' = "Hidden" /\ UNCHANGED <<attached, btPaired, gaveUp>>
      BY <1>8 DEF OnDismissTimeout, OnErrorTimeout, Collapse
    <2>2. Stage' = Stage /\ Pill' = "none"
      BY <2>1 DEF Stage, Pill
    <2>3. OnlyOfThePen'
      BY <2>1 DEF OnlyOfThePen
    <2> QED BY <2>2, <2>3 DEF StageStep, Stages!TakeDown
  <1>9. CASE PopupTick \/ UNCHANGED popupVars
    <2>1. UNCHANGED <<attached, btPaired, gaveUp, mode>>
      BY <1>9 DEF PopupTick, popupVars
    <2> QED BY <2>1 DEF OnlyOfThePen, StageStep, Stage, Pill
  <1> QED BY <1>3, <1>4, <1>5, <1>6, <1>7, <1>8, <1>9 DEF Next

\* The popup implements the stages: it believes a pairing only of a pen that is there,
\* complains only on giving up on an unpaired pen whose pill is up, and shows nothing
\* again of a pen it gave up on but a new wait or a pairing, for all timer lengths.
THEOREM StagesRefinement == Spec => ImplementsStages
  <1>1. PopupInit => OnlyOfThePen /\ Stages!Init
    BY DEF PopupInit, OnlyOfThePen, Stages!Init, Stage, Pill
  <1>2. IInv /\ OnlyOfThePen /\ [Next]_popupVars => OnlyOfThePen'
    BY StageSimulation
  <1>3. IInv /\ OnlyOfThePen /\ [Next]_popupVars => [Stages!Next]_(Stages!vars)
    BY StageSimulation DEF StageStep, Stages!Next, Stages!vars
  <1> QED BY <1>1, <1>2, <1>3, IInvAlways, PTL DEF Spec, ImplementsStages, Stages!Spec
=============================================================================
