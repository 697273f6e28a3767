------------------------------- MODULE Popup -------------------------------
(***************************************************************************)
(* The popup's state machine (src/src/popupwidget.cpp): which form the     *)
(* island takes and the three single-shot timers that end it.  Everything  *)
(* here runs on the GUI thread, one handler at a time.                     *)
(*                                                                         *)
(* A timer holds the ticks it has left; Off is stopped, 0 is due but not   *)
(* yet dispatched -- isActive() is still true, and another handler may run *)
(* first.  No handler calls setMode() twice, so the mode before and after  *)
(* a step says what setMode() did.                                         *)
(***************************************************************************)
EXTENDS Integers

CONSTANTS DismissMs,          \* kDismissMs
          ErrorHoldMs,        \* kErrorHoldMs
          ConnectTimeoutMs    \* m_connectTimeoutMs; 0 waits forever

\* popupwidget.h fixes the first two; appconfig.cpp clamps the third to 0..600000.
ASSUME TimeoutAssumption == /\ DismissMs \in Nat \ {0}
                            /\ ErrorHoldMs \in Nat \ {0}
                            /\ ConnectTimeoutMs \in Nat

VARIABLES
    attached, phase,          \* m_state, as far as the state machine reads it
    btPaired, gaveUp, mode,
    dismissTimer, connectTimer, errorTimer

popupVars == <<attached, phase, btPaired, gaveUp, mode,
               dismissTimer, connectTimer, errorTimer>>

Off == -1

Phases == {"attaching", "complete"}
Modes  == {"Hidden", "Compact", "Expanded", "Error"}

Shown == mode # "Hidden"
Seated(a, ph) == a /\ ph = "complete"       \* isSeated()

PopupInit ==
    /\ attached = FALSE /\ phase = "complete"
    /\ btPaired = FALSE /\ gaveUp = FALSE
    /\ mode = "Hidden"
    /\ dismissTimer = Off /\ connectTimer = Off /\ errorTimer = Off

-----------------------------------------------------------------------------
\* Mutants: the bugs the runs must notice.

SetModeKeepsErrorTimer(m) ==
    /\ mode' = m
    /\ errorTimer' = errorTimer

\* showError() that never starts the hold.
ShowErrorWithoutHold ==
    /\ mode' = "Error"
    /\ dismissTimer' = Off /\ connectTimer' = Off
    /\ errorTimer' = errorTimer
-----------------------------------------------------------------------------
(***************************************************************************)
(* The helpers the handlers share.                                         *)
(***************************************************************************)

\* setMode(): entering a mode stops the error timer unless the mode is Error...
SetMode(m) ==
    /\ mode' = m
    /\ errorTimer' = IF m # mode /\ m # "Error" THEN Off ELSE errorTimer

\* ... and entering Expanded starts the dismiss timer, which stood at d.
DismissAfter(m, d) == IF m # mode /\ m = "Expanded" THEN DismissMs ELSE d

ModeFor(a, ph) == IF Seated(a, ph) THEN "Expanded" ELSE "Compact"

\* armConnectTimer(): a timeout of 0 leaves the timer as it is.
Armed == IF ConnectTimeoutMs = 0 THEN connectTimer ELSE ConnectTimeoutMs

\* present(), for a pen seated as (a, ph), with the dismiss timer at d.
Present(a, ph, paired, d) ==
    LET m == ModeFor(a, ph)
    IN  /\ SetMode(m)
        /\ IF paired
           THEN connectTimer' = Off /\ dismissTimer' = DismissMs
           ELSE connectTimer' = Armed /\ dismissTimer' = DismissAfter(m, d)

Collapse ==
    /\ mode' = "Hidden"
    /\ dismissTimer' = Off /\ errorTimer' = Off /\ connectTimer' = Off

ShowError ==
    /\ mode' = "Error"
    /\ dismissTimer' = Off /\ errorTimer' = ErrorHoldMs /\ connectTimer' = Off

\* endWaiting(): `complain` says there is a reason and the pen is not paired.
EndWaiting(up, complain, d) ==
    /\ gaveUp' = up
    /\ \/ /\ ~Shown
          /\ connectTimer' = Off /\ dismissTimer' = d
          /\ UNCHANGED <<mode, errorTimer>>
       \/ Shown /\ complain /\ ShowError
       \/ Shown /\ ~complain /\ Collapse
-----------------------------------------------------------------------------
\* Mutants.

RefreshNeverArms(a, ph, paired) ==
    /\ SetMode(ModeFor(a, ph))
    /\ connectTimer' = IF paired THEN Off ELSE connectTimer
    /\ dismissTimer' = IF paired THEN DismissMs ELSE Off

RefreshRearms(a, ph, paired) ==
    /\ SetMode(ModeFor(a, ph))
    /\ connectTimer' = IF paired THEN Off ELSE Armed
    /\ dismissTimer' = IF paired THEN DismissMs ELSE Off

ReportedIgnoresGaveUp(ph) ==
    /\ attached' = TRUE /\ phase' = ph
    /\ btPaired' = (btPaired /\ ph # "attaching")
    /\ gaveUp' = (gaveUp /\ ph # "attaching")
    /\ Present(TRUE, ph, btPaired', Off)

\* Being seated again does not reopen a wait that was given up.
ReportedKeepsGaveUp(ph) ==
    /\ attached' = TRUE /\ phase' = ph
    /\ btPaired' = (btPaired /\ ph # "attaching") /\ gaveUp' = gaveUp
    /\ \/ /\ gaveUp /\ dismissTimer' = Off
          /\ UNCHANGED <<mode, connectTimer, errorTimer>>
       \/ ~gaveUp /\ mode \in {"Hidden", "Error"} /\ Present(TRUE, ph, btPaired', Off)
       \/ ~gaveUp /\ mode \in {"Compact", "Expanded"} /\ RefreshRearms(TRUE, ph, btPaired')

OnBtPairedKeepsDeadline ==
    IF ~attached THEN UNCHANGED popupVars
    ELSE /\ btPaired' = TRUE /\ gaveUp' = FALSE
         /\ connectTimer' = connectTimer
         /\ SetMode(IF Seated(attached, phase) THEN "Expanded" ELSE mode)
         /\ dismissTimer' = IF mode' # "Hidden" THEN DismissMs ELSE dismissTimer
         /\ UNCHANGED <<attached, phase>>

\* A pairing is believed of a pen that is not there.
OnBtPairedOfNobody ==
    /\ btPaired' = TRUE /\ gaveUp' = FALSE
    /\ connectTimer' = Off
    /\ SetMode(IF Seated(attached, phase) THEN "Expanded" ELSE mode)
    /\ dismissTimer' = IF mode' # "Hidden" THEN DismissMs ELSE dismissTimer
    /\ UNCHANGED <<attached, phase>>
-----------------------------------------------------------------------------
(***************************************************************************)
(* The handlers.                                                           *)
(***************************************************************************)

\* showState(), for a pill already up and not an error.
Refresh(a, ph, paired) ==
    /\ SetMode(ModeFor(a, ph))
    /\ IF paired
       THEN connectTimer' = Off /\ dismissTimer' = DismissMs
       ELSE /\ dismissTimer' = Off
            /\ connectTimer' = IF connectTimer # Off THEN connectTimer ELSE Armed

Detached(ph) ==
    /\ attached' = FALSE /\ phase' = ph
    /\ btPaired' = FALSE
    /\ EndWaiting(FALSE, FALSE, Off)

Reported(ph) ==
    LET seating == ph = "attaching"
    IN  /\ attached' = TRUE /\ phase' = ph
        /\ btPaired' = (btPaired /\ ~seating)
        /\ gaveUp' = (gaveUp /\ ~seating)
        /\ \/ /\ gaveUp'
              /\ dismissTimer' = Off
              /\ UNCHANGED <<mode, connectTimer, errorTimer>>
           \/ /\ ~gaveUp' /\ mode \in {"Hidden", "Error"}
              /\ Present(TRUE, ph, btPaired', Off)
           \/ /\ ~gaveUp' /\ mode \in {"Compact", "Expanded"}
              /\ Refresh(TRUE, ph, btPaired')

ShowState(a, ph) == IF a THEN Reported(ph) ELSE Detached(ph)

OnConnectAttemptStarted ==
    IF ~attached THEN UNCHANGED popupVars
    ELSE /\ gaveUp' = FALSE
         /\ UNCHANGED <<attached, phase, btPaired>>
         /\ \/ /\ mode \in {"Hidden", "Error"}
               /\ Present(attached, phase, btPaired, dismissTimer)
            \/ /\ mode \in {"Compact", "Expanded"}
               /\ connectTimer' = IF ~btPaired /\ connectTimer = Off
                                  THEN Armed ELSE connectTimer
               /\ UNCHANGED <<mode, dismissTimer, errorTimer>>

OnBtPaired ==
    IF ~attached THEN UNCHANGED popupVars
    ELSE /\ btPaired' = TRUE /\ gaveUp' = FALSE
         /\ connectTimer' = Off
         /\ SetMode(IF Seated(attached, phase) THEN "Expanded" ELSE mode)
         /\ dismissTimer' = IF mode' # "Hidden" THEN DismissMs ELSE dismissTimer
         /\ UNCHANGED <<attached, phase>>

\* No check of m_state.attached here: a late failure gives up a detached pen.
OnBtConnectionFailed ==
    /\ EndWaiting(TRUE, ~btPaired, dismissTimer)
    /\ UNCHANGED <<attached, phase, btPaired>>

OnConnectTimeout ==
    /\ connectTimer = 0
    /\ EndWaiting(TRUE, ~btPaired, dismissTimer)
    /\ UNCHANGED <<attached, phase, btPaired>>

OnDismissTimeout ==
    /\ dismissTimer = 0
    /\ Collapse
    /\ UNCHANGED <<attached, phase, btPaired, gaveUp>>

OnErrorTimeout ==
    /\ errorTimer = 0
    /\ Collapse
    /\ UNCHANGED <<attached, phase, btPaired, gaveUp>>

\* A tick of the clock; a due timer stays due.
Elapsed(t) == IF t > 0 THEN t - 1 ELSE t

PopupTick ==
    /\ dismissTimer' = Elapsed(dismissTimer)
    /\ connectTimer' = Elapsed(connectTimer)
    /\ errorTimer' = Elapsed(errorTimer)
    /\ UNCHANGED <<attached, phase, btPaired, gaveUp, mode>>

-----------------------------------------------------------------------------
(***************************************************************************)
(* The popup alone, under every order of driver reports and Bluetooth      *)
(* signals its slots can be called in.                                     *)
(***************************************************************************)
DriverReport == \E a \in BOOLEAN, ph \in Phases : ShowState(a, ph)

Next == \/ DriverReport
        \/ OnConnectAttemptStarted \/ OnBtPaired \/ OnBtConnectionFailed
        \/ OnConnectTimeout \/ OnDismissTimeout \/ OnErrorTimeout
        \/ PopupTick

\* Qt's event loop dispatches a due timer, and time passes.
Fairness == /\ WF_popupVars(PopupTick)
            /\ WF_popupVars(OnConnectTimeout)
            /\ WF_popupVars(OnDismissTimeout)
            /\ WF_popupVars(OnErrorTimeout)

Spec == PopupInit /\ [][Next]_popupVars /\ Fairness

-----------------------------------------------------------------------------
TypeOK ==
    /\ attached \in BOOLEAN /\ phase \in Phases
    /\ btPaired \in BOOLEAN /\ gaveUp \in BOOLEAN
    /\ mode \in Modes
    /\ dismissTimer \in Off .. DismissMs
    /\ connectTimer \in Off .. ConnectTimeoutMs
    /\ errorTimer \in Off .. ErrorHoldMs

\* No pill stays up with nothing left to take it down, unless the
\* configuration asked to wait forever (connect-timeout-ms=0).
ShownHasDeadline ==
    ConnectTimeoutMs > 0 /\ Shown =>
        dismissTimer # Off \/ connectTimer # Off \/ errorTimer # Off

\* The connect deadline runs only while a pen is waited for: it never fires at
\* a paired, detached or given-up pen, so "timed out" is never a false report.
DeadlineOnlyWhileWaiting ==
    connectTimer # Off => /\ mode \in {"Compact", "Expanded"}
                          /\ attached /\ ~btPaired /\ ~gaveUp

\* The error hold belongs to the error pill: it never outlives it to cut a
\* later pill short, and no error pill stays without it.
ErrorHoldIsTheErrors == (errorTimer # Off) <=> (mode = "Error")

\* Giving up is final for the pill: what is left is the error, then nothing.
GivenUpIsDown == gaveUp => mode \in {"Hidden", "Error"}

\* A hidden popup has no timer running that could act on the next pill.
HiddenIsQuiet ==
    mode = "Hidden" => dismissTimer = Off /\ connectTimer = Off /\ errorTimer = Off

\* "the deadline is counted from the moment the popup started waiting rather
\* than from the last event": no event postpones a running deadline.
DeadlineNotPostponed ==
    [][connectTimer # Off /\ connectTimer' # Off => connectTimer' <= connectTimer]_popupVars

\* The driver's chatter about a pen that just sits there never brings a
\* given-up popup back; a new seat, a new attempt or a pairing does.
ChatterNeverResurrects ==
    [][gaveUp /\ DriverReport /\ mode' \notin {"Hidden", mode} => phase' = "attaching"]_popupVars

\* Every wait ends, however often the driver and BlueZ call in.
WaitEnds == connectTimer # Off ~> connectTimer = Off

\* "while the pen is still unpaired it is the connect wait that ends it instead"
\* (README.md): the dismiss timer takes down no unpaired pen's pill.
ConnectWaitEndsTheWait == [][OnDismissTimeout => btPaired]_popupVars

-----------------------------------------------------------------------------
(***************************************************************************)
(* The popup implements the stages of PillStages.                          *)
(***************************************************************************)
Stage == CASE gaveUp                              -> "givenUp"
           [] ~gaveUp /\ ~attached                -> "away"
           [] ~gaveUp /\ attached /\ btPaired     -> "paired"
           [] OTHER                               -> "waiting"

Pill == CASE mode = "Hidden" -> "none"
          [] mode = "Error"  -> "error"
          [] OTHER           -> "pill"

Stages == INSTANCE PillStages WITH stage <- Stage, pill <- Pill

ImplementsStages == Stages!Spec
=============================================================================
