---------------------------- MODULE StylusPopup ----------------------------
(***************************************************************************)
(* The program main.cpp wires together: the driver's reports reach the     *)
(* popup and, once per stage, ask BlueZ for the pen; BluezManager's        *)
(* signals travel back to the popup through Qt's event queue (they are     *)
(* QueuedConnections); the popup's connect timeout cancels the attempt     *)
(* with a direct call.                                                     *)
(*                                                                         *)
(* One thread, one FIFO queue.  Only BluezManager's signals are kept in    *)
(* `queue`: a driver report or a D-Bus reply depends on nothing that was   *)
(* queued before it, so handling it at any moment covers its having been   *)
(* posted at any earlier one.  The exception is a reply to a call that was *)
(* sent after `attemptStarted` was posted: it waits for that signal.       *)
(* Timers may be dispatched while the queue is not empty.                  *)
(***************************************************************************)
EXTENDS Integers, Sequences, SequencesExt

CONSTANTS DismissMs, ErrorHoldMs, ConnectTimeoutMs, DiscoveryMs,
          Pens, NoMac,
          MaxSeats,     \* bound: how often a pen is seated
          MaxReports    \* bound: reports about a seated pen, and detachments

\* What Popup and Bluez assume of their constants, and the bounds.
ASSUME TimerAssumption == /\ {DismissMs, ErrorHoldMs, DiscoveryMs} \subseteq Nat \ {0}
                          /\ ConnectTimeoutMs \in Nat
ASSUME PensAssumption  == NoMac \notin Pens
ASSUME BoundAssumption == MaxSeats \in Nat /\ MaxReports \in Nat

VARIABLES
    attached, phase, btPaired, gaveUp, mode,
    dismissTimer, connectTimer, errorTimer,
    pendingMac, adapterPath, discovering, discoveryTimer,
    own, stale, stopping, session, emitted,
    pairingRequested,       \* main()'s latch
    queue,                  \* signals posted to the popup, oldest first
    pen,                    \* the pen the driver last reported, or NoMac
    seats, reports,         \* bounds on the driver
    requests                \* ghost: ensurePaired() calls in this stage

P == INSTANCE Popup
B == INSTANCE Bluez

popupVars == <<attached, phase, btPaired, gaveUp, mode,
               dismissTimer, connectTimer, errorTimer>>
bluezVars == <<pendingMac, adapterPath, discovering, discoveryTimer,
               own, stale, stopping, session, emitted>>
glueVars == <<pairingRequested, queue, pen, seats, reports, requests>>
vars == <<popupVars, bluezVars, glueVars>>

BluezIdle == B!Idle /\ emitted' = "none"
PopupIdle == UNCHANGED popupVars

\* The pen may be docked before the program starts.
Init ==
    /\ P!PopupInit /\ B!BluezInit
    /\ pairingRequested = FALSE /\ queue = <<>> /\ requests = 0
    /\ pen \in Pens \union {NoMac}
    /\ seats = 0 /\ reports = 0

\* A signal BluezManager emitted in this step, a QueuedConnection.
Posted(rest) == queue' = IF emitted' = "none" THEN rest ELSE Append(rest, emitted')

-----------------------------------------------------------------------------
\* Mutants: the bugs the runs must notice.

OnStateChangedRetries(a, ph, mac, valid) ==
    LET stage  == IF ~a \/ ph = "attaching" THEN 0 ELSE requests
        latch  == pairingRequested /\ ~(~a \/ ph = "attaching")
        asking == a /\ valid /\ ph = "complete" /\ (~latch \/ pendingMac = NoMac)
    IN  /\ P!ShowState(a, ph)
        /\ pairingRequested' = (latch \/ asking)
        /\ requests' = IF asking THEN stage + 1 ELSE stage
        /\ \/ asking /\ B!EnsurePaired(mac)
           \/ ~asking /\ BluezIdle
        /\ Posted(queue)

ConnectTimedOutWithoutCancel ==
    /\ P!OnConnectTimeout
    /\ BluezIdle
    /\ UNCHANGED glueVars

-----------------------------------------------------------------------------
(***************************************************************************)
(* The driver's reports, each handled by main()'s onStateChanged.          *)
(***************************************************************************)
OnStateChanged(a, ph, mac, valid) ==
    LET over   == ~a \/ ph = "attaching"        \* a stage ends, or a new one opens
        latch  == pairingRequested /\ ~over
        asking == a /\ valid /\ ph = "complete" /\ ~latch
        before == IF over THEN 0 ELSE requests
    IN  /\ P!ShowState(a, ph)
        /\ pairingRequested' = (latch \/ asking)
        /\ requests' = IF asking THEN before + 1 ELSE before
        /\ \/ asking /\ B!EnsurePaired(mac)
           \/ ~asking /\ BluezIdle
        /\ Posted(queue)

\* A pen is seated: the driver says so with one "attaching" report, and the
\* address need not be known yet.
Seat ==
    /\ seats < MaxSeats /\ seats' = seats + 1
    /\ \E p \in Pens : pen' = p /\ OnStateChanged(TRUE, "attaching", p, FALSE)
    /\ UNCHANGED reports

\* The driver reports the seated pen, its address known or not.
ReportPen ==
    /\ pen # NoMac
    /\ reports < MaxReports /\ reports' = reports + 1
    /\ \E valid \in BOOLEAN : OnStateChanged(TRUE, "complete", pen, valid)
    /\ UNCHANGED <<pen, seats>>

Detach ==
    /\ pen # NoMac /\ pen' = NoMac
    /\ reports < MaxReports /\ reports' = reports + 1
    /\ OnStateChanged(FALSE, "complete", pen, FALSE)
    /\ UNCHANGED seats

-----------------------------------------------------------------------------
(***************************************************************************)
(* BlueZ's side, and the queue of its signals.                             *)
(***************************************************************************)
\* BluezManager took a step: its signal, if any, is posted.
BluezStepped ==
    /\ Posted(queue)
    /\ PopupIdle
    /\ UNCHANGED <<pairingRequested, pen, seats, reports, requests>>

OwnReply(kind) ==
    /\ ~Contains(queue, "started")
    /\ \E ok \in BOOLEAN : B!OwnReply(kind, ok)
    /\ BluezStepped

StaleReply(kind) == (\E ok \in BOOLEAN : B!StaleReply(kind, ok)) /\ BluezStepped

\* Bound: the device is announced again only once the calls about it are answered.
InterfacesAdded ==
    own["Pair"] + own["Connect"] = 0 /\ B!OnInterfacesAdded /\ BluezStepped

DiscoveryTimeout == B!OnDiscoveryTimeout /\ BluezStepped
StopsDiscovery   == B!BluezStopsDiscovery /\ BluezStepped

Deliver ==
    /\ queue # <<>>
    /\ queue' = Tail(queue)
    /\ \/ Head(queue) = "started" /\ P!OnConnectAttemptStarted
       \/ Head(queue) = "paired" /\ P!OnBtPaired
       \/ Head(queue) = "failed" /\ P!OnBtConnectionFailed
    /\ BluezIdle
    /\ UNCHANGED <<pairingRequested, pen, seats, reports, requests>>

-----------------------------------------------------------------------------
(***************************************************************************)
(* The popup's timers.  connectTimedOut is connected directly to cancel(). *)
(***************************************************************************)
ConnectTimedOut ==
    /\ P!OnConnectTimeout
    /\ B!Cancel
    /\ UNCHANGED glueVars

DismissTimeout == P!OnDismissTimeout /\ BluezIdle /\ UNCHANGED glueVars
ErrorTimeout   == P!OnErrorTimeout /\ BluezIdle /\ UNCHANGED glueVars

Tick ==
    /\ P!PopupTick
    /\ \/ B!BluezTick
       \/ discoveryTimer <= 0 /\ BluezIdle
    /\ UNCHANGED glueVars

-----------------------------------------------------------------------------
Next == \/ Seat \/ ReportPen \/ Detach
        \/ \E kind \in B!Kinds : OwnReply(kind) \/ StaleReply(kind)
        \/ InterfacesAdded \/ DiscoveryTimeout \/ StopsDiscovery
        \/ Deliver
        \/ ConnectTimedOut \/ DismissTimeout \/ ErrorTimeout
        \/ Tick

\* The event loop delivers what is posted and dispatches due timers, D-Bus
\* answers every call, time passes.  The driver owes nothing.
Fairness ==
    /\ WF_vars(Deliver) /\ WF_vars(Tick)
    /\ WF_vars(ConnectTimedOut) /\ WF_vars(DismissTimeout) /\ WF_vars(ErrorTimeout)
    /\ WF_vars(DiscoveryTimeout) /\ WF_vars(StopsDiscovery)
    /\ \A kind \in B!Kinds : WF_vars(OwnReply(kind)) /\ WF_vars(StaleReply(kind))

Spec == Init /\ [][Next]_vars /\ Fairness

-----------------------------------------------------------------------------
TypeOK ==
    /\ P!TypeOK /\ B!TypeOK
    /\ pairingRequested \in BOOLEAN
    /\ \A i \in DOMAIN queue : queue[i] \in {"started", "paired", "failed"}
    /\ pen \in Pens \union {NoMac}
    /\ seats \in 0 .. MaxSeats /\ reports \in 0 .. MaxReports

\* "nothing retries this attach stage on its own": a stage asks BlueZ for the
\* pen once, however often the driver reports it and however the attempt ends.
OneRequestPerStage == requests <= 1

\* No attempt runs behind a popup that gave up on a seated pen -- its late
\* success would "appear out of nowhere" -- unless word of it is on its way.
NoAttemptBehindGivenUp ==
    attached /\ gaveUp /\ pendingMac # NoMac => Contains(queue, "started")

\* Two verdicts that wait in the queue are never of one attempt, nor is the later
\* one of an attempt not yet announced: an announcement stands between them.
VerdictsAnnounced ==
    \A i, j \in DOMAIN queue :
        i < j /\ queue[i] # "started" /\ queue[j] # "started" =>
            \E k \in i .. j : queue[k] = "started"

\* A fresh seat is waited for, whatever the popup had given up, shown or been
\* told before: up comes its pill, nothing is believed of the pen, and the wait
\* has its whole length -- unless a wait was still running, of which the new seat
\* gets no more than was left, even if that is nothing.  popupconfig.h promises
\* "a fresh window" to "the next attach" without that exception.
EverySeatWaits ==
    [][seats' # seats =>
          /\ mode' = "Compact" /\ ~btPaired' /\ ~gaveUp'
          /\ ConnectTimeoutMs > 0 =>
                connectTimer' = IF connectTimer = P!Off THEN ConnectTimeoutMs
                                                        ELSE connectTimer]_vars

\* Once the driver falls silent every pill leaves.
EveryPillLeaves == mode # "Hidden" ~> mode = "Hidden"

\* The pen that was seated is the pen that is paired: when a stage makes its
\* one request, no other pen's attempt swallows it.
RequestReachesBluez ==
    [][pairingRequested' /\ ~pairingRequested => pendingMac' \in {pen', NoMac}]_vars

\* "a fresh seat has to earn it again" (popupwidget.h): a pen counts as paired
\* only once its own stage has asked for it.
PairedIsEarned == btPaired => requests > 0
=============================================================================
