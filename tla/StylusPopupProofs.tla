------------------------- MODULE StylusPopupProofs -------------------------
(***************************************************************************)
(* The program's safety for every set of pens, every timer length and any  *)
(* number of seats, reports and calls in flight.                           *)
(*                                                                         *)
(* Every step of the program is a step of Popup and a step of Bluez, so    *)
(* what was proved of the two holds in the program.  What the wiring adds  *)
(* rests on the order of the queue: while an attempt is pending, a verdict *)
(* that is still to be delivered is followed by its announcement.  So a    *)
(* popup that gives up on hearing the old verdict hears of the new attempt *)
(* next (NoAttemptBehindGivenUp).                                          *)
(***************************************************************************)
EXTENDS StylusPopup, TLAPS

PP == INSTANCE PopupProofs
BP == INSTANCE BluezProofs

Signals == {"started", "paired", "failed"}

\* main()'s latch, and who may be seated.
Latched == /\ pairingRequested \in BOOLEAN
           /\ requests = IF pairingRequested THEN 1 ELSE 0
           /\ pen \in Pens \union {NoMac}

\* A queue q of signals, some attempt pending or none.
Ordered(q, pending) ==
    /\ q \in Seq(Signals)
    /\ \A i, j \in 1 .. Len(q) :
          i < j /\ q[i] # "started" /\ q[j] # "started" =>
              \E k \in i .. j : q[k] = "started"
    /\ pending => \A i \in 1 .. Len(q) :
          q[i] # "started" => \E k \in i .. Len(q) : q[k] = "started"

InOrder == Ordered(queue, pendingMac # NoMac)

\* A pen that was docked before the first report: nothing has happened yet.
Untouched == ~attached /\ pen # NoMac => ~gaveUp /\ queue = <<>> /\ pendingMac = NoMac

IInv == /\ PP!IInv /\ BP!IInv
        /\ Latched /\ InOrder /\ Untouched /\ NoAttemptBehindGivenUp

LEMMA Assumptions == PP!TimeoutAssumption /\ BP!BluezAssumption
  BY TimerAssumption, PensAssumption DEF PP!TimeoutAssumption, BP!BluezAssumption

-----------------------------------------------------------------------------
(***************************************************************************)
(* What the signals do to the queue.                                       *)
(***************************************************************************)
LEMMA AppendKeepsOrder ==
    ASSUME NEW q, NEW pending \in BOOLEAN, NEW s \in Signals, Ordered(q, pending),
           s # "started" => pending
    PROVE  /\ s = "started" => \A more \in BOOLEAN : Ordered(Append(q, s), more)
           /\ Ordered(Append(q, s), FALSE)
  <1> DEFINE n == Len(q)
             r == Append(q, s)
  <1>1. /\ q \in Seq(Signals) /\ n \in Nat /\ r \in Seq(Signals)
        /\ Len(r) = n + 1 /\ r[n + 1] = s
        /\ \A i \in 1 .. n : r[i] = q[i]
    BY DEF Ordered
  <1> HIDE DEF n, r
  <1>2. ASSUME NEW i \in 1 .. Len(r), NEW j \in 1 .. Len(r), i < j,
               r[i] # "started", r[j] # "started"
        PROVE  \E k \in i .. j : r[k] = "started"
    <2>1. i \in 1 .. n /\ q[i] # "started"
      BY <1>1, <1>2
    <2>2. CASE j \in 1 .. n
      <3>1. PICK k \in i .. j : q[k] = "started"
        BY <1>1, <1>2, <2>1, <2>2 DEF Ordered, n
      <3> QED BY <1>1, <2>1, <2>2, <3>1
    <2>3. CASE j = n + 1
      <3>1. PICK k \in i .. n : q[k] = "started"
        BY <1>1, <1>2, <2>1, <2>3 DEF Ordered, n
      <3> QED BY <1>1, <2>1, <2>3, <3>1
    <2> QED BY <1>1, <2>2, <2>3
  <1>3. ASSUME s = "started", NEW i \in 1 .. Len(r)
        PROVE  \E k \in i .. Len(r) : r[k] = "started"
    BY <1>1, <1>3
  <1>4. /\ s = "started" => \A more \in BOOLEAN : Ordered(r, more)
        /\ Ordered(r, FALSE)
    BY <1>1, <1>2, <1>3 DEF Ordered
  <1> QED BY <1>4 DEF r

LEMMA TailKeepsOrder ==
    ASSUME NEW q, NEW pending \in BOOLEAN, Ordered(q, pending), q # <<>>
    PROVE  Ordered(Tail(q), pending)
  <1> DEFINE n == Len(q)
             r == Tail(q)
  <1>1. /\ q \in Seq(Signals) /\ n \in Nat \ {0} /\ r \in Seq(Signals)
        /\ Len(r) = n - 1
        /\ \A i \in 1 .. n - 1 : r[i] = q[i + 1]
    BY DEF Ordered
  <1> HIDE DEF n, r
  <1>2. ASSUME NEW i \in 1 .. Len(r), NEW j \in 1 .. Len(r), i < j,
               r[i] # "started", r[j] # "started"
        PROVE  \E k \in i .. j : r[k] = "started"
    <2>1. PICK k \in i + 1 .. j + 1 : q[k] = "started"
      BY <1>1, <1>2 DEF Ordered, n
    <2>2. k - 1 \in i .. j /\ r[k - 1] = "started"
      BY <1>1, <2>1
    <2> QED BY <2>2
  <1>3. ASSUME pending, NEW i \in 1 .. Len(r), r[i] # "started"
        PROVE  \E k \in i .. Len(r) : r[k] = "started"
    <2>1. PICK k \in i + 1 .. n : q[k] = "started"
      BY <1>1, <1>3 DEF Ordered, n
    <2>2. k - 1 \in i .. Len(r) /\ r[k - 1] = "started"
      BY <1>1, <2>1
    <2> QED BY <2>2
  <1>4. Ordered(r, pending)
    BY <1>1, <1>2, <1>3 DEF Ordered
  <1> QED BY <1>4 DEF r

-----------------------------------------------------------------------------
(***************************************************************************)
(* The program's steps are its components' steps.                          *)
(***************************************************************************)
\* The operators of Popup and of its proofs' copy are the same, and so are Bluez'.
LEMMA SamePopup ==
    /\ P!PopupInit <=> PP!PopupInit
    /\ P!Next <=> PP!Next
    /\ P!TypeOK <=> PP!TypeOK
  <1> USE DEF P!Off, PP!Off, P!Phases, PP!Phases, P!Modes, PP!Modes
  <1>1. P!PopupInit <=> PP!PopupInit
    BY DEF P!PopupInit, PP!PopupInit
  <1>2. P!Next <=> PP!Next
    BY DEF P!Next, P!DriverReport, P!ShowState, P!Reported, P!Detached, P!Refresh, P!Present,
           P!EndWaiting, P!ShowError, P!Collapse, P!Armed, P!ModeFor, P!DismissAfter, P!SetMode,
           P!Seated, P!Shown, P!OnConnectAttemptStarted, P!OnBtPaired, P!OnBtConnectionFailed,
           P!OnConnectTimeout, P!OnDismissTimeout, P!OnErrorTimeout, P!PopupTick, P!Elapsed,
           P!popupVars,
           PP!Next, PP!DriverReport, PP!ShowState, PP!Reported, PP!Detached, PP!Refresh, PP!Present,
           PP!EndWaiting, PP!ShowError, PP!Collapse, PP!Armed, PP!ModeFor, PP!DismissAfter, PP!SetMode,
           PP!Seated, PP!Shown, PP!OnConnectAttemptStarted, PP!OnBtPaired, PP!OnBtConnectionFailed,
           PP!OnConnectTimeout, PP!OnDismissTimeout, PP!OnErrorTimeout, PP!PopupTick, PP!Elapsed,
           PP!popupVars
  <1>3. P!TypeOK <=> PP!TypeOK
    BY DEF P!TypeOK, PP!TypeOK
  <1> QED BY <1>1, <1>2, <1>3

LEMMA SameBluez ==
    /\ B!BluezInit <=> BP!BluezInit
    /\ B!Next <=> BP!Next
    /\ B!TypeOK <=> BP!TypeOK
  <1> USE DEF B!NoTimer, BP!NoTimer, B!Kinds, BP!Kinds, B!NoCalls, BP!NoCalls, B!Pending, BP!Pending
  <1>1. B!BluezInit <=> BP!BluezInit
    BY DEF B!BluezInit, BP!BluezInit
  <1>2. B!Next <=> BP!Next
    BY DEF B!Next, B!Request, B!EnsurePaired, B!Cancel, B!Idle, B!Reply, B!OwnReply, B!StaleReply,
           B!Answers, B!Handle, B!OnManagedObjectsReply, B!OnStartDiscoveryReply, B!OnPairReply,
           B!OnConnectReply, B!PairAndConnectDevice, B!StartDiscovery, B!Finish, B!StopDiscovery,
           B!Send, B!With, B!Without, B!Together, B!OnInterfacesAdded, B!OnDiscoveryTimeout,
           B!BluezStopsDiscovery, B!BluezTick, B!GrantedTo, BP!GrantedTo,
           BP!Next, BP!Request, BP!EnsurePaired, BP!Cancel, BP!Idle, BP!Reply, BP!OwnReply,
           BP!StaleReply, BP!Answers, BP!Handle, BP!OnManagedObjectsReply, BP!OnStartDiscoveryReply,
           BP!OnPairReply, BP!OnConnectReply, BP!PairAndConnectDevice, BP!StartDiscovery, BP!Finish,
           BP!StopDiscovery, BP!Send, BP!With, BP!Without, BP!Together, BP!OnInterfacesAdded,
           BP!OnDiscoveryTimeout, BP!BluezStopsDiscovery, BP!BluezTick
  <1>3. B!TypeOK <=> BP!TypeOK
    BY DEF B!TypeOK, BP!TypeOK, B!Calls, BP!Calls
  <1> QED BY <1>1, <1>2, <1>3

\* A manager that is left alone takes a step of its own: it was cancelled with
\* nothing pending, or asked for the pen it is busy with.
LEMMA IdleIsAStep ==
    ASSUME pendingMac \in Pens \union {NoMac}, BluezIdle
    PROVE  B!Next
  <1>1. CASE pendingMac = NoMac
    BY <1>1 DEF BluezIdle, B!Next, B!Cancel, B!Pending
  <1>2. CASE pendingMac \in Pens
    <2>1. B!EnsurePaired(pendingMac)
      BY <1>2, PensAssumption DEF BluezIdle, B!EnsurePaired, B!Pending
    <2> QED BY <1>2, <2>1 DEF B!Next, B!Request
  <1> QED BY <1>1, <1>2

\* A report of the driver, handled by onStateChanged.
LEMMA ReportSteps ==
    ASSUME pendingMac \in Pens \union {NoMac},
           NEW a \in BOOLEAN, NEW ph \in P!Phases, NEW mac \in Pens, NEW valid \in BOOLEAN,
           OnStateChanged(a, ph, mac, valid)
    PROVE  P!DriverReport /\ B!Next /\ Posted(queue)
  <1>1. P!ShowState(a, ph) /\ Posted(queue) /\ (B!EnsurePaired(mac) \/ BluezIdle)
    BY DEF OnStateChanged
  <1>2. P!DriverReport
    BY <1>1 DEF P!DriverReport
  <1>3. B!EnsurePaired(mac) => B!Next
    BY DEF B!Next, B!Request
  <1> QED BY <1>1, <1>2, <1>3, IdleIsAStep

\* What a step of the program does to the popup, to the manager and to the queue.
LEMMA StepsProject ==
    ASSUME pendingMac \in Pens \union {NoMac}, pen \in Pens \union {NoMac}, Next
    PROVE  /\ P!Next \/ UNCHANGED popupVars
           /\ B!Next
           /\ \/ Posted(queue)
              \/ queue # <<>> /\ queue' = Tail(queue) /\ BluezIdle
  <1>r. ASSUME NEW a \in BOOLEAN, NEW ph \in P!Phases, NEW mac \in Pens, NEW valid \in BOOLEAN,
               OnStateChanged(a, ph, mac, valid)
        PROVE  P!Next /\ B!Next /\ Posted(queue)
    BY <1>r, ReportSteps DEF P!Next
  <1>p. "attaching" \in P!Phases /\ "complete" \in P!Phases
    BY DEF P!Phases
  <1>1. CASE Seat
    BY <1>1, <1>r, <1>p DEF Seat
  <1>2. CASE ReportPen
    BY <1>2, <1>r, <1>p DEF ReportPen
  <1>3. CASE Detach
    BY <1>3, <1>r, <1>p DEF Detach
  <1>4. ASSUME NEW kind \in B!Kinds, OwnReply(kind) \/ StaleReply(kind)
        PROVE  UNCHANGED popupVars /\ B!Next /\ Posted(queue)
    BY <1>4 DEF OwnReply, StaleReply, BluezStepped, PopupIdle, B!Next, B!Reply
  <1>5. CASE InterfacesAdded \/ DiscoveryTimeout \/ StopsDiscovery
    BY <1>5 DEF InterfacesAdded, DiscoveryTimeout, StopsDiscovery, BluezStepped, PopupIdle, B!Next
  <1>6. CASE Deliver
    <2>1. P!OnConnectAttemptStarted \/ P!OnBtPaired \/ P!OnBtConnectionFailed
      BY <1>6 DEF Deliver
    <2>2. queue # <<>> /\ queue' = Tail(queue) /\ BluezIdle
      BY <1>6 DEF Deliver
    <2> QED BY <2>1, <2>2, IdleIsAStep DEF P!Next
  <1>7. CASE ConnectTimedOut
    <2>1. P!OnConnectTimeout /\ B!Cancel /\ queue' = queue
      BY <1>7 DEF ConnectTimedOut, glueVars
    <2>2. emitted' = "none"
      BY <2>1 DEF B!Cancel
    <2> QED BY <2>1, <2>2 DEF P!Next, B!Next, Posted
  <1>8. CASE DismissTimeout \/ ErrorTimeout
    <2>1. (P!OnDismissTimeout \/ P!OnErrorTimeout) /\ BluezIdle /\ queue' = queue
      BY <1>8 DEF DismissTimeout, ErrorTimeout, glueVars
    <2> QED BY <2>1, IdleIsAStep DEF P!Next, Posted, BluezIdle
  <1>9. CASE Tick
    <2>1. P!PopupTick /\ (B!BluezTick \/ BluezIdle) /\ queue' = queue
      BY <1>9 DEF Tick, glueVars
    <2>2. emitted' = "none"
      BY <2>1 DEF B!BluezTick, BluezIdle
    <2> QED BY <2>1, <2>2, IdleIsAStep DEF P!Next, B!Next, Posted
  <1> QED BY <1>1, <1>2, <1>3, <1>4, <1>5, <1>6, <1>7, <1>8, <1>9 DEF Next

\* What the manager's signals say of its attempts.
Announced ==
    \/ emitted' = "none" /\ (pendingMac' # NoMac => pendingMac # NoMac)
    \/ emitted' = "started" /\ pendingMac = NoMac
    \/ emitted' \in {"paired", "failed"} /\ pendingMac # NoMac /\ pendingMac' = NoMac

LEMMA StepAnnounced ==
    ASSUME BP!IInv, B!Next
    PROVE  BP!IInv' /\ Announced
  <1>1. BP!IInv' /\ BP!Abstract!Next
    BY SameBluez, Assumptions, BP!NextKeeps
  <1> QED BY <1>1 DEF Announced, BP!Abstract!Next, BP!Abstract!Start, BP!Abstract!Verdict,
                      BP!Abstract!Silence, BP!Abstract!Work, BP!Pending

\* A manager left alone says nothing.
LEMMA IdleIsSilent ==
    ASSUME BluezIdle PROVE emitted' = "none" /\ pendingMac' = pendingMac
  BY DEF BluezIdle, B!Idle

LEMMA OrderKept ==
    ASSUME InOrder, Announced,
           \/ Posted(queue)
           \/ queue # <<>> /\ queue' = Tail(queue) /\ BluezIdle
    PROVE  InOrder'
  <1>1. CASE queue # <<>> /\ queue' = Tail(queue) /\ BluezIdle
    BY <1>1, IdleIsSilent, TailKeepsOrder DEF InOrder
  <1>2. CASE Posted(queue) /\ emitted' = "none"
    BY <1>2 DEF Posted, Announced, InOrder, Ordered
  <1>3. CASE Posted(queue) /\ emitted' # "none"
    <2>1. queue' = Append(queue, emitted') /\ emitted' \in Signals
      BY <1>3 DEF Posted, Announced, Signals
    <2>2. emitted' = "started" => Ordered(queue', pendingMac' # NoMac)
      BY <2>1, AppendKeepsOrder DEF InOrder
    <2>3. emitted' # "started" => pendingMac # NoMac /\ pendingMac' = NoMac
      BY <1>3 DEF Announced
    <2>4. Ordered(Append(queue, emitted'), FALSE)
      BY <2>1, <2>3, AppendKeepsOrder DEF InOrder
    <2> QED BY <2>1, <2>2, <2>3, <2>4 DEF InOrder, Ordered
  <1> QED BY <1>1, <1>2, <1>3

-----------------------------------------------------------------------------
(***************************************************************************)
(* The invariant, conjunct by conjunct.                                    *)
(***************************************************************************)
LEMMA IInvInitial == Init => IInv
  <1> SUFFICES ASSUME Init PROVE IInv
    OBVIOUS
  <1>1. PP!IInv /\ BP!IInv
    BY SamePopup, SameBluez, Assumptions, PP!IInvInitial, BP!IInvInitial DEF Init
  <1>2. Latched
    BY DEF Init, Latched
  <1>3. InOrder
    BY DEF Init, InOrder, Ordered, Signals
  <1>4. ~gaveUp /\ pendingMac = NoMac /\ queue = <<>>
    BY DEF Init, P!PopupInit, B!BluezInit
  <1> QED BY <1>1, <1>2, <1>3, <1>4 DEF IInv, Untouched, NoAttemptBehindGivenUp

LEMMA LatchKept == ASSUME Latched, Next PROVE Latched'
  <1>1. ASSUME NEW a \in BOOLEAN, NEW ph, NEW mac, NEW valid \in BOOLEAN,
               OnStateChanged(a, ph, mac, valid)
        PROVE  /\ pairingRequested' \in BOOLEAN
               /\ requests' = IF pairingRequested' THEN 1 ELSE 0
    <2> DEFINE over   == ~a \/ ph = "attaching"
               latch  == pairingRequested /\ ~over
               asking == a /\ valid /\ ph = "complete" /\ ~latch
               before == IF over THEN 0 ELSE requests
    <2>1. /\ pairingRequested' = (latch \/ asking)
          /\ requests' = IF asking THEN before + 1 ELSE before
      BY <1>1 DEF OnStateChanged
    <2>2. before = IF latch THEN 1 ELSE 0
      BY DEF Latched
    <2>3. asking => ~latch
      OBVIOUS
    <2> HIDE DEF before, latch, asking
    <2>4. CASE asking
      <3>1. pairingRequested' = TRUE
        BY <2>1, <2>4, Zenon
      <3>2. requests' = 1
        BY <2>1, <2>2, <2>3, <2>4
      <3> QED BY <3>1, <3>2
    <2>5. CASE ~asking
      <3>1. \/ pairingRequested' = TRUE /\ latch
            \/ pairingRequested' = FALSE /\ ~latch
        BY <2>1, <2>5, Zenon
      <3>2. requests' = IF latch THEN 1 ELSE 0
        BY <2>1, <2>2, <2>5
      <3> QED BY <3>1, <3>2
    <2> QED BY <2>4, <2>5
  <1>2. CASE Seat \/ ReportPen \/ Detach
    <2>1. pen' \in Pens \union {NoMac}
      BY <1>2 DEF Seat, ReportPen, Detach, Latched
    <2>2. \E a \in BOOLEAN, ph \in P!Phases, mac \in Pens, valid \in BOOLEAN :
              OnStateChanged(a, ph, mac, valid)
      BY <1>2 DEF Seat, ReportPen, Detach, Latched, P!Phases
    <2> QED BY <1>1, <2>1, <2>2 DEF Latched
  <1>3. CASE UNCHANGED <<pairingRequested, pen, requests>>
    BY <1>3 DEF Latched
  <1>4. ASSUME NEW kind \in B!Kinds, OwnReply(kind) \/ StaleReply(kind)
        PROVE  UNCHANGED <<pairingRequested, pen, requests>>
    BY <1>4 DEF OwnReply, StaleReply, BluezStepped
  <1>5. InterfacesAdded \/ DiscoveryTimeout \/ StopsDiscovery \/ Deliver
           => UNCHANGED <<pairingRequested, pen, requests>>
    BY DEF InterfacesAdded, DiscoveryTimeout, StopsDiscovery, BluezStepped, Deliver
  <1>6. ConnectTimedOut \/ DismissTimeout \/ ErrorTimeout \/ Tick
           => UNCHANGED <<pairingRequested, pen, requests>>
    BY DEF ConnectTimedOut, DismissTimeout, ErrorTimeout, Tick, glueVars
  <1> QED BY <1>2, <1>3, <1>4, <1>5, <1>6 DEF Next

\* The steps in which only the manager and the queue may change.
BluezStep == \/ \E kind \in B!Kinds : OwnReply(kind) \/ StaleReply(kind)
             \/ InterfacesAdded \/ DiscoveryTimeout \/ StopsDiscovery

LEMMA BluezStepKeepsPopup ==
    ASSUME BluezStep PROVE UNCHANGED <<attached, gaveUp, pen>> /\ Posted(queue)
  BY DEF BluezStep, OwnReply, StaleReply, InterfacesAdded, DiscoveryTimeout, StopsDiscovery,
         BluezStepped, PopupIdle, popupVars

\* With no attempt pending BlueZ has nothing to say that would start one.
LEMMA QuietManager ==
    ASSUME BP!IInv, pendingMac = NoMac, BluezStep
    PROVE  emitted' = "none" /\ pendingMac' = NoMac
  <1>1. own = BP!NoCalls /\ discoveryTimer = BP!NoTimer
    BY DEF BP!IInv, BP!OwnIsPending, BP!TimerIsTheAttempts, BP!Pending
  <1>2. ASSUME NEW kind \in B!Kinds, NEW ok \in BOOLEAN, B!OwnReply(kind, ok) PROVE FALSE
    BY <1>1, <1>2 DEF B!OwnReply, BP!NoCalls, B!Kinds, BP!Kinds
  <1>3. ASSUME NEW kind \in B!Kinds, NEW ok \in BOOLEAN, B!StaleReply(kind, ok)
        PROVE  emitted' = "none" /\ pendingMac' = NoMac
    BY <1>3 DEF B!StaleReply, B!Pending
  <1>4. ~B!OnInterfacesAdded /\ ~B!OnDiscoveryTimeout
    BY <1>1 DEF B!OnInterfacesAdded, B!OnDiscoveryTimeout, B!Pending, BP!NoTimer
  <1>5. B!BluezStopsDiscovery => emitted' = "none" /\ pendingMac' = NoMac
    BY DEF B!BluezStopsDiscovery
  <1> QED BY <1>2, <1>3, <1>4, <1>5 DEF BluezStep, OwnReply, StaleReply, InterfacesAdded,
                                        DiscoveryTimeout, StopsDiscovery

\* A timer that is dispatched, or time that passes, posts nothing and starts nothing.
TimeStep == ConnectTimedOut \/ DismissTimeout \/ ErrorTimeout \/ Tick

LEMMA TimeStepKeeps ==
    ASSUME TimeStep
    PROVE  /\ queue' = queue /\ pen' = pen /\ attached' = attached
           /\ pendingMac' \in {pendingMac, NoMac}
           /\ \/ gaveUp' = gaveUp /\ pendingMac' = pendingMac
              \/ ConnectTimedOut /\ pendingMac' = NoMac
  <1>1. CASE ConnectTimedOut
    <2>1. pendingMac' = NoMac
      BY <1>1 DEF ConnectTimedOut, B!Cancel, B!Finish, B!Idle, B!Pending
    <2> QED BY <1>1, <2>1 DEF ConnectTimedOut, P!OnConnectTimeout, glueVars
  <1>2. CASE DismissTimeout \/ ErrorTimeout
    BY <1>2, IdleIsSilent DEF DismissTimeout, ErrorTimeout, P!OnDismissTimeout, P!OnErrorTimeout,
                              glueVars
  <1>3. CASE Tick
    <2>1. pendingMac' = pendingMac
      BY <1>3, IdleIsSilent DEF Tick, B!BluezTick
    <2> QED BY <1>3, <2>1 DEF Tick, P!PopupTick, glueVars
  <1> QED BY <1>1, <1>2, <1>3 DEF TimeStep

LEMMA UntouchedKept == ASSUME IInv, Next PROVE Untouched'
  <1>1. CASE Seat \/ ReportPen \/ Detach
    <2>1. (Seat \/ ReportPen => attached') /\ (Detach => pen' = NoMac)
      BY DEF Seat, ReportPen, Detach, OnStateChanged, P!ShowState, P!Reported
    <2> QED BY <1>1, <2>1 DEF Untouched
  <1>2. CASE BluezStep
    BY <1>2, BluezStepKeepsPopup, QuietManager DEF IInv, Untouched, Posted
  <1>3. CASE Deliver
    <2>1. queue # <<>> /\ pen' = pen /\ attached' = attached
      BY <1>3 DEF Deliver, P!OnConnectAttemptStarted, P!OnBtPaired, P!OnBtConnectionFailed,
                  P!popupVars
    <2> QED BY <2>1 DEF IInv, Untouched
  <1>4. CASE TimeStep
    <2>1. ConnectTimedOut => attached
      BY DEF ConnectTimedOut, P!OnConnectTimeout, IInv, PP!IInv, PP!Timely,
             PP!DeadlineOnlyWhileWaiting, PP!Off
    <2> QED BY <1>4, <2>1, TimeStepKeeps DEF IInv, Untouched
  <1> QED BY <1>1, <1>2, <1>3, <1>4 DEF Next, BluezStep, TimeStep

\* What was in the queue is still there, and a new attempt has been announced in it.
LEMMA AnnouncementsStay ==
    ASSUME InOrder, Announced, Posted(queue),
           pendingMac # NoMac => Contains(queue, "started")
    PROVE  pendingMac' # NoMac => Contains(queue', "started")
  <1>1. CASE emitted' = "none"
    BY <1>1 DEF Announced, Posted
  <1>2. CASE emitted' = "started"
    <2>1. queue' = Append(queue, "started") /\ queue \in Seq(Signals)
      BY <1>2 DEF Posted, InOrder, Ordered
    <2>2. Len(queue') \in 1 .. Len(queue') /\ queue'[Len(queue')] = "started"
      BY <2>1
    <2> QED BY <2>2 DEF Contains
  <1>3. CASE emitted' \in {"paired", "failed"}
    BY <1>3 DEF Announced
  <1> QED BY <1>1, <1>2, <1>3 DEF Announced

LEMMA GivenUpKept == ASSUME IInv, Next, Announced PROVE NoAttemptBehindGivenUp'
  <1>1. CASE Seat
    BY <1>1 DEF Seat, OnStateChanged, P!ShowState, P!Reported, NoAttemptBehindGivenUp
  <1>2. CASE ReportPen
    <2>1. pen # NoMac /\ Posted(queue) /\ gaveUp' = gaveUp
      BY <1>2 DEF ReportPen, OnStateChanged, P!ShowState, P!Reported,
                  IInv, PP!IInv, PP!FlagTypes
    <2>2. gaveUp => attached
      BY <2>1 DEF IInv, Untouched
    <2> QED BY <2>1, <2>2, AnnouncementsStay DEF IInv, NoAttemptBehindGivenUp
  <1>3. CASE Detach
    BY <1>3 DEF Detach, OnStateChanged, P!ShowState, P!Detached, NoAttemptBehindGivenUp
  <1>4. CASE BluezStep
    BY <1>4, BluezStepKeepsPopup, AnnouncementsStay DEF IInv, NoAttemptBehindGivenUp
  <1>5. CASE Deliver
    <2>1. queue # <<>> /\ queue' = Tail(queue) /\ pendingMac' = pendingMac
      BY <1>5, IdleIsSilent DEF Deliver
    <2>2. CASE Head(queue) = "failed"
      <3>1. ASSUME pendingMac # NoMac PROVE Contains(Tail(queue), "started")
        <4>1. queue \in Seq(Signals) /\ Len(queue) \in Nat \ {0} /\ queue[1] = "failed"
          BY <2>1, <2>2 DEF IInv, InOrder, Ordered
        <4>2. PICK k \in 1 .. Len(queue) : queue[k] = "started"
          BY <3>1, <4>1 DEF IInv, InOrder, Ordered
        <4>3. k - 1 \in 1 .. Len(Tail(queue)) /\ Tail(queue)[k - 1] = "started"
          BY <2>1, <4>1, <4>2
        <4> QED BY <4>3 DEF Contains
      <3> QED BY <2>1, <3>1 DEF NoAttemptBehindGivenUp
    <2>3. CASE P!OnConnectAttemptStarted \/ P!OnBtPaired
      <3>1. attached' => ~gaveUp'
        BY <2>3 DEF P!OnConnectAttemptStarted, P!OnBtPaired, P!popupVars
      <3> QED BY <3>1 DEF NoAttemptBehindGivenUp
    <2> QED BY <1>5, <2>2, <2>3 DEF Deliver
  <1>6. CASE TimeStep
    BY <1>6, TimeStepKeeps DEF IInv, NoAttemptBehindGivenUp
  <1> QED BY <1>1, <1>2, <1>3, <1>4, <1>5, <1>6 DEF Next, BluezStep, TimeStep

LEMMA IInvInductive ==
    ASSUME IInv, [Next]_vars
    PROVE  IInv' /\ [P!Next]_popupVars /\ [B!Next]_bluezVars
  <1>1. CASE UNCHANGED vars
    <2>1. UNCHANGED popupVars /\ UNCHANGED bluezVars
      BY <1>1 DEF vars
    <2>2. PP!IInv'
      BY <2>1, Assumptions, PP!IInvInductive DEF IInv, popupVars, PP!popupVars
    <2>3. BP!IInv'
      BY <2>1, Assumptions, BP!StepKeeps DEF IInv, bluezVars, BP!bluezVars
    <2>4. Latched' /\ InOrder' /\ Untouched' /\ NoAttemptBehindGivenUp'
      BY <1>1 DEF IInv, vars, popupVars, bluezVars, glueVars, Latched, InOrder, Untouched,
                  NoAttemptBehindGivenUp
    <2> QED BY <2>1, <2>2, <2>3, <2>4 DEF IInv
  <1>2. CASE Next
    <2>1. pendingMac \in Pens \union {NoMac} /\ pen \in Pens \union {NoMac}
      BY DEF IInv, Latched, BP!IInv, BP!FlagTypes
    <2>2. /\ P!Next \/ UNCHANGED popupVars
          /\ B!Next
          /\ \/ Posted(queue)
             \/ queue # <<>> /\ queue' = Tail(queue) /\ BluezIdle
      BY <1>2, <2>1, StepsProject
    <2>3. PP!IInv'
      BY <2>2, SamePopup, Assumptions, PP!IInvInductive DEF IInv, popupVars, PP!popupVars
    <2>4. BP!IInv' /\ Announced
      BY <2>2, StepAnnounced DEF IInv
    <2>5. Latched' /\ InOrder'
      BY <1>2, <2>2, <2>4, LatchKept, OrderKept DEF IInv
    <2>6. Untouched' /\ NoAttemptBehindGivenUp'
      BY <1>2, <2>4, UntouchedKept, GivenUpKept
    <2> QED BY <2>2, <2>3, <2>4, <2>5, <2>6 DEF IInv
  <1> QED BY <1>1, <1>2

LEMMA IInvAlways == Spec => []IInv
  BY IInvInitial, IInvInductive, PTL DEF Spec

-----------------------------------------------------------------------------
\* Every behaviour of the program is one of the popup and one of the manager:
\* the wiring calls neither in a way its own module does not foresee.
THEOREM Components == Spec => [][P!Next]_popupVars /\ [][B!Next]_bluezVars
  BY IInvAlways, IInvInductive, PTL DEF Spec

\* In the program, too, no pill stays up with nothing left to take it down.
THEOREM EveryPillHasADeadline == Spec => []P!ShownHasDeadline
  <1>1. IInv => P!ShownHasDeadline
    BY DEF IInv, PP!IInv, PP!Timely, PP!ShownHasDeadline, P!ShownHasDeadline,
           PP!Shown, P!Shown, PP!Off, P!Off
  <1> QED BY <1>1, IInvAlways, PTL

\* In the program, too, a pending attempt has a call in flight or the discovery timer.
THEOREM NeverStuck == Spec => []B!NoStuckAttempt
  <1>1. IInv => B!NoStuckAttempt
    BY DEF IInv, BP!IInv, BP!NoStuckAttempt, B!NoStuckAttempt, BP!Pending, B!Pending,
           BP!NoTimer, B!NoTimer, BP!Calls, B!Calls, BP!Kinds, B!Kinds, BP!NoCalls, B!NoCalls
  <1> QED BY <1>1, IInvAlways, PTL

\* In the program, too, the manager's signals are those of attempts that run one at a
\* time, each announced once and closed by at most one verdict.
THEOREM ProgramAttempts == Spec => B!ImplementsAttempts
  <1> USE DEF B!Pending, BP!Pending
  <1>1. Init => B!Abstract!Init
    BY DEF Init, B!BluezInit, B!Abstract!Init
  <1>2. IInv /\ [Next]_vars => [B!Abstract!Next]_(B!Abstract!vars)
    <2> SUFFICES ASSUME IInv, [Next]_vars PROVE [B!Abstract!Next]_(B!Abstract!vars)
      OBVIOUS
    <2>1. BP!IInv /\ [BP!Next]_(BP!bluezVars)
      BY IInvInductive, SameBluez DEF IInv, bluezVars, BP!bluezVars
    <2>2. [BP!Abstract!Next]_(BP!Abstract!vars)
      BY <2>1, Assumptions, BP!StepKeeps
    <2> QED BY <2>2 DEF B!Abstract!Next, B!Abstract!vars, BP!Abstract!Next, BP!Abstract!vars,
                        B!Abstract!Start, B!Abstract!Verdict, B!Abstract!Silence, B!Abstract!Work,
                        BP!Abstract!Start, BP!Abstract!Verdict, BP!Abstract!Silence, BP!Abstract!Work
  <1> QED BY <1>1, <1>2, IInvAlways, PTL DEF Spec, B!ImplementsAttempts, B!Abstract!Spec

\* In the program, too, the popup keeps what PillStages promises of a stage and its pill,
\* with its handlers called by main()'s wiring alone.
THEOREM ProgramStages == Spec => P!ImplementsStages
  <1>1. Init => PP!OnlyOfThePen /\ P!Stages!Init
    BY DEF Init, P!PopupInit, PP!OnlyOfThePen, P!Stages!Init, P!Stage, P!Pill
  <1>2. IInv /\ PP!OnlyOfThePen /\ [Next]_vars => PP!OnlyOfThePen' /\ PP!StageStep
    <2> SUFFICES ASSUME IInv, PP!OnlyOfThePen, [Next]_vars PROVE PP!OnlyOfThePen' /\ PP!StageStep
      OBVIOUS
    <2>1. PP!IInv /\ [PP!Next]_(PP!popupVars)
      BY IInvInductive, SamePopup DEF IInv, popupVars, PP!popupVars
    <2> QED BY <2>1, Assumptions, PP!StageSimulation
  <1>3. PP!StageStep => [P!Stages!Next]_(P!Stages!vars)
    BY DEF PP!StageStep, P!Stage, PP!Stage, P!Pill, PP!Pill, P!Stages!Next, P!Stages!vars,
           P!Stages!Wait, P!Stages!Confirm, P!Stages!GiveUp, P!Stages!Leave, P!Stages!TakeDown,
           PP!Stages!Wait, PP!Stages!Confirm, PP!Stages!GiveUp, PP!Stages!Leave, PP!Stages!TakeDown
  <1> QED BY <1>1, <1>2, <1>3, IInvAlways, PTL DEF Spec, P!ImplementsStages, P!Stages!Spec

\* The program's state keeps its types, and the driver its bounds.
THEOREM ProgramTypes == Spec => []TypeOK
  <1> DEFINE Bounded == seats \in 0 .. MaxSeats /\ reports \in 0 .. MaxReports
  <1>1. Init => Bounded
    BY BoundAssumption DEF Init
  <1>2. ASSUME Bounded, [Next]_vars PROVE Bounded'
    <2>1. CASE Seat \/ ReportPen \/ Detach
      <3>1. \/ seats < MaxSeats /\ seats' = seats + 1 /\ reports' = reports
            \/ reports < MaxReports /\ reports' = reports + 1 /\ seats' = seats
        BY <2>1 DEF Seat, ReportPen, Detach
      <3> QED BY <1>2, <3>1, BoundAssumption
    <2>2. ASSUME UNCHANGED <<seats, reports>> PROVE Bounded'
      BY <1>2, <2>2
    <2>3. Seat \/ ReportPen \/ Detach \/ UNCHANGED <<seats, reports>>
      BY <1>2 DEF Next, OwnReply, StaleReply, InterfacesAdded, DiscoveryTimeout, StopsDiscovery,
                  BluezStepped, Deliver, ConnectTimedOut, DismissTimeout, ErrorTimeout, Tick,
                  vars, glueVars
    <2> QED BY <2>1, <2>2, <2>3
  <1>3. ASSUME IInv, Bounded PROVE TypeOK
    <2>1. P!TypeOK
      BY <1>3, SamePopup DEF IInv, PP!IInv, PP!FlagTypes, PP!TimerTypes, PP!TypeOK
    <2>2. B!TypeOK
      BY <1>3, SameBluez DEF IInv, BP!IInv, BP!FlagTypes, BP!CallTypes, BP!TimerTypes, BP!TypeOK
    <2>3. \A i \in DOMAIN queue : queue[i] \in {"started", "paired", "failed"}
      BY <1>3 DEF IInv, InOrder, Ordered, Signals
    <2> QED BY <1>3, <2>1, <2>2, <2>3 DEF TypeOK, IInv, Latched
  <1> QED BY <1>1, <1>2, <1>3, IInvAlways, PTL DEF Spec

\* A stage asks BlueZ for the pen at most once (main()'s pairingRequested latch).
THEOREM OneRequest == Spec => []OneRequestPerStage
  <1>1. IInv => OneRequestPerStage
    BY DEF IInv, Latched, OneRequestPerStage
  <1> QED BY <1>1, IInvAlways, PTL

\* Between two verdicts that wait in the queue an attempt was announced.
THEOREM Announcements == Spec => []VerdictsAnnounced
  <1>1. IInv => VerdictsAnnounced
    <2> SUFFICES ASSUME InOrder PROVE VerdictsAnnounced
      BY DEF IInv
    <2>1. DOMAIN queue = 1 .. Len(queue)
      BY DEF InOrder, Ordered
    <2> QED BY <2>1 DEF InOrder, Ordered, VerdictsAnnounced
  <1> QED BY <1>1, IInvAlways, PTL

\* No attempt goes on unseen behind a popup that gave up on a seated pen.
THEOREM NoUnseenAttempt == Spec => []NoAttemptBehindGivenUp
  <1>1. IInv => NoAttemptBehindGivenUp
    BY DEF IInv
  <1> QED BY <1>1, IInvAlways, PTL

\* A fresh seat is waited for, for the whole time or, if a wait is still running, for
\* what is left of that.
THEOREM SeatsWait == Spec => EverySeatWaits
  <1> DEFINE Awaited == IF connectTimer = P!Off THEN ConnectTimeoutMs ELSE connectTimer
  <1>1. ASSUME IInv, Seat
        PROVE  /\ mode' = "Compact" /\ ~btPaired' /\ ~gaveUp'
               /\ ConnectTimeoutMs > 0 => connectTimer' = Awaited
    <2>1. P!Reported("attaching")
      BY <1>1 DEF Seat, OnStateChanged, P!ShowState
    <2>2. btPaired' = FALSE /\ gaveUp' = FALSE
      BY <2>1 DEF P!Reported
    <2>3. mode \in P!Modes
      BY <1>1 DEF IInv, PP!IInv, PP!FlagTypes, PP!Modes, P!Modes
    <2>4. P!DeadlineOnlyWhileWaiting
      BY <1>1 DEF IInv, PP!IInv, PP!Timely, PP!DeadlineOnlyWhileWaiting,
                  P!DeadlineOnlyWhileWaiting, PP!Off, P!Off
    <2>5. ASSUME mode \in {"Hidden", "Error"}, P!Present(TRUE, "attaching", FALSE, P!Off)
          PROVE  mode' = "Compact" /\ (ConnectTimeoutMs > 0 => connectTimer' = Awaited)
      <3>1. connectTimer = P!Off
        BY <2>4, <2>5 DEF P!DeadlineOnlyWhileWaiting
      <3> QED BY <2>5, <3>1, TimerAssumption
              DEF P!Present, P!SetMode, P!ModeFor, P!Seated, P!Armed
    <2>6. ASSUME P!Refresh(TRUE, "attaching", FALSE)
          PROVE  mode' = "Compact" /\ (ConnectTimeoutMs > 0 => connectTimer' = Awaited)
      BY <2>6, TimerAssumption DEF P!Refresh, P!SetMode, P!ModeFor, P!Seated, P!Armed
    <2>7. \/ mode \in {"Hidden", "Error"} /\ P!Present(TRUE, "attaching", FALSE, P!Off)
          \/ P!Refresh(TRUE, "attaching", FALSE)
      BY <2>1, <2>2, <2>3 DEF P!Reported, P!Modes
    <2> QED BY <2>2, <2>5, <2>6, <2>7
  <1>2. ASSUME Next, seats' # seats PROVE Seat
    BY <1>2 DEF Next, ReportPen, Detach, OwnReply, StaleReply, InterfacesAdded, DiscoveryTimeout,
                StopsDiscovery, BluezStepped, Deliver, ConnectTimedOut, DismissTimeout,
                ErrorTimeout, Tick, glueVars
  <1>3. ASSUME IInv, [Next]_vars
        PROVE  [seats' # seats => /\ mode' = "Compact" /\ ~btPaired' /\ ~gaveUp'
                                  /\ ConnectTimeoutMs > 0 => connectTimer' = Awaited]_vars
    BY <1>1, <1>2, <1>3 DEF vars, glueVars
  <1> QED BY <1>3, IInvAlways, PTL DEF Spec, EverySeatWaits
=============================================================================
