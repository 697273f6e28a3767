------------------------ MODULE DriverMonitorProofs ------------------------
(***************************************************************************)
(* The custody of the driver's descriptor, whatever numbers the process    *)
(* uses and however often its other files come and go.                     *)
(*                                                                         *)
(* At every moment at most one of four holds it: run() before it published *)
(* it, m_fd, run() after it took it back, stop() after it took it.  An     *)
(* exchange hands it on whole, and who holds it knows that the number is   *)
(* still the device's, because nobody else closes it.                      *)
(***************************************************************************)
EXTENDS DriverMonitor, TLAPS

\* The thread holds the descriptor itself.
OwnHands == pc \in {"publish", "close"}

\* Whoever holds a number holds the device's, and alone.
Custody ==
    /\ m_fd # None => table[m_fd] = "device"
    /\ OwnHands => fd \in Numbers /\ table[fd] = "device" /\ m_fd = None /\ caller # "close"
    /\ caller = "close" => held \in Numbers /\ table[held] = "device" /\ m_fd = None
    /\ pc = "start" => m_fd = None /\ caller # "close"
    /\ pc = "done" => m_fd = None

\* Nobody else does.
Accounted ==
    \A n \in Numbers : table[n] = "device" =>
        n = m_fd \/ (OwnHands /\ n = fd) \/ (caller = "close" /\ n = held)

\* Until stop() has stored its flag, the number that run() reads from is the published one.
OnDuty ==
    /\ ~running \/ caller = "idle"
    /\ ~running \/ inode # "other"
    /\ pc \in {"check", "read", "blocked"} => fd \in Numbers /\ (~running \/ fd = m_fd)

IInv == TypeOK /\ Custody /\ Accounted /\ OnDuty

LEMMA IInvInitial == Init => IInv
  BY NumbersAssumption DEF Init, IInv, TypeOK, Custody, Accounted, OnDuty, OwnHands, None

LEMMA TypeInductive == ASSUME IInv, [Next]_vars PROVE TypeOK'
  <1> USE DEF IInv, TypeOK, Opened, Closed, Free
  <1> USE DEF threadVars, callerVars, sharedVars, driverVars
  <1>1. CASE Run
    <2>1. CASE OpenDevice
      BY <2>1 DEF OpenDevice
    <2>2. CASE Publish \/ Check
      BY <2>2 DEF Publish, Check
    <2>3. CASE Leave
      BY <2>3 DEF Leave
    <2>4. CASE EnterRead \/ ReadReport \/ ReadFails
      BY <2>4 DEF OnDuty, EnterRead, ReadReport, ReadFails
    <2>5. CASE CloseOwn
      BY <2>5 DEF CloseOwn
    <2> QED BY <1>1, <2>1, <2>2, <2>3, <2>4, <2>5 DEF Run
  <1>2. CASE Stop
    <2>1. CASE StopStore \/ StopExchange \/ Wait
      BY <2>1 DEF StopStore, StopExchange, Wait
    <2>2. CASE StopClose
      BY <2>2 DEF StopClose
    <2> QED BY <1>2, <2>1, <2>2 DEF Stop
  <1>3. CASE Environment
    <2>1. CASE Interrupted \/ ReadForeign \/ DriverReports \/ DeviceBreaks
      BY <2>1 DEF Interrupted, ReadForeign, DriverReports, DeviceBreaks
    <2>2. ASSUME NEW n \in Numbers, OtherOpens(n) \/ OtherCloses(n) PROVE TypeOK'
      BY <2>2 DEF OtherOpens, OtherCloses
    <2> QED BY <1>3, <2>1, <2>2 DEF Environment
  <1>4. CASE UNCHANGED vars
    BY <1>4 DEF vars
  <1> QED BY <1>1, <1>2, <1>3, <1>4 DEF Next

\* The descriptor changes hands, and the table, in one piece.
LEMMA CustodyInductive == ASSUME IInv, [Next]_vars PROVE Custody' /\ Accounted'
  <1> USE NumbersAssumption
  <1> USE DEF IInv, TypeOK, Custody, Accounted, OwnHands, None, Opened, Closed, Free
  <1> USE DEF threadVars, callerVars, sharedVars, driverVars
  <1>1. CASE Run
    <2>1. CASE OpenDevice
      BY <2>1 DEF OpenDevice
    <2>2. CASE Publish
      BY <2>2 DEF Publish
    <2>3. CASE Check \/ EnterRead \/ ReadReport \/ ReadFails
      BY <2>3 DEF Check, EnterRead, ReadReport, ReadFails
    <2>4. CASE Leave
      BY <2>4 DEF Leave
    <2>5. CASE CloseOwn
      BY <2>5 DEF CloseOwn
    <2> QED BY <1>1, <2>1, <2>2, <2>3, <2>4, <2>5 DEF Run
  <1>2. CASE Stop
    <2>1. CASE StopStore \/ Wait
      BY <2>1 DEF StopStore, Wait
    <2>2. CASE StopExchange
      BY <2>2 DEF StopExchange
    <2>3. CASE StopClose
      BY <2>3 DEF StopClose
    <2> QED BY <1>2, <2>1, <2>2, <2>3 DEF Stop
  <1>3. CASE Environment
    <2>1. CASE Interrupted \/ ReadForeign \/ DriverReports \/ DeviceBreaks
      BY <2>1 DEF Interrupted, ReadForeign, DriverReports, DeviceBreaks
    <2>2. ASSUME NEW n \in Numbers, OtherOpens(n) \/ OtherCloses(n)
          PROVE  Custody' /\ Accounted'
      BY <2>2 DEF OtherOpens, OtherCloses
    <2> QED BY <1>3, <2>1, <2>2 DEF Environment
  <1>4. CASE UNCHANGED vars
    BY <1>4 DEF vars
  <1> QED BY <1>1, <1>2, <1>3, <1>4 DEF Next

\* stop() clears the flag before it takes the number away.
LEMMA OnDutyInductive == ASSUME IInv, [Next]_vars PROVE OnDuty'
  <1> USE NumbersAssumption
  <1> USE DEF IInv, TypeOK, Custody, OnDuty, OwnHands, None
  <1> USE DEF threadVars, callerVars, sharedVars, driverVars
  <1>1. CASE Run
    <2>1. CASE OpenDevice \/ Publish \/ Check
      BY <2>1 DEF OpenDevice, Publish, Check
    <2>2. CASE EnterRead \/ ReadReport \/ ReadFails
      BY <2>2 DEF EnterRead, ReadReport, ReadFails
    <2>3. CASE Leave \/ CloseOwn
      BY <2>3 DEF Leave, CloseOwn
    <2> QED BY <1>1, <2>1, <2>2, <2>3 DEF Run
  <1>2. CASE Stop
    BY <1>2 DEF Stop, StopStore, StopExchange, StopClose, Wait
  <1>3. CASE Environment
    BY <1>3 DEF Environment, Interrupted, ReadForeign, OtherOpens, OtherCloses,
                DriverReports, DeviceBreaks
  <1>4. CASE UNCHANGED vars
    BY <1>4 DEF vars
  <1> QED BY <1>1, <1>2, <1>3, <1>4 DEF Next

LEMMA IInvInvariant == Spec => []IInv
  <1>1. Init => IInv
    BY IInvInitial
  <1>2. IInv /\ [Next]_vars => IInv'
    BY TypeInductive, CustodyInductive, OnDutyInductive DEF IInv
  <1> QED BY <1>1, <1>2, PTL DEF Spec

-----------------------------------------------------------------------------
\* The types of the two threads' variables and of the descriptor table hold.
THEOREM DriverTypes == Spec => []TypeOK
  <1>1. IInv => TypeOK
    BY DEF IInv
  <1> QED BY <1>1, IInvInvariant, PTL

\* Neither run() nor stop() ever closes a number that is not the device's any more.
THEOREM DriverClosesOnlyItsOwn == Spec => []ClosesOnlyItsOwn
  <1>1. IInv => ClosesOnlyItsOwn
    BY DEF IInv, Custody, OwnHands, ClosesOnlyItsOwn
  <1> QED BY <1>1, IInvInvariant, PTL

\* A thread that has not been told to stop reads from the device only.
THEOREM DriverReadsItsOwn == Spec => []ReadsItsOwn
  <1>1. IInv => ReadsItsOwn
    BY DEF IInv, OnDuty, ReadsItsOwn
  <1> QED BY <1>1, IInvInvariant, PTL

\* The device does not stay open when both threads are through with it.
THEOREM DriverLeaksNothing == Spec => []NothingLeaks
  <1>1. ASSUME IInv, pc = "done", caller # "close", NEW n \in Numbers
        PROVE  table[n] # "device"
    <2>1. n # m_fd
      BY <1>1, NumbersAssumption DEF IInv, Custody, None
    <2> QED BY <1>1, <2>1 DEF IInv, Accounted, OwnHands
  <1>2. IInv => NothingLeaks
    BY <1>1 DEF NothingLeaks
  <1> QED BY <1>2, IInvInvariant, PTL
=============================================================================
