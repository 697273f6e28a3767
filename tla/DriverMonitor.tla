--------------------------- MODULE DriverMonitor ---------------------------
(***************************************************************************)
(* StylusMonitor (src/src/stylusmonitor.cpp): a thread that blocks in      *)
(* read() on the pen driver's device and posts every report, and stop(),   *)
(* which another thread calls to end it by closing that descriptor under   *)
(* its feet.                                                               *)
(*                                                                         *)
(* What is shared is m_running, m_fd and, through the descriptor *number*, *)
(* the process's table of open files: a number that was closed may belong  *)
(* to another file by the time it is used.  A read that is already blocked *)
(* holds on to its file and does not notice that the number was closed.    *)
(***************************************************************************)
EXTENDS Integers

CONSTANT Numbers        \* bound: the descriptor numbers of the process

ASSUME NumbersAssumption == Numbers \subseteq Nat

None == -1

VARIABLES
    pc,                 \* where run() is
    fd,                 \* its local descriptor
    inode,              \* the file its blocked read() waits on
    running, m_fd,      \* the two atomics
    caller, held,       \* where stop() is, and the descriptor it took
    table,              \* external: the process's descriptor table
    device,             \* external: "absent", "working" or "broken"
    pending             \* external: whether the driver has a report to return

threadVars == <<pc, fd, inode>>
callerVars == <<caller, held>>
sharedVars == <<running, m_fd, table>>
driverVars == <<device, pending>>
vars == <<threadVars, callerVars, sharedVars, driverVars>>

\* open() gives some free number; that it is the lowest changes nothing here.
Free == {n \in Numbers : table[n] = "free"}
Opened(n, file) == table' = [table EXCEPT ![n] = file]
Closed(n)       == table' = [table EXCEPT ![n] = "free"]

Init ==
    /\ pc = "start" /\ fd = None /\ inode = "none"
    /\ running = TRUE /\ m_fd = None
    /\ caller = "idle" /\ held = None
    /\ table \in [Numbers -> {"free", "other"}]
    /\ device \in {"absent", "working"} /\ pending = FALSE

-----------------------------------------------------------------------------
(***************************************************************************)
(* run()                                                                   *)
(***************************************************************************)
OpenDevice ==
    /\ pc = "start"
    /\ \/ /\ device # "absent"
          /\ \E n \in Free : fd' = n /\ Opened(n, "device")
          /\ pc' = "publish"
       \/ /\ device = "absent" \/ Free = {}
          /\ pc' = "done"
          /\ UNCHANGED <<fd, table>>
    /\ UNCHANGED <<inode, running, m_fd, callerVars, driverVars>>

\* Mutant: a monitor that was stopped meanwhile does not publish its descriptor.
PublishUnlessStopped ==
    /\ pc = "publish" /\ pc' = IF running THEN "check" ELSE "done"
    /\ m_fd' = IF running THEN fd ELSE m_fd
    /\ UNCHANGED <<fd, inode, running, table, callerVars, driverVars>>

Publish ==
    /\ pc = "publish" /\ pc' = "check"
    /\ m_fd' = fd
    /\ UNCHANGED <<fd, inode, running, table, callerVars, driverVars>>

\* Mutant: for (;;)
CheckNothing ==
    /\ pc = "check" /\ pc' = "read"
    /\ UNCHANGED <<fd, inode, sharedVars, callerVars, driverVars>>

Check ==
    /\ pc = "check"
    /\ pc' = IF running THEN "read" ELSE "leave"
    /\ UNCHANGED <<fd, inode, sharedVars, callerVars, driverVars>>

\* read(fd) looks the number up; on a closed one it fails at once.
EnterRead ==
    /\ pc = "read"
    /\ \/ table[fd] = "free" /\ pc' = "leave" /\ UNCHANGED inode
       \/ table[fd] # "free" /\ pc' = "blocked" /\ inode' = table[fd]
    /\ UNCHANGED <<fd, sharedVars, callerVars, driverVars>>

\* The driver's report is read whole and posted.
ReadReport ==
    /\ pc = "blocked" /\ inode = "device" /\ device = "working" /\ pending
    /\ pending' = FALSE
    /\ pc' = "check" /\ inode' = "none"
    /\ UNCHANGED <<fd, device, sharedVars, callerVars>>

\* A failed or a short read ends the loop.
ReadFails ==
    /\ pc = "blocked" /\ inode = "device" /\ device = "broken"
    /\ pc' = "leave" /\ inode' = "none"
    /\ UNCHANGED <<fd, sharedVars, callerVars, driverVars>>

\* Whatever another file has to return; it may well never return.
ReadForeign ==
    /\ pc = "blocked" /\ inode = "other"
    /\ pc' \in {"check", "leave"} /\ inode' = "none"
    /\ UNCHANGED <<fd, sharedVars, callerVars, driverVars>>

\* Mutant: EINTR is a failure.
InterruptedGivesUp ==
    /\ pc = "blocked" /\ ~pending
    /\ pc' = "leave" /\ inode' = "none"
    /\ UNCHANGED <<fd, sharedVars, callerVars, driverVars>>

\* A signal interrupts a read that has nothing to return; read() is called again,
\* with the number.
Interrupted ==
    /\ pc = "blocked" /\ ~pending
    /\ pc' = "read" /\ inode' = "none"
    /\ UNCHANGED <<fd, sharedVars, callerVars, driverVars>>

\* The exchange that decides which of the two closes the descriptor.
Leave ==
    /\ pc = "leave"
    /\ fd' = m_fd /\ m_fd' = None
    /\ pc' = IF m_fd = None THEN "done" ELSE "close"
    /\ UNCHANGED <<inode, running, table, callerVars, driverVars>>

CloseOwn ==
    /\ pc = "close" /\ pc' = "done"
    /\ Closed(fd)
    /\ UNCHANGED <<fd, inode, running, m_fd, callerVars, driverVars>>

-----------------------------------------------------------------------------
(***************************************************************************)
(* stop(), which may be called again, and the destructor's wait().         *)
(***************************************************************************)
\* Mutant: the descriptor first, then the flag.
StopStoresLast ==
    /\ \/ caller = "idle" /\ caller' = "stored" /\ UNCHANGED running
       \/ caller = "stopped" /\ running /\ running' = FALSE /\ UNCHANGED caller
    /\ UNCHANGED <<held, m_fd, table, threadVars, driverVars>>

StopStore ==
    /\ caller \in {"idle", "stopped"} /\ caller' = "stored"
    /\ running' = FALSE
    /\ UNCHANGED <<held, m_fd, table, threadVars, driverVars>>

\* Mutant: the descriptor is read, not taken.
StopLoad ==
    /\ caller = "stored"
    /\ held' = m_fd /\ UNCHANGED m_fd
    /\ caller' = IF m_fd = None THEN "stopped" ELSE "close"
    /\ UNCHANGED <<running, table, threadVars, driverVars>>

StopExchange ==
    /\ caller = "stored"
    /\ held' = m_fd /\ m_fd' = None
    /\ caller' = IF m_fd = None THEN "stopped" ELSE "close"
    /\ UNCHANGED <<running, table, threadVars, driverVars>>

StopClose ==
    /\ caller = "close" /\ caller' = "stopped"
    /\ Closed(held)
    /\ UNCHANGED <<held, running, m_fd, threadVars, driverVars>>

Wait ==
    /\ caller = "stopped" /\ pc = "done"
    /\ caller' = "joined"
    /\ UNCHANGED <<held, threadVars, sharedVars, driverVars>>

-----------------------------------------------------------------------------
(***************************************************************************)
(* The rest of the process, which opens and closes files of its own, and   *)
(* the driver.                                                             *)
(***************************************************************************)
OtherOpens(n) ==
    /\ n \in Free /\ Opened(n, "other")
    /\ UNCHANGED <<running, m_fd, threadVars, callerVars, driverVars>>

OtherCloses(n) ==
    /\ table[n] = "other" /\ Closed(n)
    /\ UNCHANGED <<running, m_fd, threadVars, callerVars, driverVars>>

DriverReports ==
    /\ device = "working" /\ pending' = TRUE
    /\ UNCHANGED <<device, threadVars, callerVars, sharedVars>>

DeviceBreaks ==
    /\ device = "working" /\ device' = "broken"
    /\ UNCHANGED <<pending, threadVars, callerVars, sharedVars>>

-----------------------------------------------------------------------------
Run == OpenDevice \/ Publish \/ Check \/ EnterRead \/ ReadReport \/ ReadFails
       \/ Leave \/ CloseOwn

Stop == StopStore \/ StopExchange \/ StopClose \/ Wait

Environment == \/ Interrupted \/ ReadForeign
               \/ \E n \in Numbers : OtherOpens(n) \/ OtherCloses(n)
               \/ DriverReports \/ DeviceBreaks

Next == Run \/ Stop \/ Environment

\* The thread is scheduled, and so is a caller inside stop(); whether stop() is
\* called, and whether the driver has anything to report, is nobody's duty.
Spec == Init /\ [][Next]_vars /\ WF_vars(Run) /\ WF_vars(StopExchange \/ StopClose)

-----------------------------------------------------------------------------
TypeOK ==
    /\ pc \in {"start", "publish", "check", "read", "blocked", "leave", "close", "done"}
    /\ fd \in Numbers \union {None} /\ inode \in {"none", "device", "other"}
    /\ running \in BOOLEAN /\ m_fd \in Numbers \union {None}
    /\ caller \in {"idle", "stored", "close", "stopped", "joined"}
    /\ held \in Numbers \union {None}
    /\ table \in [Numbers -> {"free", "other", "device"}]
    /\ device \in {"absent", "working", "broken"} /\ pending \in BOOLEAN

\* Whoever closes the descriptor closes the device, never a file that was opened
\* under the same number since: the two ends of run() and stop() cannot both have it.
ClosesOnlyItsOwn ==
    /\ pc = "close" => table[fd] = "device"
    /\ caller = "close" => table[held] = "device"

\* The thread reads from another file under its old number at most once it has been
\* told to stop, never while it is meant to run.
ReadsItsOwn == inode = "other" => ~running

\* When the thread is gone and nobody is inside stop(), the device is closed,
\* whether stop() came before the descriptor was published or after.
NothingLeaks ==
    pc = "done" /\ caller # "close" => \A n \in Numbers : table[n] # "device"

\* A running monitor that got its descriptor reads what the driver reports, signals
\* or not.
ReportsAreRead ==
    pending ~> \/ ~pending \/ ~running \/ device = "broken"
               \/ pc = "done" /\ fd = None

\* close() does not end a read that is blocked, but the next report does: if the
\* driver always reports again and works, a stopped thread ends, unless its read went to
\* another file.
StopIsNoticed ==
    []<>pending => (~running ~> pc = "done" \/ inode = "other")
=============================================================================
