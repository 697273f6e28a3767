--------------------------- MODULE ButtonMonitor ---------------------------
(***************************************************************************)
(* StylusButtonMonitor (src/src/stylusbuttons.cpp): the thread that finds  *)
(* the pen's input nodes, drains their key events into the gesture         *)
(* detectors of GestureLogic and sleeps in poll() until the next event or  *)
(* the next deadline.  It runs beside the kernel, which adds and removes   *)
(* nodes and queues events, the clock, and the thread that calls stop().   *)
(*                                                                         *)
(* One turn of the loop is check - poll - drain - scan - flush; everything *)
(* else may happen between two of them.  A node is known by its path, and  *)
(* Paths are the paths the pen's nodes may take; one button per node.      *)
(***************************************************************************)
EXTENDS GestureLogic, Sequences, FiniteSetsExt, SequencesExt

CONSTANTS Paths,
          Repeat,       \* the `repeat` option
          RescanMs,     \* kRescanMs, in ticks
          MaxQueue      \* events evdev buffers for a reader

ASSUME MonitorAssumption == /\ Repeat \in BOOLEAN
                            /\ RescanMs \in Nat \ {0} /\ MaxQueue \in Nat \ {0, 1}

VARIABLES
    pc,                 \* where the thread is
    fd,                 \* per path: "closed", "open", or "hung" (its device is gone)
    detector,           \* per path: the watched node's detector
    sleepLeft,          \* ticks left of the poll timeout
    ready,              \* paths poll() returned revents for
    rescan,
    running, wake,      \* m_running, and whether m_wakeFd is readable
    caller,             \* stop(): "idle", "stored", "stopped"
    node,               \* external: "absent", "locked" (no permission yet), "ready"
    inotify,            \* external: whether the inotify fd is readable
    button, queue,      \* external: per path, the button and the unread events
    lost                \* ghost: paths whose newest event the kernel dropped

threadVars == <<pc, fd, detector, sleepLeft, ready, rescan>>
stopVars   == <<running, wake, caller>>
kernelVars == <<node, inotify, button, queue, lost>>
vars == <<threadVars, stopVars, kernelVars>>

Watched(p) == fd[p] # "closed"

Init ==
    /\ pc = "scan" /\ rescan = TRUE /\ ready = {}     \* run() scans before it loops
    /\ fd = [p \in Paths |-> "closed"]
    /\ detector = [p \in Paths |-> Configured]
    /\ sleepLeft = 0
    /\ running = TRUE /\ wake = FALSE /\ caller = "idle"
    /\ node \in [Paths -> {"absent", "locked", "ready"}]
    /\ inotify = FALSE
    /\ button = [p \in Paths |-> "up"]
    /\ queue = [p \in Paths |-> <<>>]
    /\ lost = {}

-----------------------------------------------------------------------------
(***************************************************************************)
(* The kernel and the user.                                                *)
(***************************************************************************)
\* A node appears, perhaps before udev lets us read it; inotify reports it.
NodeAppears(p) ==
    /\ node[p] = "absent"
    /\ \E s \in {"locked", "ready"} : node' = [node EXCEPT ![p] = s]
    /\ button' = [button EXCEPT ![p] = "up"]
    /\ inotify' = TRUE
    /\ lost' = lost \ {p}
    /\ UNCHANGED <<threadVars, stopVars, queue>>

NodeUnlocked(p) ==
    /\ node[p] = "locked"
    /\ node' = [node EXCEPT ![p] = "ready"]
    /\ inotify' = TRUE
    /\ UNCHANGED <<threadVars, stopVars, button, queue, lost>>

\* The pen disconnects: what it had queued is gone with it.
NodeVanishes(p) ==
    /\ node[p] # "absent"
    /\ node' = [node EXCEPT ![p] = "absent"]
    /\ fd' = [fd EXCEPT ![p] = IF @ = "open" THEN "hung" ELSE @]
    /\ queue' = [queue EXCEPT ![p] = <<>>]
    /\ inotify' = TRUE
    /\ UNCHANGED <<pc, detector, sleepLeft, ready, rescan, stopVars, button, lost>>

\* Queued while the buffer is full, an event drops what is unread for the marker
\* of an overrun; it is lost with it when its SYN_REPORT was the one too many.
SynDropped == 3

Overrun(value) == {<<SynDropped, value>>, <<SynDropped>>}

\* A press, a release, or an auto-repeat of a held button.
Key(p, value) ==
    /\ node[p] # "absent"
    /\ button[p] = IF value = 1 THEN "up" ELSE "down"
    /\ button' = [button EXCEPT ![p] = IF value = 0 THEN "up" ELSE "down"]
    /\ \/ fd[p] # "open" /\ UNCHANGED queue
       \/ /\ fd[p] = "open"
          /\ \E unread \in IF Len(queue[p]) < MaxQueue THEN {Append(queue[p], value)}
                                                      ELSE Overrun(value) :
                queue' = [queue EXCEPT ![p] = unread]
    /\ lost' = IF queue'[p] = <<SynDropped>> THEN lost \union {p} ELSE lost \ {p}
    /\ UNCHANGED <<threadVars, stopVars, node, inotify>>

Tick ==
    /\ detector' = [p \in Paths |-> IF Watched(p) THEN Older(detector[p]) ELSE detector[p]]
    /\ sleepLeft' = IF pc = "poll" /\ sleepLeft > 0 THEN sleepLeft - 1 ELSE sleepLeft
    /\ UNCHANGED <<pc, fd, ready, rescan, stopVars, kernelVars>>

-----------------------------------------------------------------------------
(***************************************************************************)
(* stop(), called by another thread: the flag first, then the wake-up.     *)
(***************************************************************************)
\* Mutant: the wake-up first.
StopStoreAfterWrite ==
    \/ /\ caller = "idle" /\ caller' = "written" /\ wake' = TRUE
       /\ UNCHANGED <<threadVars, running, kernelVars>>
    \/ /\ caller = "written" /\ caller' = "stopped" /\ running' = FALSE
       /\ UNCHANGED <<threadVars, wake, kernelVars>>

StopStore ==
    /\ caller = "idle" /\ caller' = "stored"
    /\ running' = FALSE
    /\ UNCHANGED <<threadVars, wake, kernelVars>>

StopWrite ==
    /\ caller = "stored" /\ caller' = "stopped"
    /\ wake' = TRUE
    /\ UNCHANGED <<threadVars, running, kernelVars>>

-----------------------------------------------------------------------------
(***************************************************************************)
(* One turn of the loop.                                                   *)
(***************************************************************************)
Deadlines == {Deadline(detector[p]) : p \in {q \in Paths : Watched(q)}} \ {None}

\* Mutant: the re-scan interval is the least timeout, not the greatest.
LongerTimeout ==
    IF Deadlines = {} THEN RescanMs ELSE Max({Min(Deadlines), RescanMs})

\* nextTimeoutMs()
NextTimeout == Min(Deadlines \union {RescanMs})

\* closeNode(), for every node of a set.
Closed(ps) == [p \in Paths |-> IF p \in ps THEN "closed" ELSE fd[p]]
Emptied(ps) == [p \in Paths |-> IF p \in ps THEN <<>> ELSE queue[p]]

Sleep ==
    /\ pc = "check" /\ running
    /\ pc' = "poll" /\ sleepLeft' = NextTimeout
    /\ UNCHANGED <<fd, detector, ready, rescan, stopVars, kernelVars>>

Exit ==
    /\ pc' = "done"
    /\ fd' = Closed(Paths) /\ queue' = Emptied(Paths)
    /\ UNCHANGED <<detector, sleepLeft, ready, rescan, stopVars, node, inotify, button, lost>>

Leave == pc = "check" /\ ~running /\ Exit

PollFails == pc = "poll" /\ Exit

Readable(p) == fd[p] = "hung" \/ queue[p] # <<>>

\* poll() returns; what it reported of the inotify fd and the wake-up fd is read
\* empty (a wake-up written after it returned is left for the next poll).
Wake ==
    /\ pc = "poll" /\ pc' = "drain"
    /\ ready' = {p \in Paths : Watched(p) /\ Readable(p)}
    /\ ready' # {} \/ inotify \/ wake \/ sleepLeft = 0
    /\ rescan' = (inotify \/ (ready' = {} /\ ~wake))
    /\ inotify' = FALSE /\ wake' = FALSE
    /\ UNCHANGED <<fd, detector, sleepLeft, running, caller, node, button, queue, lost>>

\* drain() reads past the marker of an overrun, and does not ask the kernel what
\* the button is now; feed() drops an auto-repeat unless it is mapped.
FeedNode(d, value) ==
    IF value = SynDropped \/ (value = 2 /\ ~Repeat) THEN d ELSE Feed(d, value).det

\* The detector d once it was fed the events of q.
Drained(d, q) ==
    LET fed[n \in 0 .. Len(q)] == IF n = 0 THEN d ELSE FeedNode(fed[n - 1], q[n])
    IN  fed[Len(q)]

\* Mutant: dead nodes are closed but stay in the list.
DrainKeepsDead ==
    /\ pc = "drain" /\ pc' = "scan"
    /\ detector' = [p \in Paths |->
           IF p \in ready /\ fd[p] = "open" THEN Drained(detector[p], queue[p])
                                            ELSE detector[p]]
    /\ queue' = Emptied(ready)
    /\ UNCHANGED <<fd, sleepLeft, ready, rescan, stopVars, node, inotify, button, lost>>

\* Every ready node is drained; a dead one is closed and dropped from the list,
\* and with it a click it was holding back.
Drain ==
    LET dead == {p \in ready : fd[p] = "hung"}
    IN  /\ pc = "drain" /\ pc' = "scan"
        /\ detector' = [p \in Paths |->
               IF p \in ready \ dead THEN Drained(detector[p], queue[p])
                                     ELSE detector[p]]
        /\ fd' = Closed(dead) /\ queue' = Emptied(ready)
        /\ rescan' = (rescan \/ dead # {})
        /\ UNCHANGED <<sleepLeft, ready, stopVars, node, inotify, button, lost>>

\* Mutant: the detector of the path's previous node is kept.
ScanKeepsDetector ==
    LET found == IF rescan THEN {p \in Paths : ~Watched(p) /\ node[p] = "ready"} ELSE {}
    IN  /\ pc = "scan" /\ pc' = "flush"
        /\ fd' = [p \in Paths |-> IF p \in found THEN "open" ELSE fd[p]]
        /\ UNCHANGED <<detector, sleepLeft, ready, rescan, stopVars, kernelVars>>

\* scan(): a path in the list is known, whatever lies behind it by now; the
\* others are opened, if they can be, and attached with a fresh detector.
Scan ==
    LET found == IF rescan THEN {p \in Paths : ~Watched(p) /\ node[p] = "ready"} ELSE {}
    IN  /\ pc = "scan" /\ pc' = "flush"
        /\ fd' = [p \in Paths |-> IF p \in found THEN "open" ELSE fd[p]]
        /\ detector' = [p \in Paths |-> IF p \in found THEN Configured ELSE detector[p]]
        /\ UNCHANGED <<sleepLeft, ready, rescan, stopVars, kernelVars>>

\* Mutant: due gestures are flushed when poll() timed out.
FlushOnTimeout ==
    /\ pc = "flush" /\ pc' = "check"
    /\ detector' = [p \in Paths |-> IF ready = {} THEN TickAt(detector[p]).det ELSE detector[p]]
    /\ UNCHANGED <<fd, sleepLeft, ready, rescan, stopVars, kernelVars>>

\* flushDueGestures(): tick() until it returns nothing, which a second call does.
Flush ==
    /\ pc = "flush" /\ pc' = "check"
    /\ detector' = [p \in Paths |-> IF Watched(p) THEN TickAt(detector[p]).det ELSE detector[p]]
    /\ UNCHANGED <<fd, sleepLeft, ready, rescan, stopVars, kernelVars>>

-----------------------------------------------------------------------------
Kernel == \E p \in Paths :
    \/ NodeAppears(p) \/ NodeUnlocked(p) \/ NodeVanishes(p)
    \/ \E value \in 0 .. 2 : Key(p, value)

Thread == Sleep \/ Leave \/ Wake \/ Drain \/ Scan \/ Flush

Next == Kernel \/ Tick \/ StopStore \/ StopWrite \/ Thread \/ PollFails

\* The thread is scheduled and the clock runs; the kernel, the user and the
\* caller of stop() owe nothing.
Spec == Init /\ [][Next]_vars /\ WF_vars(Thread) /\ WF_vars(Tick)

-----------------------------------------------------------------------------
TypeOK ==
    /\ pc \in {"check", "poll", "drain", "scan", "flush", "done"}
    /\ fd \in [Paths -> {"closed", "open", "hung"}]
    /\ detector \in [Paths -> Detector]
    /\ sleepLeft \in 0 .. RescanMs
    /\ ready \subseteq Paths /\ rescan \in BOOLEAN
    /\ running \in BOOLEAN /\ wake \in BOOLEAN /\ caller \in {"idle", "stored", "stopped"}
    /\ node \in [Paths -> {"absent", "locked", "ready"}] /\ inotify \in BOOLEAN
    /\ button \in [Paths -> {"up", "down"}]
    /\ queue \in [Paths -> BoundedSeq(0 .. SynDropped, MaxQueue)]
    /\ lost \subseteq Paths

\* The thread never sleeps through stop(): once stop() has returned, it is not
\* in poll() without the wake-up that will end it.
NoLostWake == caller = "stopped" /\ pc = "poll" => wake

\* The poll timeout is the gesture timer: the thread never sleeps past the
\* deadline of any node.
SleepsUntilDue ==
    pc = "poll" => \A p \in Paths :
        Watched(p) => Deadline(detector[p]) \in {None} \union (sleepLeft .. LongPressMs + DoubleClickMs)

\* The detector's idea of the button is wrong only while the truth is on its way:
\* a detector that is down over a released button has the release in its queue,
\* whatever was read, dropped or reconnected before ("a reconnected pen starts
\* clean", stylusbuttons.h) -- or the kernel dropped the release, and drain()
\* reads past the marker that says so.
DownIsHeld ==
    \A p \in Paths :
        fd[p] = "open" /\ detector[p].down /\ button[p] = "up"
            => p \in lost \/ Contains(queue[p], 0)

\* A pen node that stays readable is watched in the end, however often it came
\* and went under the same path before.
PenIsWatched ==
    \A p \in Paths : node[p] = "ready" ~> node[p] # "ready" \/ fd[p] = "open" \/ pc = "done"

\* A press the thread has read gets its verdict, unless its node goes away or the
\* button is pressed or released again: a stream of auto-repeats, which wakes the
\* thread before every deadline, cannot put the verdict off.
PressIsDecided ==
    \A p \in Paths : Watched(p) /\ Undecided(detector[p])
        ~> \/ ~Undecided(detector[p]) \/ fd[p] # "open"
           \/ Contains(queue[p], 0) \/ Contains(queue[p], 1)
=============================================================================
