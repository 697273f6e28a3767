------------------------------- MODULE Bluez -------------------------------
(***************************************************************************)
(* BluezManager (src/src/bluezmanager.cpp): one pairing attempt at a time, *)
(* driven by the replies of asynchronous D-Bus calls, the InterfacesAdded  *)
(* signal and the discovery timer.  All handlers run on the GUI thread.    *)
(*                                                                         *)
(* A call in flight is counted by its kind.  `own` counts the calls made   *)
(* since the current attempt began; when an attempt ends its calls stay in *)
(* flight and become `stale`.  The code keeps no such tag: a reply handler *)
(* only looks at m_pendingMac.  D-Bus answers every call in the end, if    *)
(* only with its own timeout error.                                        *)
(***************************************************************************)
EXTENDS Integers

CONSTANTS Pens,             \* MAC addresses
          NoMac,            \* the empty m_pendingMac
          DiscoveryMs       \* kDiscoveryTimeoutMs

ASSUME BluezAssumption == NoMac \notin Pens /\ DiscoveryMs \in Nat \ {0}

VARIABLES
    pendingMac,
    adapterPath,      \* m_activeAdapterPath is not empty
    discovering, discoveryTimer,
    own, stale,       \* watched calls in flight, by kind
    stopping,         \* a StopDiscovery is in flight (nobody watches its reply)
    session,          \* external: BlueZ discovers for us, as it granted to the
                      \* pending attempt ("on") or to one that had ended ("orphan")
    emitted           \* the signal the last step emitted, or "none"

bluezVars == <<pendingMac, adapterPath, discovering, discoveryTimer,
               own, stale, stopping, session, emitted>>

Kinds == {"GetManagedObjects", "StartDiscovery", "Pair", "Connect"}
NoCalls == [k \in Kinds |-> 0]
NoTimer == -1

Pending == pendingMac # NoMac

BluezInit ==
    /\ pendingMac = NoMac /\ adapterPath = FALSE
    /\ discovering = FALSE /\ discoveryTimer = NoTimer
    /\ own = NoCalls /\ stale = NoCalls
    /\ stopping = FALSE /\ session = "off" /\ emitted = "none"

-----------------------------------------------------------------------------
With(c, kind)    == [c EXCEPT ![kind] = @ + 1]
Without(c, kind) == [c EXCEPT ![kind] = @ - 1]
Together(c, s)   == [k \in Kinds |-> c[k] + s[k]]

\* Mutant: the flag is cleared but StopDiscovery is never sent.
StopDiscoveryForgets(path) ==
    /\ discoveryTimer' = NoTimer
    /\ discovering' = (discovering /\ ~path)
    /\ UNCHANGED <<stopping, session>>

\* stopDiscovery(), with m_activeAdapterPath set or not.  The adapter object
\* may be gone (isValid() fails), and BlueZ's session with it.
StopDiscovery(path) ==
    /\ discoveryTimer' = NoTimer
    /\ \/ /\ discovering /\ path
          /\ discovering' = FALSE
          /\ \/ stopping' = TRUE /\ UNCHANGED session
             \/ session' = "off" /\ UNCHANGED stopping
       \/ /\ ~(discovering /\ path)
          /\ UNCHANGED <<discovering, stopping, session>>

-----------------------------------------------------------------------------
\* Mutants: the bugs the runs must notice.

FinishKeepsTimer(c, s, path) ==
    /\ pendingMac' = NoMac /\ adapterPath' = FALSE
    /\ own' = NoCalls /\ stale' = Together(c, s)
    /\ UNCHANGED <<discovering, discoveryTimer, stopping, session>>
-----------------------------------------------------------------------------
\* finish(): the attempt is over, its calls still in flight are nobody's.
Finish(c, s, path) ==
    /\ StopDiscovery(path)
    /\ pendingMac' = NoMac /\ adapterPath' = FALSE
    /\ own' = NoCalls /\ stale' = Together(c, s)

\* A call is sent and the attempt goes on.
Send(c, s, kind) ==
    /\ own' = With(c, kind) /\ stale' = s
    /\ UNCHANGED pendingMac

\* pairAndConnectDevice(): the device object may be gone.
PairAndConnectDevice(c, s) ==
    \/ /\ Send(c, s, "Pair")
       /\ UNCHANGED <<adapterPath, discovering, discoveryTimer, stopping, session>>
    \/ Finish(c, s, adapterPath)

\* startDiscovery(), with m_activeAdapterPath just set.
StartDiscovery(c, s) ==
    \/ /\ Send(c, s, "StartDiscovery")
       /\ adapterPath' = TRUE
       /\ UNCHANGED <<discovering, discoveryTimer, stopping, session>>
    \/ Finish(c, s, TRUE)

-----------------------------------------------------------------------------
(***************************************************************************)
(* Requests.                                                               *)
(***************************************************************************)
Idle == UNCHANGED <<pendingMac, adapterPath, discovering, discoveryTimer,
                    own, stale, stopping, session>>

\* While an attempt is pending a request is ignored, whatever pen it names.
EnsurePaired(mac) ==
    \/ Pending /\ emitted' = "none" /\ Idle
    \/ /\ ~Pending
       /\ emitted' = "started"
       /\ \/ /\ pendingMac' = mac
             /\ own' = With(own, "GetManagedObjects")
             /\ UNCHANGED <<adapterPath, discovering, discoveryTimer, stale, stopping, session>>
          \/ Finish(own, stale, adapterPath)      \* no ObjectManager to talk to

Cancel ==
    /\ emitted' = "none"
    /\ \/ Pending /\ Finish(own, stale, adapterPath)
       \/ ~Pending /\ Idle

-----------------------------------------------------------------------------
\* Whose StartDiscovery was granted, s being the stale calls still in flight:
\* the handler does not know.
GrantedTo(s) == IF s = stale THEN "on" ELSE "orphan"

\* Mutants.

OnStartDiscoveryReplyNoTimer(c, s, ok) ==
    /\ emitted' = "none"
    /\ \/ /\ ok
          /\ discovering' = TRUE /\ session' = GrantedTo(s)
          /\ own' = c /\ stale' = s
          /\ UNCHANGED <<pendingMac, adapterPath, discoveryTimer, stopping>>
       \/ ~ok /\ Finish(c, s, adapterPath)

OnConnectReplySilent(c, s, ok) ==
    /\ emitted' = IF ok THEN "paired" ELSE "failed"
    /\ own' = c /\ stale' = s
    /\ UNCHANGED <<pendingMac, adapterPath, discovering, discoveryTimer, stopping, session>>

OnPairReplyForgetsFinish(c, s, ok) ==
    \/ ok /\ emitted' = "none" /\ Send(c, s, "Connect")
       /\ UNCHANGED <<adapterPath, discovering, discoveryTimer, stopping, session>>
    \/ /\ ~ok
       /\ emitted' = "failed"
       /\ own' = c /\ stale' = s
       /\ UNCHANGED <<pendingMac, adapterPath, discovering, discoveryTimer, stopping, session>>
-----------------------------------------------------------------------------
(***************************************************************************)
(* Replies.  Each handler below runs while an attempt is pending; c and s  *)
(* are the own and stale calls still in flight.                            *)
(***************************************************************************)
OnManagedObjectsReply(c, s) ==
    \/ emitted' = "paired" /\ Finish(c, s, adapterPath)     \* known and paired
    \/ emitted' = "none" /\ PairAndConnectDevice(c, s)      \* known
    \/ emitted' = "none" /\ StartDiscovery(c, s)            \* unknown
    \/ emitted' = "none" /\ Finish(c, s, adapterPath)       \* error, or no adapter

OnStartDiscoveryReply(c, s, ok) ==
    /\ emitted' = "none"
    /\ \/ /\ ok
          /\ discovering' = TRUE /\ discoveryTimer' = DiscoveryMs
          /\ session' = GrantedTo(s)
          /\ own' = c /\ stale' = s
          /\ UNCHANGED <<pendingMac, adapterPath, stopping>>
       \/ ~ok /\ Finish(c, s, adapterPath)

OnPairReply(c, s, ok) ==
    \/ ok /\ emitted' = "none" /\ Send(c, s, "Connect")
       /\ UNCHANGED <<adapterPath, discovering, discoveryTimer, stopping, session>>
    \/ ~ok /\ emitted' = "failed" /\ Finish(c, s, adapterPath)

OnConnectReply(c, s, ok) ==
    /\ emitted' = IF ok THEN "paired" ELSE "failed"
    /\ Finish(c, s, adapterPath)

\* BlueZ answers one client's discovery requests in order.
Answers(kind, ok) == kind = "StartDiscovery" /\ ok => ~stopping

Handle(kind, c, s, ok) ==
    \/ kind = "GetManagedObjects" /\ OnManagedObjectsReply(c, s)
    \/ kind = "StartDiscovery" /\ OnStartDiscoveryReply(c, s, ok)
    \/ kind = "Pair" /\ OnPairReply(c, s, ok)
    \/ kind = "Connect" /\ OnConnectReply(c, s, ok)

\* A reply to the pending attempt's own call.
OwnReply(kind, ok) ==
    /\ own[kind] > 0 /\ Answers(kind, ok)
    /\ Handle(kind, Without(own, kind), stale, ok)

\* A reply to a call of an attempt that has ended: dropped if no attempt is
\* pending (a discovery it started keeps running), else taken for the pending one's.
StaleReply(kind, ok) ==
    /\ stale[kind] > 0 /\ Answers(kind, ok)
    /\ \/ Pending /\ Handle(kind, own, Without(stale, kind), ok)
       \/ /\ ~Pending
          /\ stale' = Without(stale, kind)
          /\ session' = IF kind = "StartDiscovery" /\ ok THEN "orphan" ELSE session
          /\ emitted' = "none"
          /\ UNCHANGED <<pendingMac, adapterPath, discovering, discoveryTimer, own, stopping>>

-----------------------------------------------------------------------------
(***************************************************************************)
(* The InterfacesAdded signal, the discovery timer, and BlueZ itself.      *)
(***************************************************************************)

\* onInterfacesAdded(), for the device that is waited for: discovery is
\* stopped, then the device is taken as paired, paired, or found invalid.
OnInterfacesAdded ==
    /\ Pending /\ discovering
    /\ \/ emitted' = "paired" /\ Finish(own, stale, adapterPath)
       \/ /\ emitted' = "none"
          /\ \/ StopDiscovery(adapterPath) /\ Send(own, stale, "Pair")
                /\ UNCHANGED adapterPath
             \/ Finish(own, stale, adapterPath)

OnDiscoveryTimeout ==
    /\ discoveryTimer = 0
    /\ emitted' = "failed"
    /\ Finish(own, stale, adapterPath)

BluezStopsDiscovery ==
    /\ stopping
    /\ stopping' = FALSE /\ session' = "off" /\ emitted' = "none"
    /\ UNCHANGED <<pendingMac, adapterPath, discovering, discoveryTimer, own, stale>>

BluezTick ==
    /\ discoveryTimer > 0
    /\ discoveryTimer' = discoveryTimer - 1 /\ emitted' = "none"
    /\ UNCHANGED <<pendingMac, adapterPath, discovering, own, stale, stopping, session>>

-----------------------------------------------------------------------------
(***************************************************************************)
(* The manager alone: requested and cancelled at any time.                 *)
(***************************************************************************)
Request == \E mac \in Pens : EnsurePaired(mac)
Reply   == \E kind \in Kinds, ok \in BOOLEAN : OwnReply(kind, ok) \/ StaleReply(kind, ok)

Next == \/ Request \/ Cancel \/ Reply
        \/ OnInterfacesAdded \/ OnDiscoveryTimeout
        \/ BluezStopsDiscovery \/ BluezTick

\* D-Bus answers every call; time passes and a due timer is dispatched.
Fairness ==
    /\ \A kind \in Kinds : WF_bluezVars(\E ok \in BOOLEAN : OwnReply(kind, ok))
    /\ WF_bluezVars(BluezStopsDiscovery)
    /\ WF_bluezVars(BluezTick)
    /\ WF_bluezVars(OnDiscoveryTimeout)

Spec == BluezInit /\ [][Next]_bluezVars /\ Fairness

-----------------------------------------------------------------------------
Calls == [Kinds -> Nat]

TypeOK ==
    /\ pendingMac \in Pens \union {NoMac}
    /\ adapterPath \in BOOLEAN /\ discovering \in BOOLEAN
    /\ discoveryTimer \in NoTimer .. DiscoveryMs
    /\ own \in Calls /\ stale \in Calls
    /\ stopping \in BOOLEAN /\ session \in {"off", "on", "orphan"}
    /\ emitted \in {"none", "started", "paired", "failed"}

\* A pending attempt always has something that will move it on: a call of its
\* own in flight or the discovery timer.  Otherwise every later request would
\* be "already in progress" for ever.
NoStuckAttempt == Pending => discoveryTimer # NoTimer \/ \E k \in Kinds : own[k] > 0

\* The discovery timer never outlives its attempt: it would report a failure
\* for an empty address, or end the next attempt before its time.
TimerIsTheAttempts == discoveryTimer # NoTimer => Pending /\ discovering

\* A discovery that was granted to an attempt ends with it: it runs while the
\* attempt is pending and ready to stop it, or its stop is on the way.  That is
\* less than cancel() "stops discovery" (bluezmanager.h) says: a discovery
\* granted after its attempt had ended (an orphan) is stopped by nobody -- the
\* reply is dropped, or taken for an attempt that may end before it has an
\* adapter to send the stop to.
DiscoveryIsStopped ==
    session = "on" => stopping \/ (Pending /\ discovering /\ adapterPath)

\* Every attempt ends.
AttemptEnds == Pending ~> ~Pending

Abstract == INSTANCE PairingAttempts WITH running <- Pending, signal <- emitted

\* The signals: one attempt at a time, announced once, closed by one verdict at most.
ImplementsAttempts == Abstract!Spec

\* cancel() "makes every reply that is still in flight a no-op"
\* (bluezmanager.h): no reply of an ended attempt gives the pending one its
\* verdict or ends it.  Only a stale reply makes `stale` shrink.
StaleReplyIsNoOp ==
    [][(\E kind \in Kinds : stale'[kind] < stale[kind])
         => emitted' = "none" /\ pendingMac' = pendingMac]_bluezVars
=============================================================================
