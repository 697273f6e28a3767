---------------------------- MODULE BluezProofs ----------------------------
(***************************************************************************)
(* BluezManager's safety for every set of pens, discovery timeout and      *)
(* number of calls in flight: TLC bounds the calls, the proofs do not.     *)
(*                                                                         *)
(* A reply, the manager's own or a stale one, does one of three things to  *)
(* the attempt: it ends it, sends its next call, or starts the wait for    *)
(* the device.  Each of the three is shown to keep the invariant; the      *)
(* handlers are then shown to do nothing else.                             *)
(***************************************************************************)
EXTENDS Bluez, TLAPS

FlagTypes  == /\ pendingMac \in Pens \union {NoMac}
              /\ adapterPath \in BOOLEAN /\ discovering \in BOOLEAN
              /\ stopping \in BOOLEAN /\ session \in {"off", "on", "orphan"}
              /\ emitted \in {"none", "started", "paired", "failed"}
CallTypes  == own \in Calls /\ stale \in Calls
TimerTypes == discoveryTimer \in NoTimer .. DiscoveryMs

\* Own calls are a pending attempt's: finish() disowns what is in flight.
OwnIsPending == ~Pending => own = NoCalls

\* An attempt that asked for discovery has an adapter to send the stop to.
AsksOnAdapter == own["StartDiscovery"] > 0 => adapterPath

IInv == /\ FlagTypes /\ CallTypes /\ TimerTypes /\ OwnIsPending /\ AsksOnAdapter
        /\ NoStuckAttempt /\ TimerIsTheAttempts /\ DiscoveryIsStopped

-----------------------------------------------------------------------------
(***************************************************************************)
(* Counting calls.                                                         *)
(***************************************************************************)
LEMMA NoCallsType == NoCalls \in Calls
  BY DEF NoCalls, Calls

LEMMA WithType ==
    ASSUME NEW c \in Calls, NEW kind \in Kinds
    PROVE  With(c, kind) \in Calls /\ With(c, kind)[kind] > 0
  BY DEF With, Calls

LEMMA WithoutType ==
    ASSUME NEW c \in Calls, NEW kind \in Kinds, c[kind] > 0
    PROVE  Without(c, kind) \in Calls
  BY DEF Without, Calls

LEMMA TogetherType ==
    ASSUME NEW c \in Calls, NEW s \in Calls
    PROVE  Together(c, s) \in Calls
  BY DEF Together, Calls

-----------------------------------------------------------------------------
(***************************************************************************)
(* The three moves.                                                        *)
(***************************************************************************)
\* Own calls of which none asks for discovery that did not before.
Fewer == {c \in Calls : c["StartDiscovery"] > 0 => own["StartDiscovery"] > 0}

Ended == \E c, s \in Calls, path \in {adapterPath, TRUE} : Finish(c, s, path)

Sent == /\ \E c \in Fewer, kind \in Kinds :
              own' = With(c, kind) /\ (kind = "StartDiscovery" => adapterPath')
        /\ stale' \in Calls /\ pendingMac' = pendingMac
        /\ adapterPath' \in BOOLEAN /\ (adapterPath => adapterPath')
        /\ \/ UNCHANGED <<discovering, discoveryTimer, stopping, session>>
           \/ StopDiscovery(adapterPath)

Waiting == /\ discovering' = TRUE /\ discoveryTimer' = DiscoveryMs
           /\ session' \in {"on", "orphan"} /\ (session' = "on" => adapterPath)
           /\ own' \in Fewer /\ stale' \in Calls
           /\ UNCHANGED <<pendingMac, adapterPath, stopping>>

Signals == emitted' \in {"none", "started", "paired", "failed"}

\* stopDiscovery() keeps what the invariant says of the discovery.
LEMMA StopKeeps ==
    ASSUME IInv, NEW path \in {adapterPath, TRUE}, StopDiscovery(path)
    PROVE  /\ discovering' \in BOOLEAN /\ stopping' \in BOOLEAN
           /\ session' \in {"off", "on", "orphan"}
           /\ discoveryTimer' = NoTimer
           /\ session' = "on" => stopping'
  <1>1. discovering' \in BOOLEAN /\ stopping' \in BOOLEAN
    BY DEF StopDiscovery, IInv, FlagTypes
  <1>2. session' \in {"off", "on", "orphan"} /\ discoveryTimer' = NoTimer
    BY DEF StopDiscovery, IInv, FlagTypes
  <1>3. session' = "on" => stopping'
    <2>1. CASE session = "on" /\ ~stopping
      BY <2>1 DEF StopDiscovery, IInv, DiscoveryIsStopped
    <2>2. CASE session # "on" \/ stopping
      BY <2>2 DEF StopDiscovery, IInv, FlagTypes
    <2> QED BY <2>1, <2>2
  <1> QED BY <1>1, <1>2, <1>3

LEMMA EndedKeeps ==
    ASSUME IInv, Ended, Signals
    PROVE  IInv' /\ ~Pending'
  <1>1. PICK c \in Calls, s \in Calls, path \in {adapterPath, TRUE} : Finish(c, s, path)
    BY DEF Ended
  <1>2. FlagTypes'
    BY <1>1, StopKeeps DEF Finish, FlagTypes, Signals
  <1>3. CallTypes'
    BY <1>1, NoCallsType, TogetherType DEF Finish, CallTypes
  <1>4. discoveryTimer' = NoTimer /\ (session' = "on" => stopping')
    BY <1>1, StopKeeps DEF Finish
  <1>6. TimerTypes'
    BY <1>4, BluezAssumption DEF TimerTypes, NoTimer
  <1>7. DiscoveryIsStopped'
    BY <1>4 DEF DiscoveryIsStopped
  <1>5. ~Pending' /\ own' = NoCalls /\ AsksOnAdapter'
    BY <1>1 DEF Finish, Pending, NoCalls, AsksOnAdapter, Kinds
  <1> QED
    BY <1>2, <1>3, <1>4, <1>5, <1>6, <1>7
       DEF IInv, NoStuckAttempt, TimerIsTheAttempts, OwnIsPending

LEMMA SentKeeps ==
    ASSUME IInv, Pending, Sent, Signals
    PROVE  IInv' /\ Pending'
  <1>1. Pending'
    BY DEF Sent, Pending
  <1>2. PICK c \in Fewer, kind \in Kinds :
            own' = With(c, kind) /\ (kind = "StartDiscovery" => adapterPath')
    BY DEF Sent
  <1>3. own' \in Calls /\ own'[kind] > 0
    BY <1>2, WithType DEF Fewer
  <1>a. AsksOnAdapter'
    <2>1. CASE kind = "StartDiscovery"
      BY <1>2, <2>1 DEF AsksOnAdapter
    <2>2. CASE kind # "StartDiscovery"
      <3>1. own'["StartDiscovery"] = c["StartDiscovery"]
        BY <1>2, <2>2 DEF With, Fewer, Calls, Kinds
      <3> QED BY <3>1 DEF Fewer, AsksOnAdapter, IInv, Sent
    <2> QED BY <2>1, <2>2
  <1>4. NoStuckAttempt'
    BY <1>3 DEF NoStuckAttempt
  <1>5. CallTypes'
    BY <1>3 DEF Sent, CallTypes
  <1>6. FlagTypes' /\ TimerTypes' /\ TimerIsTheAttempts' /\ DiscoveryIsStopped'
    <2>1. CASE UNCHANGED <<discovering, discoveryTimer, stopping, session>>
      <3>1. FlagTypes'
        BY <2>1 DEF Sent, IInv, FlagTypes, Signals
      <3>2. TimerTypes' /\ TimerIsTheAttempts' /\ DiscoveryIsStopped'
        BY <2>1, <1>1 DEF Sent, IInv, TimerTypes, TimerIsTheAttempts, DiscoveryIsStopped
      <3> QED BY <3>1, <3>2
    <2>2. CASE StopDiscovery(adapterPath)
      <3>1. FlagTypes'
        BY <2>2, StopKeeps DEF Sent, IInv, FlagTypes, Signals
      <3>2. TimerTypes' /\ TimerIsTheAttempts' /\ DiscoveryIsStopped'
        BY <2>2, StopKeeps, BluezAssumption
           DEF TimerTypes, TimerIsTheAttempts, NoTimer, DiscoveryIsStopped
      <3> QED BY <3>1, <3>2
    <2> QED BY <2>1, <2>2 DEF Sent
  <1> QED BY <1>1, <1>a, <1>4, <1>5, <1>6 DEF IInv, OwnIsPending

LEMMA WaitingKeeps ==
    ASSUME IInv, Pending, Waiting, Signals
    PROVE  IInv' /\ Pending'
  <1>1. Pending'
    BY DEF Waiting, Pending
  <1>2. FlagTypes' /\ CallTypes'
    BY DEF Waiting, Fewer, IInv, FlagTypes, CallTypes, Signals
  <1>3. TimerTypes' /\ discoveryTimer' # NoTimer
    BY BluezAssumption DEF Waiting, TimerTypes, NoTimer
  <1>4. TimerIsTheAttempts' /\ DiscoveryIsStopped' /\ NoStuckAttempt' /\ AsksOnAdapter'
    BY <1>1, <1>3 DEF Waiting, TimerIsTheAttempts, DiscoveryIsStopped, NoStuckAttempt,
                      AsksOnAdapter, Fewer, IInv
  <1> QED BY <1>1, <1>2, <1>3, <1>4 DEF IInv, OwnIsPending

-----------------------------------------------------------------------------
(***************************************************************************)
(* The handlers make no other move.                                        *)
(***************************************************************************)
Moves == \/ Ended /\ emitted' \in {"none", "paired", "failed"}
         \/ Sent /\ emitted' = "none"
         \/ Waiting /\ emitted' = "none"

LEMMA ReplyMoves ==
    ASSUME IInv, NEW kind \in Kinds, NEW ok \in BOOLEAN, NEW c \in Fewer, NEW s \in Calls,
           kind = "StartDiscovery" /\ s = stale => adapterPath,
           Handle(kind, c, s, ok)
    PROVE  Moves
  <1>p. adapterPath \in BOOLEAN
    BY DEF IInv, FlagTypes
  <1>1. \A path \in {adapterPath, TRUE} : Finish(c, s, path) => Ended
    BY DEF Ended, Fewer
  <1>2. CASE kind = "GetManagedObjects" /\ OnManagedObjectsReply(c, s)
    <2>1. PairAndConnectDevice(c, s) => Sent \/ Ended
      BY <1>p, <1>1 DEF PairAndConnectDevice, Send, Sent, Kinds
    <2>2. StartDiscovery(c, s) => Sent \/ Ended
      BY <1>1 DEF StartDiscovery, Send, Sent, Kinds
    <2> QED BY <1>p, <1>1, <1>2, <2>1, <2>2 DEF OnManagedObjectsReply, Moves
  <1>3. CASE kind = "StartDiscovery" /\ OnStartDiscoveryReply(c, s, ok)
    <2>1. GrantedTo(s) \in {"on", "orphan"} /\ (GrantedTo(s) = "on" => adapterPath)
      BY <1>3 DEF GrantedTo
    <2> QED BY <1>p, <1>1, <1>3, <2>1 DEF OnStartDiscoveryReply, Waiting, Moves
  <1>4. CASE kind = "Pair" /\ OnPairReply(c, s, ok)
    BY <1>p, <1>1, <1>4 DEF OnPairReply, Send, Sent, Kinds, Moves
  <1>5. CASE kind = "Connect" /\ OnConnectReply(c, s, ok)
    BY <1>p, <1>1, <1>5 DEF OnConnectReply, Moves
  <1> QED BY <1>2, <1>3, <1>4, <1>5 DEF Handle

\* A reply while an attempt is pending; the signal of a new device.
LEMMA PendingMoves ==
    ASSUME IInv
    PROVE  /\ \A kind \in Kinds, ok \in BOOLEAN : OwnReply(kind, ok) => Pending /\ Moves
           /\ \A kind \in Kinds, ok \in BOOLEAN : StaleReply(kind, ok) /\ Pending => Moves
           /\ OnInterfacesAdded => Pending /\ Moves
           /\ OnDiscoveryTimeout => Pending /\ Moves
  <1>1. ASSUME NEW kind \in Kinds, NEW ok \in BOOLEAN, OwnReply(kind, ok)
        PROVE  Pending /\ Moves
    <2>1. own[kind] > 0 /\ Handle(kind, Without(own, kind), stale, ok)
      BY <1>1 DEF OwnReply
    <2>2. Pending
      BY <2>1 DEF IInv, OwnIsPending, NoCalls
    <2>3. Without(own, kind) \in Calls /\ own \in Calls /\ stale \in Calls
      BY <2>1, WithoutType DEF IInv, CallTypes
    <2>4. Without(own, kind) \in Fewer
      BY <2>1, <2>3 DEF Without, Fewer, Calls, Kinds
    <2>5. kind = "StartDiscovery" => adapterPath
      BY <2>1 DEF IInv, AsksOnAdapter
    <2> QED BY <2>1, <2>2, <2>3, <2>4, <2>5, ReplyMoves
  <1>2. ASSUME NEW kind \in Kinds, NEW ok \in BOOLEAN, StaleReply(kind, ok), Pending
        PROVE  Moves
    <2>1. stale[kind] > 0 /\ Handle(kind, own, Without(stale, kind), ok)
      BY <1>2 DEF StaleReply
    <2>2. Without(stale, kind) \in Calls /\ own \in Fewer
      BY <2>1, WithoutType DEF IInv, CallTypes, Fewer
    <2>3. Without(stale, kind) # stale
      <3>1. stale[kind] \in Nat /\ Without(stale, kind)[kind] = stale[kind] - 1
        BY DEF Without, Calls, IInv, CallTypes
      <3> QED BY <3>1
    <2> QED BY <2>1, <2>2, <2>3, ReplyMoves
  <1>p. adapterPath \in BOOLEAN /\ own \in Calls /\ own \in Fewer /\ stale \in Calls
    BY DEF IInv, FlagTypes, CallTypes, Fewer
  <1>e. Finish(own, stale, adapterPath) => Ended
    BY <1>p DEF Ended
  <1>3. ASSUME OnInterfacesAdded PROVE Pending /\ Moves
    <2>1. StopDiscovery(adapterPath) /\ Send(own, stale, "Pair") /\ UNCHANGED adapterPath => Sent
      BY <1>p DEF Send, Sent, Kinds
    <2> QED BY <1>3, <1>e, <2>1 DEF OnInterfacesAdded, Moves
  <1>4. ASSUME OnDiscoveryTimeout PROVE Pending /\ Moves
    BY <1>4, <1>e DEF OnDiscoveryTimeout, Moves, IInv, TimerIsTheAttempts, NoTimer
  <1> QED BY <1>1, <1>2, <1>3, <1>4

LEMMA MovesKeep ==
    ASSUME IInv, Pending, Moves
    PROVE  IInv' /\ Abstract!Next
  <1>1. CASE Ended /\ emitted' \in {"none", "paired", "failed"}
    BY <1>1, EndedKeeps DEF Signals, Abstract!Next, Abstract!Verdict, Abstract!Silence, Pending
  <1>2. CASE Sent /\ emitted' = "none"
    BY <1>2, SentKeeps DEF Signals, Abstract!Next, Abstract!Work, Pending
  <1>3. CASE Waiting /\ emitted' = "none"
    BY <1>3, WaitingKeeps DEF Signals, Abstract!Next, Abstract!Work, Pending
  <1> QED BY <1>1, <1>2, <1>3 DEF Moves

-----------------------------------------------------------------------------
LEMMA IInvInitial == BluezInit => IInv
  <1> SUFFICES ASSUME BluezInit PROVE IInv
    OBVIOUS
  <1>1. FlagTypes
    BY DEF BluezInit, FlagTypes
  <1>2. CallTypes
    BY NoCallsType DEF BluezInit, CallTypes
  <1>3. TimerTypes /\ TimerIsTheAttempts
    BY BluezAssumption DEF BluezInit, TimerTypes, TimerIsTheAttempts, NoTimer
  <1>4. ~Pending /\ own = NoCalls /\ DiscoveryIsStopped /\ AsksOnAdapter
    BY DEF BluezInit, Pending, DiscoveryIsStopped, AsksOnAdapter, NoCalls, Kinds
  <1> QED BY <1>1, <1>2, <1>3, <1>4 DEF IInv, OwnIsPending, NoStuckAttempt

\* Every step keeps IInv, and is a step of PairingAttempts.
LEMMA NextKeeps ==
    ASSUME IInv, Next
    PROVE  IInv' /\ Abstract!Next
  <1>p. /\ adapterPath \in BOOLEAN /\ own \in Calls /\ stale \in Calls
        /\ discovering \in BOOLEAN /\ stopping \in BOOLEAN
    BY DEF IInv, FlagTypes, CallTypes
  <1>e. Finish(own, stale, adapterPath) => Ended
    BY <1>p DEF Ended
  <1>i. ASSUME Idle, emitted' = "none" PROVE IInv' /\ Abstract!Next
    <2>1. IInv'
      BY <1>i DEF Idle, IInv, FlagTypes, CallTypes, TimerTypes, OwnIsPending, NoStuckAttempt,
                  TimerIsTheAttempts, DiscoveryIsStopped, Pending, AsksOnAdapter
    <2>2. Abstract!Next
      BY <1>i DEF Idle, Abstract!Next, Abstract!Work, Pending
    <2> QED BY <2>1, <2>2
  <1>1. ASSUME NEW mac \in Pens, EnsurePaired(mac) PROVE IInv' /\ Abstract!Next
    <2>1. CASE Pending /\ emitted' = "none" /\ Idle
      BY <1>i, <2>1
    <2>2. CASE /\ ~Pending /\ emitted' = "started"
               /\ pendingMac' = mac /\ own' = With(own, "GetManagedObjects")
               /\ UNCHANGED <<adapterPath, discovering, discoveryTimer, stale, stopping, session>>
      <3>1. Pending' /\ CallTypes' /\ own'["GetManagedObjects"] > 0
        BY <1>p, <2>2, WithType, BluezAssumption DEF Pending, CallTypes, Kinds
      <3>2. FlagTypes'
        BY <2>2 DEF IInv, FlagTypes
      <3>3. TimerTypes' /\ TimerIsTheAttempts' /\ DiscoveryIsStopped'
        BY <2>2, <3>1 DEF IInv, TimerTypes, TimerIsTheAttempts, DiscoveryIsStopped
      <3>4. OwnIsPending' /\ NoStuckAttempt' /\ AsksOnAdapter'
        <4>1. own'["StartDiscovery"] = own["StartDiscovery"]
          BY <1>p, <2>2 DEF With, Calls, Kinds
        <4> QED BY <2>2, <3>1, <4>1 DEF IInv, OwnIsPending, NoStuckAttempt, AsksOnAdapter, Kinds
      <3>5. Abstract!Next
        BY <2>2, <3>1 DEF Abstract!Next, Abstract!Start, Pending
      <3> QED BY <3>1, <3>2, <3>3, <3>4, <3>5 DEF IInv
    <2>3. CASE ~Pending /\ emitted' = "started" /\ Finish(own, stale, adapterPath)
      BY <1>e, <2>3, EndedKeeps DEF Signals, Abstract!Next, Abstract!Start, Pending
    <2> QED BY <1>1, <2>1, <2>2, <2>3 DEF EnsurePaired
  <1>2. CASE Cancel
    <2>1. CASE Pending /\ emitted' = "none" /\ Finish(own, stale, adapterPath)
      BY <1>e, <2>1, MovesKeep DEF Moves
    <2>2. CASE ~Pending /\ emitted' = "none" /\ Idle
      BY <1>i, <2>2
    <2> QED BY <1>2, <2>1, <2>2 DEF Cancel
  <1>3. ASSUME NEW kind \in Kinds, NEW ok \in BOOLEAN, OwnReply(kind, ok) \/ StaleReply(kind, ok)
        PROVE  IInv' /\ Abstract!Next
    <2>1. CASE OwnReply(kind, ok) \/ Pending
      BY <1>3, <2>1, PendingMoves, MovesKeep
    <2>2. CASE StaleReply(kind, ok) /\ ~Pending
      <3>1. /\ stale' = Without(stale, kind) /\ stale[kind] > 0
            /\ session' \in {session, "orphan"} /\ emitted' = "none"
            /\ UNCHANGED <<pendingMac, adapterPath, discovering, discoveryTimer, own, stopping>>
        BY <2>2 DEF StaleReply
      <3>2. FlagTypes'
        BY <3>1 DEF IInv, FlagTypes
      <3>3. CallTypes'
        BY <3>1, WithoutType DEF IInv, CallTypes
      <3>4. /\ TimerTypes' /\ TimerIsTheAttempts' /\ DiscoveryIsStopped'
            /\ OwnIsPending' /\ NoStuckAttempt' /\ AsksOnAdapter'
        BY <3>1 DEF IInv, TimerTypes, TimerIsTheAttempts, DiscoveryIsStopped, OwnIsPending,
                    NoStuckAttempt, Pending, AsksOnAdapter
      <3>5. Abstract!Next
        BY <3>1 DEF Abstract!Next, Abstract!Work, Pending
      <3> QED BY <3>2, <3>3, <3>4, <3>5 DEF IInv
    <2> QED BY <1>3, <2>1, <2>2
  <1>4. CASE OnInterfacesAdded \/ OnDiscoveryTimeout
    BY <1>4, PendingMoves, MovesKeep
  <1>5. CASE BluezStopsDiscovery
    <2>1. /\ stopping' = FALSE /\ session' = "off" /\ emitted' = "none"
          /\ UNCHANGED <<pendingMac, adapterPath, discovering, discoveryTimer, own, stale>>
      BY <1>5 DEF BluezStopsDiscovery
    <2>2. FlagTypes' /\ CallTypes'
      BY <2>1 DEF IInv, FlagTypes, CallTypes
    <2>3. /\ TimerTypes' /\ TimerIsTheAttempts' /\ DiscoveryIsStopped'
          /\ OwnIsPending' /\ NoStuckAttempt' /\ AsksOnAdapter' /\ Abstract!Next
      BY <2>1 DEF IInv, TimerTypes, TimerIsTheAttempts, DiscoveryIsStopped, OwnIsPending,
                  NoStuckAttempt, Pending, AsksOnAdapter, Abstract!Next, Abstract!Work
    <2> QED BY <2>2, <2>3 DEF IInv
  <1>6. CASE BluezTick
    <2>1. /\ discoveryTimer > 0 /\ discoveryTimer' = discoveryTimer - 1 /\ emitted' = "none"
          /\ UNCHANGED <<pendingMac, adapterPath, discovering, own, stale, stopping, session>>
      BY <1>6 DEF BluezTick
    <2>2. /\ FlagTypes' /\ CallTypes' /\ DiscoveryIsStopped' /\ OwnIsPending' /\ AsksOnAdapter'
          /\ Abstract!Next
      BY <2>1 DEF IInv, FlagTypes, CallTypes, DiscoveryIsStopped, OwnIsPending, Pending,
                  AsksOnAdapter, Abstract!Next, Abstract!Work
    <2>3. TimerTypes' /\ discoveryTimer' # NoTimer /\ discoveryTimer # NoTimer
      BY <2>1, BluezAssumption DEF IInv, TimerTypes, NoTimer
    <2>4. NoStuckAttempt' /\ TimerIsTheAttempts'
      BY <2>1, <2>3 DEF IInv, NoStuckAttempt, TimerIsTheAttempts, Pending
    <2> QED BY <2>2, <2>3, <2>4 DEF IInv
  <1> QED BY <1>1, <1>2, <1>3, <1>4, <1>5, <1>6 DEF Next, Request, Reply

LEMMA StepKeeps ==
    ASSUME IInv, [Next]_bluezVars
    PROVE  IInv' /\ [Abstract!Next]_(Abstract!vars)
  <1>1. CASE UNCHANGED bluezVars
    BY <1>1 DEF bluezVars, IInv, FlagTypes, CallTypes, TimerTypes, OwnIsPending, NoStuckAttempt,
                TimerIsTheAttempts, DiscoveryIsStopped, Pending, AsksOnAdapter, Abstract!vars
  <1> QED BY <1>1, NextKeeps

LEMMA IInvAlways == Spec => []IInv
  BY IInvInitial, StepKeeps, PTL DEF Spec

-----------------------------------------------------------------------------
\* The manager's state keeps its types.
THEOREM BluezTypes == Spec => []TypeOK
  <1>1. IInv => TypeOK
    BY DEF IInv, FlagTypes, CallTypes, TimerTypes, TypeOK
  <1> QED BY <1>1, IInvAlways, PTL

\* A pending attempt always has a call of its own in flight, or the discovery timer.
THEOREM NeverStuck == Spec => []NoStuckAttempt
  BY IInvAlways, PTL DEF IInv

\* The discovery timer never outlives its attempt.
THEOREM TimerOwned == Spec => []TimerIsTheAttempts
  BY IInvAlways, PTL DEF IInv

\* A discovery that was granted to an attempt runs no longer than the attempt, but for
\* the stop on its way; one granted after its attempt had ended is not covered.
THEOREM DiscoveryStopped == Spec => []DiscoveryIsStopped
  BY IInvAlways, PTL DEF IInv

\* The signals: one attempt at a time, announced once, at most one verdict each,
\* however many stale replies are taken for the pending attempt's.
THEOREM Refinement == Spec => ImplementsAttempts
  <1>1. BluezInit => Abstract!Init
    BY DEF BluezInit, Abstract!Init, Pending
  <1> QED BY <1>1, IInvAlways, StepKeeps, PTL DEF Spec, ImplementsAttempts, Abstract!Spec
=============================================================================
