------------------------------ MODULE MCBluez ------------------------------
(***************************************************************************)
(* Bluez with the calls in flight bounded: a request or a discovered       *)
(* device comes only while fewer than MaxCalls calls are unanswered.       *)
(***************************************************************************)
EXTENDS Bluez, FiniteSetsExt

CONSTANT MaxCalls

InFlight == MapThenSumSet(LAMBDA k : own[k] + stale[k], Kinds)

BoundedRequest         == InFlight < MaxCalls /\ Request
BoundedInterfacesAdded == InFlight < MaxCalls /\ OnInterfacesAdded

MCNext == \/ BoundedRequest \/ BoundedInterfacesAdded
          \/ Cancel \/ Reply \/ OnDiscoveryTimeout
          \/ BluezStopsDiscovery \/ BluezTick

MCSpec == BluezInit /\ [][MCNext]_bluezVars /\ Fairness
=============================================================================
