----------------------------- MODULE LowEnergyApi -----------------------------
(***************************************************************************)
(* What QLowEnergyController and QLowEnergyService do before they call the *)
(* backend of the platform (qlowenergycontroller.cpp, qlowenergyservice    *)
(* .cpp): the states, the conditions on which a call is passed on, and the *)
(* application's calls with their outcome.  The modules of the backends    *)
(* extend it.                                                              *)
(***************************************************************************)
EXTENDS Integers, Sequences, FiniteSets

CONSTANTS
  LeServices,     \* the services of the peer
  LeAttributes,   \* their readable characteristics and descriptors
  LeHome,         \* the service of each attribute
  LeDescriptors,  \* those attributes that are descriptors
  LeMaxCalls,     \* bound: reads and writes of the application
  LeMaxSessions   \* bound: connections

ASSUME LeAssumption ==
  /\ IsFiniteSet(LeServices) /\ IsFiniteSet(LeAttributes)
  /\ LeHome \in [LeAttributes -> LeServices]
  /\ LeDescriptors \subseteq LeAttributes
  /\ LeMaxCalls \in Nat /\ LeMaxSessions \in Nat

ControllerStates ==
  {"Unconnected", "Connecting", "Connected", "Discovering", "Discovered",
   "Closing"}
\* "none": the service is not (or no longer) in serviceList, its objects are in
\* InvalidService.
ServiceStates == {"none", "Remote", "Discovering", "Discovered"}
NoServices == [s \in LeServices |-> "none"]

\* QLowEnergyController: connectToDevice(), disconnectFromDevice(),
\* discoverServices(); QLowEnergyService: discoverDetails(), readX(), writeX().
MayConnect(state) == state = "Unconnected"
MayDisconnect(state) == state # "Unconnected"
MayDiscover(state) == state = "Connected"
MayDiscoverDetails(serviceState) == serviceState = "Remote"
MayAccess(serviceState) == serviceState = "Discovered"

\* The application's calls: "open" until a signal of the service answers them,
\* "dropped" when their service becomes invalid first.
LeResults == {"open", "ok", "error", "dropped"}
LeCalls ==
  {"CharRead", "CharWrite", "DescRead", "DescWrite"}
CallKinds(a) ==
  IF a \in LeDescriptors THEN {"DescRead", "DescWrite"} ELSE {"CharRead", "CharWrite"}
Open(calls) == {i \in DOMAIN calls : calls[i] = "open"}
Answered(calls, i, result) ==
  IF i \in Open(calls) THEN [calls EXCEPT ![i] = result] ELSE calls
Dropped(calls, S) == [i \in DOMAIN calls |->
                        IF i \in S \cap Open(calls) THEN "dropped" ELSE calls[i]]

\* Of a queue, what is at the positions of I.
Kept(q, I) ==
  LET kept[n \in 0..Len(q)] ==
        IF n = 0 THEN <<>> ELSE IF n \in I THEN Append(kept[n - 1], q[n]) ELSE kept[n - 1]
  IN  kept[Len(q)]

=============================================================================
