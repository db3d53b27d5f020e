------------------------------ MODULE SocketApi ------------------------------
(***************************************************************************)
(* What QBluetoothSocket does for every platform (qbluetoothsocket.cpp):   *)
(* its states and their signals, the lookup of a service's port, close()   *)
(* and abort().  The modules of the platforms' sockets extend it; each     *)
(* keeps a record with at least the fields of SocketBase.                  *)
(***************************************************************************)
EXTENDS Integers, Sequences, FiniteSets, SequencesExt

CONSTANTS
  SoMaxWrites,    \* bound: write() calls of the application
  SoMaxSends,     \* bound: bytes (of any length) the peer sends
  SoMaxSessions   \* bound: calls of connectToService() that get through

ASSUME SoAssumption ==
  SoMaxWrites \in Nat /\ SoMaxSends \in Nat /\ SoMaxSessions \in Nat

SocketStates ==
  {"Unconnected", "ServiceLookup", "Connecting", "Connected", "Closing"}

\* To the platform's own fields, SocketBase adds state, the discovery agent of a
\* lookup, and the application's view: the last of connected() and disconnected(),
\* the errors, and the bytes it has read and written.
SocketBase(own) ==
  LET base == [state |-> "Unconnected", agent |-> FALSE, told |-> "nothing",
               errors |-> 0, session |-> 0, written |-> <<>>, got |-> <<>>]
  IN  [f \in DOMAIN own \cup DOMAIN base |->
         IF f \in DOMAIN own THEN own[f] ELSE base[f]]
SocketBaseOK(r) ==
  /\ r.state \in SocketStates /\ r.agent \in BOOLEAN
  /\ r.told \in {"nothing", "connected", "disconnected"}
  /\ r.errors \in Nat /\ r.session \in 0..SoMaxSessions

\* setSocketState(): connected() and disconnected() follow from the old state.
SetSocketState(r, new) ==
  [r EXCEPT
     !.state = new,
     !.told =
       IF new = r.state THEN @
       ELSE IF new = "Connected" THEN "connected"
       ELSE IF new = "Unconnected" /\ r.state \in {"Connected", "Closing"}
         THEN "disconnected" ELSE @]

\* setSocketError(): the count of errors is kept small, 2 stands for more.
SetSocketError(r) == [r EXCEPT !.errors = IF @ = 2 THEN 2 ELSE @ + 1]

\* abort() and close(): a lookup is abandoned, its agent disconnected.
EnterClosing(r) == SetSocketState([r EXCEPT !.agent = FALSE], "Closing")
SocketClose(r, BackendClose(_)) ==
  IF r.state = "Unconnected" THEN r ELSE BackendClose(EnterClosing(r))

\* doDeviceDiscovery(): an agent looks for the port of the service;
\* serviceDiscovered() connects to it, discoveryFinished() gives up.
DoDeviceDiscovery(r) == [SetSocketState(r, "ServiceLookup") EXCEPT !.agent = TRUE]
ServiceDiscovered(r, ConnectToService(_)) ==
  [ConnectToService(r) EXCEPT !.agent = FALSE]
DiscoveryFinished(r) ==
  IF r.agent
    THEN [SetSocketState(SetSocketError(r), "Unconnected") EXCEPT !.agent = FALSE]
    ELSE r

\* The bytes of the n-th write() or send, one symbol for all of them.
NextByte(log) == Len(log) + 1
NewSession(r) == [r EXCEPT !.session = @ + 1]

\* Bytes that arrive are those sent, in the order sent, none twice.
InOrder(bytes) == \A i, j \in DOMAIN bytes : i < j => bytes[i] < bytes[j]

=============================================================================
