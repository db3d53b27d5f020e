----------------------------- MODULE AndroidServer -----------------------------
(***************************************************************************)
(* QBluetoothServer on Android (qbluetoothserver_android.cpp,              *)
(* qbluetoothserviceinfo_android.cpp, serveracceptancethread.cpp,          *)
(* QtBluetoothSocketServer.java): listen() only takes a fake port, the     *)
(* registration of a service starts a Java thread that accepts             *)
(* connections into a queue the application empties.                       *)
(***************************************************************************)
EXTENDS Integers, Sequences

CONSTANT AvScenarios

\* "restartEarly": the application starts again while the Java thread of before
\* still winds down; "reregister": it registers again without a new listen().
AvFlags == {"listenFails", "restartEarly", "reregister"}
ASSUME AvAssumption ==
  \A s \in AvScenarios :
    /\ s.may \subseteq AvFlags
    /\ s.starts \in Nat /\ s.peers \in Nat /\ s.maxPending \in Nat \ {0}

VARIABLE av

AvMay(flag) == flag \in av.scenario.may

\* listening: the server has a fake port; registered: the service info's flag;
\* linked: the thread's signals reach the server's; threads: the Java threads so
\* far, with what they do; told: newConnection() since the queue was last empty;
\* failed: errorOccurred() since the last start.
AvInit ==
  \E s \in AvScenarios :
    av = [scenario |-> s, listening |-> FALSE, registered |-> FALSE, linked |-> FALSE,
          threads |-> <<>>, pending |-> 0, peers |-> 0, told |-> FALSE, failed |-> FALSE]

IsRunning(r) == r.threads # <<>> /\ r.threads[Len(r.threads)] # "dead"
StopAccepting(r) ==
  IF IsRunning(r) /\ r.threads[Len(r.threads)] # "closing"
    THEN [r EXCEPT !.threads[Len(r.threads)] = "closing"] ELSE r

\* QBluetoothServer::listen() and close(); deactivateActiveListening().
ServerListen(r) == [r EXCEPT !.listening = TRUE, !.linked = TRUE]
Silence(r) == StopAccepting([r EXCEPT !.linked = FALSE])
AvServerClose(r) ==
  LET c == [r EXCEPT !.listening = FALSE] IN IF IsRunning(r) THEN Silence(c) ELSE c

\* initiateActiveListening() of one and the same service: nothing to do when the
\* thread runs, else ServerAcceptanceThread::run().
InitiateActiveListening(r) ==
  IF IsRunning(r) THEN r
  ELSE [r EXCEPT !.threads = Append(@, "starting"), !.failed = FALSE]
RegisterService(r) == [InitiateActiveListening(r) EXCEPT !.registered = TRUE]
UnregisterService(r) ==
  [IF r.listening THEN Silence(r) ELSE r EXCEPT !.registered = FALSE]

\* javaNewSocket(), in the Java thread.
JavaNewSocket(r) ==
  IF r.pending < r.scenario.maxPending
    THEN [r EXCEPT !.pending = @ + 1, !.told = @ \/ r.linked] ELSE r
\* javaThreadErrorOccurred(): the Java thread ends.
JavaThreadError(r, i) ==
  [r EXCEPT !.threads[i] = "dead", !.failed = @ \/ r.linked]

--------------------------------------------------------------------------------
AvListen ==
  /\ ~av.listening /\ Len(av.threads) < av.scenario.starts
  /\ IsRunning(av) => AvMay("restartEarly")
  /\ av' = RegisterService(ServerListen(av))
AvReregister ==
  /\ AvMay("reregister") /\ av.listening /\ ~av.registered
  /\ ~IsRunning(av) /\ Len(av.threads) < av.scenario.starts
  /\ av' = RegisterService(av)
AvUnregister == av.listening /\ av.registered /\ av' = UnregisterService(av)
AvClose ==
  av.listening /\ av' = [AvServerClose(av) EXCEPT !.registered = FALSE]
\* nextPendingConnection().
AvTake ==
  /\ av.told /\ av.pending > 0
  /\ av' = [av EXCEPT !.pending = @ - 1, !.told = av.pending > 1]

\* QtBluetoothSocketServer.run().
AvJava ==
  \E i \in DOMAIN av.threads :
    \/ /\ av.threads[i] = "starting"
       /\ \/ av' = [av EXCEPT !.threads[i] = "accepting"]
          \/ AvMay("listenFails") /\ av' = JavaThreadError(av, i)
    \/ av.threads[i] = "closing" /\ av' = JavaThreadError(av, i)
AvPeer ==
  /\ av.peers < av.scenario.peers
  /\ \E i \in DOMAIN av.threads :
       /\ av.threads[i] = "accepting"
       /\ av' = JavaNewSocket([av EXCEPT !.peers = @ + 1])

AvNext == AvListen \/ AvReregister \/ AvUnregister \/ AvClose \/ AvTake \/ AvJava \/ AvPeer
AvFairness == WF_av(AvJava) /\ WF_av(AvTake)
AvSpec == AvInit /\ [][AvNext]_av /\ AvFairness

--------------------------------------------------------------------------------
\* A record of the right shape; the queue keeps its limit.
AvTypeOK ==
  /\ av.listening \in BOOLEAN /\ av.registered \in BOOLEAN /\ av.linked \in BOOLEAN
  /\ \A i \in DOMAIN av.threads :
       av.threads[i] \in {"starting", "accepting", "closing", "dead"}
  /\ av.pending \in 0..av.scenario.maxPending

\* "This signal is emitted when a new connection is available": the application
\* is told of the connections in the queue of a listening server.
AvAnnounced == av.listening /\ av.pending > 0 => av.told

\* One Java thread at a time accepts connections, and only for a server that
\* listens.
AvOneListener ==
  \A i \in DOMAIN av.threads :
    av.threads[i] = "accepting" => i = Len(av.threads) /\ av.listening

\* A registered server accepts connections, or has told of an error.
AvRegistered == av.listening /\ av.registered
AvRegisteredAccepts ==
  []<>(AvRegistered => av.failed \/ av.threads[Len(av.threads)] = "accepting")

=============================================================================
