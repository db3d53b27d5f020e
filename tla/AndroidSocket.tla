----------------------------- MODULE AndroidSocket -----------------------------
(***************************************************************************)
(* The RFCOMM socket of Android (qbluetoothsocket_android.cpp,             *)
(* inputstreamthread.cpp, QtBluetoothInputStreamThread.java).  Each        *)
(* attempt has a Java socket of its own, a worker thread that connects and *)
(* closes it, and, once connected, a Java thread that reads it.  Their     *)
(* signals are queued to the thread of the QBluetoothSocket; connectJava-  *)
(* Socket() and closeJavaSocket() reach every worker that still lives.     *)
(***************************************************************************)
EXTENDS SocketApi

CONSTANT AsScenarios

AsFlags ==
  {"connectFails", "fallback", "streamFails", "writeFails", "linkLoss", "accept"}
ASSUME AsAssumption == \A s \in AsScenarios : s.may \subseteq AsFlags

VARIABLE as

AsMay(flag) == flag \in as.scenario.may

\* sockets: the Java sockets in the order they were made; each with its worker's
\* phase and queue, the thread that reads it, and what the peer has sent to it.
\* socketObject and inputThread: an index of sockets, or 0.  events: the signals
\* queued to the QBluetoothSocket.
NewSocket(link, work, fallback) ==
  [link |-> link, worker |-> "idle", work |-> work, fallback |-> fallback,
   reader |-> "none", expectClosure |-> FALSE, inbox |-> <<>>]
AsInit ==
  \E s \in AsScenarios :
    as = SocketBase([scenario |-> s, sockets |-> <<>>, socketObject |-> 0, inputThread |-> 0,
                     events |-> <<>>, rx |-> <<>>, sent |-> 0, peer |-> <<>>])

Emit(r, name, i) == [r EXCEPT !.events = Append(@, [name |-> name, socket |-> i])]
\* A signal of the private object, queued to every worker that is not finished.
Broadcast(r, what) ==
  [r EXCEPT !.sockets =
     [i \in DOMAIN r.sockets |->
        IF r.sockets[i].worker = "gone" THEN r.sockets[i]
        ELSE [r.sockets[i] EXCEPT !.work = Append(@, what)]]]
Forget(r) == [r EXCEPT !.socketObject = 0, !.inputThread = 0]
Unconnect(r) == SetSocketState(r, "Unconnected")
Newest(r) == Len(r.sockets)

\* connectToServiceHelper() and the fallbacks: a Java socket and its worker.
StartWorker(r, fallback) ==
  LET n == [r EXCEPT !.sockets = Append(@, NewSocket("new", <<>>, fallback))]
  IN Broadcast([n EXCEPT !.socketObject = Newest(n)], "connect")
AsConnectTo(r) == StartWorker(SetSocketState(NewSession(r), "Connecting"), FALSE)

\* InputStreamThread::run().
StartReader(r, i) ==
  [r EXCEPT !.inputThread = i, !.sockets[i].reader = "reading"]

\* socketConnectSuccess(); streams: whether the socket gives its streams.
SocketConnectSuccess_AnySocket(r, i, streams) ==
  IF streams THEN SetSocketState(StartReader(r, i), "Connected")
  ELSE Unconnect(SetSocketError(Forget(Broadcast(r, "close"))))
SocketConnectSuccess(r, i, streams) ==
  IF i # r.socketObject THEN r
  ELSE IF streams THEN SetSocketState(StartReader(r, i), "Connected")
  ELSE Unconnect(SetSocketError(Forget(Broadcast(r, "close"))))

\* defaultSocketConnectFailed() and fallbackSocketConnectFailed(): the first
\* failure may try another way to the service, the second ends the attempt.
ConnectFailed(r, i, fallback) ==
  IF i # r.socketObject THEN r
  ELSE IF fallback /\ ~r.sockets[i].fallback THEN StartWorker(r, TRUE)
  ELSE Unconnect(SetSocketError([r EXCEPT !.socketObject = 0]))

\* inputThreadError(): the end of the reading thread is the end of the
\* connection, whoever closed it.
InputThreadError(r, i, expected) ==
  LET told == IF expected THEN r ELSE SetSocketError(r)
  IN Unconnect(IF told.socketObject = 0 THEN told ELSE Forget(Broadcast(told, "close")))

\* abort() and close(): with a reading thread, UnconnectedState comes with its end.
BackendAbortAndroid(r) ==
  IF r.socketObject = 0 THEN r
  ELSE LET closed == Forget(Broadcast(r, "close")) IN
       IF r.inputThread = 0 THEN Unconnect(closed)
       ELSE [closed EXCEPT !.sockets[r.inputThread].expectClosure = TRUE]

--------------------------------------------------------------------------------
\* The application.
AsConnect ==
  /\ as.state = "Unconnected" /\ as.session < as.scenario.sessions
  /\ ~AsMay("accept") /\ as' = AsConnectTo(as)
\* setSocketDescriptor(): a connection a server has accepted.
SetSocketDescriptor(r) ==
  LET n == [NewSession(r) EXCEPT !.sockets = Append(@, NewSocket("up", <<>>, FALSE))]
      i == Newest(n)
  IN SetSocketState(StartReader([n EXCEPT !.socketObject = i], i), "Connected")
AsAccept ==
  /\ AsMay("accept") /\ as.state = "Unconnected"
  /\ as.session < as.scenario.sessions /\ as' = SetSocketDescriptor(as)
AsClose == as.state # "Unconnected" /\ as' = SocketClose(as, BackendAbortAndroid)

\* writeData(): straight to the Java stream, which throws when the socket is gone.
WriteJava(r) ==
  IF r.sockets[r.socketObject].link = "up"
    THEN [r EXCEPT !.written = Append(@, NextByte(@)), !.peer = Append(@, NextByte(r.written))]
    ELSE SetSocketError(r)
AsWrite ==
  /\ as.state = "Connected" /\ as.socketObject # 0
  /\ Len(as.written) < as.scenario.writes
  /\ as' \in {WriteJava(as)} \cup (IF AsMay("writeFails") THEN {SetSocketError(as)} ELSE {})
AsReadData ==
  /\ as.state = "Connected" /\ as.inputThread # 0 /\ as.rx # <<>>
  /\ as' = [as EXCEPT !.got = @ \o as.rx, !.rx = <<>>]

\* The event loop of the QBluetoothSocket.
Handlers(r, e) ==
  CASE e.name = "done" ->
         {SocketConnectSuccess(r, e.socket, ok) :
            ok \in {TRUE} \cup (IF AsMay("streamFails") THEN {FALSE} ELSE {})}
    [] e.name = "failed" -> {ConnectFailed(r, e.socket, AsMay("fallback"))}
    [] e.name \in {"error", "expected"} ->
         {InputThreadError(r, e.socket, e.name = "expected")}
AsEvent ==
  /\ as.events # <<>>
  /\ as' \in Handlers([as EXCEPT !.events = Tail(@)], Head(as.events))

--------------------------------------------------------------------------------
\* The worker threads: connectSocket() blocks in BluetoothSocket.connect(),
\* closeSocket() ends the thread.  A worker that has quit may still run a call
\* that was queued to it before it leaves its event loop.
ConnectSocket(r, i) ==
  IF r.sockets[i].link = "new"
    THEN [r EXCEPT !.sockets[i].link = "connecting", !.sockets[i].worker = "busy"]
    ELSE Emit([r EXCEPT !.sockets[i].worker = "quit"], "failed", i)
CloseSocketOf(r, i) ==
  [r EXCEPT !.sockets[i].link = "closed", !.sockets[i].worker = "quit"]
AsWorker(i) ==
  /\ as.sockets[i].worker \in {"idle", "quit"} /\ as.sockets[i].work # <<>>
  /\ LET r == [as EXCEPT !.sockets[i].work = Tail(@)]
     IN as' = IF Head(as.sockets[i].work) = "connect" THEN ConnectSocket(r, i)
              ELSE CloseSocketOf(r, i)
AsWorkerEnds(i) ==
  /\ as.sockets[i].worker = "quit"
  /\ as' = [as EXCEPT !.sockets[i].worker = "gone", !.sockets[i].work = <<>>]
AsConnectReturns(i) ==
  /\ as.sockets[i].worker = "busy"
  /\ \/ as' = Emit([as EXCEPT !.sockets[i].worker = "idle", !.sockets[i].link = "up"],
                   "done", i)
     \/ /\ AsMay("connectFails")
        /\ as' = Emit([as EXCEPT !.sockets[i].worker = "quit", !.sockets[i].link = "failed"],
                      "failed", i)

\* The reading thread: javaReadyRead() and javaThreadErrorOccurred().
ReaderError(r, i) ==
  Emit([r EXCEPT !.sockets[i].reader = "done"],
       IF r.sockets[i].expectClosure THEN "expected" ELSE "error", i)
AsReads(i) ==
  /\ as.sockets[i].reader = "reading"
  /\ IF as.sockets[i].inbox # <<>> /\ as.sockets[i].link # "closed"
       THEN as' = [as EXCEPT !.rx = @ \o as.sockets[i].inbox, !.sockets[i].inbox = <<>>]
       ELSE as.sockets[i].link \in {"closed", "lost"} /\ as' = ReaderError(as, i)

AsPeerSends ==
  \E i \in DOMAIN as.sockets :
    /\ as.sockets[i].link = "up" /\ as.sent < as.scenario.sends
    /\ as' = [as EXCEPT !.sent = @ + 1,
                        !.sockets[i].inbox = Append(@, as.sent + 1)]
AsPeerCloses ==
  \E i \in DOMAIN as.sockets :
    /\ AsMay("linkLoss") /\ as.sockets[i].link = "up"
    /\ as' = [as EXCEPT !.sockets[i].link = "lost"]

\* bound: two Java sockets for each session.
AsIds == 1..(2 * SoMaxSessions)
AsThread(i) ==
  /\ i \in DOMAIN as.sockets
  /\ AsWorker(i) \/ AsConnectReturns(i) \/ AsReads(i)
AsNext ==
  \/ AsConnect \/ AsAccept \/ AsClose \/ AsWrite \/ AsReadData \/ AsEvent
  \/ AsPeerSends \/ AsPeerCloses
  \/ \E i \in AsIds : AsThread(i)
  \/ \E i \in DOMAIN as.sockets : AsWorkerEnds(i)

\* The event loop and the threads run; connect() returns.
AsFairness == WF_as(AsEvent) /\ \A i \in AsIds : WF_as(AsThread(i))
AsSpec == AsInit /\ [][AsNext]_as /\ AsFairness

--------------------------------------------------------------------------------
\* A record of the right shape.
AsTypeOK ==
  /\ SocketBaseOK(as)
  /\ as.socketObject \in 0..Len(as.sockets) /\ as.inputThread \in {0, as.socketObject}
  /\ \A i \in DOMAIN as.sockets :
       /\ as.sockets[i].link \in
            {"new", "connecting", "up", "lost", "failed", "closed"}
       /\ as.sockets[i].worker \in {"idle", "busy", "quit", "gone"}
       /\ as.sockets[i].reader \in {"none", "reading", "done"}

\* A thread that reads, or whose end has not been reported, belongs to the
\* present session: no end of an old connection can close a new one.
ReaderOf(i) ==
  \/ as.sockets[i].reader = "reading"
  \/ \E k \in DOMAIN as.events :
       as.events[k].socket = i /\ as.events[k].name \in {"error", "expected"}
AsReaderIsOwn ==
  \A i \in DOMAIN as.sockets :
    ReaderOf(i) => i = Len(as.sockets) /\ as.state \in {"Connected", "Closing"}

\* A connected socket is the one that was asked for last, and its reading thread
\* will tell of its end.
AsConnectedIsOwn ==
  as.state = "Connected" =>
    /\ as.socketObject = Len(as.sockets) /\ as.inputThread = as.socketObject
    /\ ReaderOf(as.socketObject)

\* Bytes arrive in the order sent.
AsStreams == InOrder(as.got \o as.rx) /\ as.peer = as.written

\* A Java socket that has connected for nobody, or is given up, is closed.
AsAbandonedClosed ==
  \A i \in AsIds :
    LET Abandoned == /\ i \in DOMAIN as.sockets
                     /\ as.sockets[i].link = "up" /\ as.socketObject # i
    IN []<>~Abandoned

\* Every attempt ends, and every closing socket becomes unconnected.
AsAttemptEnds == []<>(as.state # "Connecting")
AsClosingEnds == []<>(as.state # "Closing")

=============================================================================
