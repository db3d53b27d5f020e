------------------------------ MODULE WinrtSocket ------------------------------
(***************************************************************************)
(* The socket of WinRT (qbluetoothsocket_winrt.cpp) over one connection:   *)
(* ConnectAsync() and ReadAsync() complete in threads of the system's      *)
(* pool.  What is read waits in the worker's m_pendingData and crosses the *)
(* event loop three times before rxBuffer has it; an error crosses once.   *)
(* "closeConnecting": the application closes while ConnectAsync() runs.    *)
(***************************************************************************)
EXTENDS SocketApi

CONSTANT WsScenarios

WsFlags == {"connectFails", "accept", "writeFails", "linkLoss", "closeConnecting"}
ASSUME WsAssumption == \A s \in WsScenarios : s.may \subseteq WsFlags

VARIABLE ws

WsMay(flag) == flag \in ws.scenario.may

\* native: socket is not -1.  worker: whether a read is outstanding, ended with
\* an error, or was closed by abort().  pending: m_pendingData; events: calls and
\* signals queued to the thread of the socket and its worker.
WsInit ==
  \E s \in WsScenarios :
    ws = SocketBase([scenario |-> s, native |-> FALSE, worker |-> "idle", link |-> "none",
                     pending |-> <<>>, events |-> <<>>, rx |-> <<>>, inbox |-> <<>>,
                     sent |-> 0, peer |-> <<>>])

WsPost(r, name, data) ==
  [r EXCEPT !.events = Append(@, [name |-> name, data |-> data])]
StartReading(r) == [r EXCEPT !.worker = "reading"]

\* handleConnectOpFinished(), in the pool.
HandleConnectOpFinished(r, ok) ==
  IF ok THEN StartReading(SetSocketState([r EXCEPT !.link = "up"], "Connected"))
  ELSE SetSocketState(SetSocketError([r EXCEPT !.link = "none"]), "Unconnected")

\* onReadyRead(), in the pool: bytes, or the end of the connection.  Only the
\* first bytes of m_pendingData are announced.
ReadBytes(r, n) ==
  LET a == IF r.pending = <<>> THEN WsPost(r, "notify", <<>>) ELSE r
  IN [a EXCEPT !.pending = @ \o SubSeq(r.inbox, 1, n),
               !.inbox = SubSeq(@, n + 1, Len(@))]
ReadEnds(r) == WsPost([r EXCEPT !.worker = "failed"], "error", <<>>)

\* notifyAboutNewData(), newDataReceived() with handleNewData(), addToPendingData()
\* and handleError().
NotifyAboutNewData(r) == WsPost([r EXCEPT !.pending = <<>>], "newData", r.pending)
AddToPendingData(r, data) == [r EXCEPT !.rx = @ \o data]
HandleError(r) == SetSocketState(SetSocketError(r), "Unconnected")
WsHandler(r, e) ==
  CASE e.name = "notify" -> NotifyAboutNewData(r)
    [] e.name = "newData" -> WsPost(r, "addData", e.data)
    [] e.name = "addData" -> AddToPendingData(r, e.data)
    [] OTHER -> HandleError(r)

\* abort() and close(): the worker is disconnected and deleted; what it still
\* had is lost, what its signals have posted to the socket is not.  A ConnectAsync()
\* that runs is not cancelled.
WsAbort(r) ==
  LET own == SelectSeq(r.events, LAMBDA e : e.name # "notify")
  IN SetSocketState([r EXCEPT !.worker = "closed", !.native = FALSE,
                              !.link = IF @ = "connecting" THEN @ ELSE "none",
                              !.pending = <<>>, !.inbox = <<>>, !.events = own],
                    "Unconnected")

--------------------------------------------------------------------------------
WsConnect ==
  /\ ws.state = "Unconnected" /\ ws.session < ws.scenario.sessions
  /\ ~WsMay("accept")
  /\ ws' = SetSocketState([NewSession(ws) EXCEPT !.native = TRUE, !.link = "connecting"],
                          "Connecting")
\* setSocketDescriptor(): a connection the server has accepted.
TakeDescriptor(r) ==
  StartReading(SetSocketState([r EXCEPT !.native = TRUE, !.link = "up"], "Connected"))
WsAccept ==
  /\ WsMay("accept") /\ ws.session < ws.scenario.sessions
  /\ ws' = TakeDescriptor(NewSession(ws))
WsCloses ==
  /\ ws.state = "Connected" \/ (ws.state = "Connecting" /\ WsMay("closeConnecting"))
  /\ ws' = SocketClose(ws, WsAbort)

\* writeData() waits for the stream.
WriteIOStream(r, ok) ==
  IF ok THEN [r EXCEPT !.written = Append(@, NextByte(@)),
                       !.peer = Append(@, NextByte(r.written))]
  ELSE SetSocketError(r)
WsWrite ==
  /\ ws.state = "Connected" /\ Len(ws.written) < ws.scenario.writes
  /\ \E ok \in BOOLEAN :
       /\ ok => ws.link = "up"
       /\ ~ok => WsMay("writeFails") \/ ws.link # "up"
       /\ ws' = WriteIOStream(ws, ok)
WsRead ==
  /\ ws.state = "Connected" /\ ws.rx # <<>>
  /\ ws' = [ws EXCEPT !.got = @ \o ws.rx, !.rx = <<>>]

WsEvent ==
  /\ ws.events # <<>>
  /\ ws' = WsHandler([ws EXCEPT !.events = Tail(@)], Head(ws.events))
WsConnectEnds ==
  /\ ws.link = "connecting"
  /\ \E ok \in BOOLEAN :
       (~ok => WsMay("connectFails")) /\ ws' = HandleConnectOpFinished(ws, ok)
WsReads ==
  /\ ws.worker = "reading"
  /\ \/ \E n \in 1..Len(ws.inbox) : ws' = ReadBytes(ws, n)
     \/ ws.inbox = <<>> /\ ws.link = "lost" /\ ws' = ReadEnds(ws)

WsPeerSends ==
  /\ ws.link = "up" /\ ws.sent < ws.scenario.sends
  /\ ws' = [ws EXCEPT !.sent = @ + 1, !.inbox = Append(@, ws.sent + 1)]
WsPeerCloses ==
  WsMay("linkLoss") /\ ws.link = "up" /\ ws' = [ws EXCEPT !.link = "lost"]

WsNext ==
  \/ WsConnect \/ WsAccept \/ WsCloses \/ WsWrite \/ WsRead \/ WsEvent
  \/ WsConnectEnds \/ WsReads \/ WsPeerSends \/ WsPeerCloses

\* The event loop and the pool run.
WsFairness == WF_ws(WsEvent) /\ WF_ws(WsConnectEnds) /\ WF_ws(WsReads)
WsSpec == WsInit /\ [][WsNext]_ws /\ WsFairness

--------------------------------------------------------------------------------
\* A record of the right shape.
WsTypeOK ==
  /\ SocketBaseOK(ws) /\ ws.native \in BOOLEAN
  /\ ws.worker \in {"idle", "reading", "failed", "closed"}
  /\ ws.link \in {"none", "connecting", "up", "lost"}

\* A socket that is connected has not been closed: what completes late does not
\* connect it again.
WsConnectedIsOpen == ws.state = "Connected" => ws.native

\* While the socket is connected no byte is lost, doubled or overtaken on its way
\* from the pool through m_pendingData and the event loop to the application.
Posted(name) ==
  FlattenSeq([i \in DOMAIN ws.events |->
                IF ws.events[i].name = name THEN ws.events[i].data ELSE <<>>])
WsConserved ==
  ws.state = "Connected" =>
    ws.got \o ws.rx \o Posted("addData") \o Posted("newData") \o ws.pending \o ws.inbox
      = [i \in 1..ws.sent |-> i]

\* Bytes that wait are announced: m_pendingData is never left without a call of
\* notifyAboutNewData() on its way.
WsAnnounced ==
  ws.pending # <<>> => \E i \in DOMAIN ws.events : ws.events[i].name = "notify"

\* A lost connection is told, and every attempt ends.
WsLossTold == []<>~(ws.state = "Connected" /\ ws.link = "lost")
WsAttemptEnds == []<>(ws.state # "Connecting")

=============================================================================
