------------------------------ MODULE DBusSocket ------------------------------
(***************************************************************************)
(* A socket over BlueZ's Profile1 interface (qbluetoothsocket_bluezdbus    *)
(* .cpp): a profile object is registered for the attempt, ConnectProfile() *)
(* is called asynchronously, BlueZ hands over the connection with          *)
(* NewConnection(), and a QLocalSocket on its descriptor moves the bytes.  *)
(***************************************************************************)
EXTENDS SocketApi

CONSTANT DsScenarios

DsFlags ==
  {"notFound", "refuse", "linkLoss", "eager", "registerFails", "badDescriptor",
   "lateError"}
ASSUME DsAssumption == \A s \in DsScenarios : s.may \subseteq DsFlags

VARIABLE ds

DsMay(flag) == flag \in ds.scenario.may

\* context: profileContext exists; path: profilePath is set; local: the state of
\* the QLocalSocket; calls: the ConnectProfile() calls BlueZ has not answered, by
\* session; offered: the session whose connection BlueZ has handed over.
DsInit ==
  \E s \in DsScenarios :
    ds = SocketBase([scenario |-> s, context |-> FALSE, path |-> FALSE, local |-> "none",
                     tx |-> <<>>, calls |-> {}, offered |-> 0,
                     peer |-> <<>>, nullUsed |-> FALSE])

\* The end of clearSocket(): the profile is unregistered and forgotten.
Unregister(r) == [r EXCEPT !.path = FALSE, !.context = FALSE]

\* clearSocket() from socketStateChanged(), where the QLocalSocket is closed
\* already.
ClearClosed(r) ==
  IF ~r.path THEN r ELSE Unregister([r EXCEPT !.local = "none", !.tx = <<>>])

\* socketStateChanged(UnconnectedState).
LocalUnconnected(r) == SetSocketState(ClearClosed(r), "Unconnected")

\* clearSocket() with an open QLocalSocket: its close() runs socketStateChanged(),
\* which clears localSocket under the outer call's feet.
ClearSocket(r) ==
  IF ~r.path THEN r
  ELSE IF r.local # "none" THEN [LocalUnconnected(r) EXCEPT !.nullUsed = TRUE]
  ELSE Unregister(r)

\* QLocalSocket::close(): waits for its bytes to be written.
LocalClose(r) ==
  IF r.tx # <<>> THEN SetSocketState([r EXCEPT !.local = "closing"], "Closing")
  ELSE LocalUnconnected(SetSocketState(r, "Closing"))

\* abort(), and close(), which is the same.
DsAbort_NoClear(r) ==
  IF r.local # "none" THEN LocalClose(r) ELSE SetSocketState(r, "Unconnected")
DsAbort(r) ==
  IF r.local # "none" THEN LocalClose(r)
  ELSE SetSocketState(ClearSocket(r), "Unconnected")

\* connectToServiceHelper(); outcome: how registration and lookup went.
ConnectProfile(r, outcome) ==
  LET registered == [r EXCEPT !.context = TRUE, !.path = TRUE] IN
  IF r.context THEN SetSocketError(r)
  ELSE CASE outcome = "ok" ->
              SetSocketState([NewSession(registered) EXCEPT
                                !.calls = @ \cup {r.session + 1}], "Connecting")
         [] outcome = "notFound" -> SetSocketError(ClearSocket(registered))
         [] outcome = "registerFails" -> SetSocketError(registered)

\* connectToServiceReplyHandler(): a refusal clears the socket, and leaves the
\* state as it is.
ReplyError(r) == SetSocketError(ClearSocket(r))

\* remoteConnected().
RemoteConnected(r, valid) ==
  IF valid THEN SetSocketState([r EXCEPT !.local = "up"], "Connected")
  ELSE SetSocketState(r, "Unconnected")

--------------------------------------------------------------------------------
\* The application.  Without "eager" it waits for the answer to an old attempt
\* before it connects again.
DsConnect ==
  /\ ds.state = "Unconnected" /\ ds.session < ds.scenario.sessions
  /\ ds.calls # {} => DsMay("eager")
  /\ \E outcome \in {"ok"} \cup ({"notFound", "registerFails"} \cap ds.scenario.may) :
       ds' = ConnectProfile(ds, outcome)
DsWrite ==
  /\ ds.state = "Connected" /\ Len(ds.written) < ds.scenario.writes
  /\ ds' = [ds EXCEPT !.tx = Append(@, NextByte(ds.written)),
                      !.written = Append(@, NextByte(ds.written))]
DsClose == ds.state # "Unconnected" /\ ds' = SocketClose(ds, DsAbort)

\* BlueZ.
DsNewConnection ==
  /\ ds.context /\ ds.path /\ ds.session \in ds.calls /\ ds.offered < ds.session
  /\ \E valid \in {TRUE} \cup (IF DsMay("badDescriptor") THEN {FALSE} ELSE {}) :
       ds' = [RemoteConnected(ds, valid) EXCEPT !.offered = ds.session]
\* An attempt whose profile was unregistered fails; "lateError": also one whose
\* connection has been handed over.
DsReply ==
  \E k \in ds.calls :
    LET r == [ds EXCEPT !.calls = @ \ {k}] IN
    \/ ds.offered = k /\ ds' = r
    \/ /\ ds.offered = k => DsMay("lateError")
       /\ (k = ds.session /\ ds.path /\ ds.offered # k) => DsMay("refuse")
       /\ ds' = ReplyError(r)

\* QLocalSocket.
DsFlush ==
  /\ ds.local \in {"up", "closing"} /\ ds.tx # <<>>
  /\ LET r == [ds EXCEPT !.peer = Append(@, Head(ds.tx)), !.tx = Tail(@)]
     IN ds' = IF r.tx = <<>> /\ r.local = "closing" THEN LocalUnconnected(r) ELSE r
DsPeerCloses ==
  /\ DsMay("linkLoss") /\ ds.local \in {"up", "closing"}
  /\ ds' = LocalUnconnected(SetSocketState([ds EXCEPT !.tx = <<>>], "Closing"))

DsNext == DsConnect \/ DsWrite \/ DsClose \/ DsNewConnection \/ DsReply \/ DsFlush
          \/ DsPeerCloses
DsFairness == WF_ds(DsNewConnection \/ DsReply) /\ WF_ds(DsFlush)
DsSpec == DsInit /\ [][DsNext]_ds /\ DsFairness

--------------------------------------------------------------------------------
\* A record of the right shape.
DsTypeOK ==
  /\ SocketBaseOK(ds) /\ ds.context \in BOOLEAN
  /\ ds.path \in BOOLEAN /\ (ds.path => ds.context)
  /\ ds.local \in {"none", "up", "closing"} /\ ds.calls \subseteq 1..SoMaxSessions

\* An unconnected socket can connect again: it has no profile registered, and no
\* profileContext to trip over.
DsReusable == ds.state = "Unconnected" => ~ds.context /\ ~ds.path /\ ds.local = "none"

\* The connection and its QLocalSocket come and go together, and what the peer
\* has, with what is still to be written, is what was written, in order.
DsConnectedHasSocket ==
  /\ ds.state = "Connected" <=> ds.local = "up"
  /\ ds.local # "none" => ds.context /\ ds.offered = ds.session
  /\ InOrder(ds.peer \o ds.tx)

\* clearSocket() does not use the QLocalSocket its own close() has cleared.
DsLocalLive == ~ds.nullUsed

\* The application hears of every attempt: connected, or an error.
DsAttemptAnswered ==
  []<>(ds.state # "Connecting" \/ ds.errors > 0)

\* A closing socket drains and ends.
DsClosingEnds == []<>(ds.state # "Closing")

=============================================================================
