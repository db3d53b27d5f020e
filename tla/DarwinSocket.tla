----------------------------- MODULE DarwinSocket -----------------------------
(***************************************************************************)
(* The socket of macOS (qbluetoothsocket_macos.mm) over an IOBluetooth     *)
(* channel (btrfcommchannel.mm, btl2capchannel.mm): the delegate's         *)
(* callbacks may come before connectToService() has returned, writes are   *)
(* handed over one chunk at a time, and close() waits for txBuffer.        *)
(* "stalls": a refused write leaves bytes, or a closing socket, behind     *)
(* with nothing on its way that would go on with them.                     *)
(***************************************************************************)
EXTENDS SocketApi

CONSTANTS
  MoScenarios,
  MoChunk       \* what one _q_writeNotify() hands over: the channel's MTU

MoFlags ==
  {"openFails", "refused", "early", "lookup", "accept", "linkLoss", "writeFails",
   "abort", "stalls"}
ASSUME MoAssumption ==
  /\ MoChunk \in Nat \ {0}
  /\ \A s \in MoScenarios : s.may \subseteq MoFlags

VARIABLE mo

MoMay(flag) == flag \in mo.scenario.may

\* channel: the wrapper and what IOBluetooth has made of it.  posted: queued calls
\* of _q_writeNotify(); inFlight: writeAsync() not yet complete; failed: a write
\* was refused.
MoInit ==
  \E s \in MoScenarios :
    mo = SocketBase([scenario |-> s, channel |-> "none", tx |-> <<>>, rx |-> <<>>, posted |-> 0,
                     inFlight |-> 0, failed |-> FALSE, deadCalls |-> 0, sent |-> 0,
                     peer |-> <<>>])

\* What the delegate is told inside connectToService().
EarlyCallbacks == {"nothing", "opened", "openedData", "closed", "error"}

\* connectToService(): the callbacks that come early only leave their mark on
\* state, socketError and rxBuffer; result: what openRFCOMMChannelAsync() returns.
ConnectChannel(r, result, early) ==
  LET n == [r EXCEPT !.tx = <<>>, !.rx = <<>>, !.failed = FALSE, !.channel = "opening"]
      got == IF early = "openedData"
               THEN [n EXCEPT !.rx = <<r.sent + 1>>, !.sent = @ + 1] ELSE n
  IN IF result = "error" \/ early = "error"
       THEN SetSocketError([n EXCEPT !.channel = "closed"])
     ELSE CASE early \in {"opened", "openedData"} ->
                 SetSocketState([got EXCEPT !.channel = "open"], "Connected")
            [] early = "closed" -> SetSocketError([n EXCEPT !.channel = "closed"])
            [] early = "nothing" -> SetSocketState(n, "Connecting")

\* The delegate's callbacks afterwards.
ChannelOpenComplete(r) == SetSocketState([r EXCEPT !.channel = "open"], "Connected")
SetChannelError(r) == SetSocketError(r)
ChannelClosed(r) ==
  SetSocketState([r EXCEPT !.channel = "closed", !.inFlight = 0], "Unconnected")
ReadChannelData(r, byte) == [r EXCEPT !.rx = Append(@, byte)]

\* abort() drops the channel, close() only once txBuffer is empty.
MoAbort_WritesKept(r) == SetSocketState([r EXCEPT !.channel = "none"], "Unconnected")
MoAbort(r) == SetSocketState([r EXCEPT !.channel = "none", !.inFlight = 0], "Unconnected")
MoClose(r) == IF r.tx = <<>> THEN MoAbort(r) ELSE r

\* _q_writeNotify(): one chunk; ok: what writeAsync() returns.  Without an open
\* channel an assertion fails; a build without assertions does nothing, or is
\* refused the write.
HandOver(r, n) ==
  [r EXCEPT !.peer = @ \o SubSeq(r.tx, 1, n), !.tx = SubSeq(@, n + 1, Len(@)),
            !.inFlight = @ + 1]
AfterChunk_NoClose(r) == r
AfterChunk(r) == IF r.tx = <<>> /\ r.state = "Closing" THEN MoClose(r) ELSE r
MoWriteNotify(r, ok) ==
  LET n == IF MoChunk < Len(r.tx) THEN MoChunk ELSE Len(r.tx) IN
  IF r.channel = "none" THEN [r EXCEPT !.deadCalls = 1]
  ELSE IF r.tx = <<>> THEN AfterChunk(r)
  ELSE IF ok /\ r.channel = "open" THEN AfterChunk(HandOver(r, n))
  ELSE SetSocketError([r EXCEPT !.tx = SubSeq(@, n + 1, Len(@)), !.failed = TRUE,
                                !.deadCalls = IF r.channel = "open" THEN @ ELSE 1])

--------------------------------------------------------------------------------
EarlyOutcomes == IF MoMay("early") THEN EarlyCallbacks ELSE {"nothing"}
MoResults == {"ok"} \cup (IF MoMay("openFails") THEN {"error"} ELSE {})
MoConnect ==
  /\ mo.state = "Unconnected" /\ mo.session < mo.scenario.sessions
  /\ ~MoMay("accept")
  /\ \/ MoMay("lookup") /\ mo' = DoDeviceDiscovery(NewSession(mo))
     \/ /\ ~MoMay("lookup")
        /\ \E result \in MoResults, early \in EarlyOutcomes :
             /\ early = "openedData" => mo.sent < mo.scenario.sends
             /\ mo' = ConnectChannel(NewSession(mo), result, early)
MoServiceDiscovered ==
  /\ mo.agent
  /\ LET Connect(r) == ConnectChannel(r, "ok", "nothing")
     IN mo' = ServiceDiscovered(mo, Connect)
MoDiscoveryFinished == mo.agent /\ mo' = DiscoveryFinished(mo)
\* setRFCOMChannel(): a connection the server has accepted, in a new socket; no
\* state change is signalled.
MoAccept ==
  /\ MoMay("accept") /\ mo.session = 0 /\ mo.channel = "none"
  /\ mo' = [NewSession(mo) EXCEPT !.channel = "open", !.state = "Connected"]

\* writeData().
MoWriteData(r) ==
  [r EXCEPT !.posted = IF r.tx = <<>> THEN @ + 1 ELSE @,
            !.tx = Append(@, NextByte(r.written)),
            !.written = Append(@, NextByte(r.written))]
MoWrite ==
  /\ mo.state = "Connected" /\ Len(mo.written) < mo.scenario.writes
  /\ mo' = MoWriteData(mo)
MoRead ==
  /\ mo.state = "Connected" /\ mo.rx # <<>>
  /\ mo' = [mo EXCEPT !.got = @ \o mo.rx, !.rx = <<>>]

MoCloses ==
  /\ mo.state \notin {"Unconnected", "Closing"}
  /\ mo' = SocketClose(mo, MoClose)
MoAborts ==
  /\ MoMay("abort") /\ mo.state # "Unconnected"
  /\ mo' = MoAbort(EnterClosing(mo))

WriteResults == {TRUE} \cup (IF MoMay("writeFails") THEN {FALSE} ELSE {})
\* Work is left and no _q_writeNotify() will come: the code returns from a refused
\* write before it looks at the rest of txBuffer or at a close() that waits.
MoStalled(r) ==
  /\ r.state = "Closing" \/ (r.state = "Connected" /\ r.tx # <<>>)
  /\ r.posted + r.inFlight = 0
MoPosted ==
  /\ mo.posted > 0
  /\ \E ok \in WriteResults : mo' = MoWriteNotify([mo EXCEPT !.posted = @ - 1], ok)
  /\ ~MoStalled(mo') \/ MoMay("stalls")
MoWriteComplete ==
  /\ mo.inFlight > 0
  /\ \E ok \in WriteResults : mo' = MoWriteNotify([mo EXCEPT !.inFlight = @ - 1], ok)
  /\ ~MoStalled(mo') \/ MoMay("stalls")

MoOpened == mo.channel = "opening" /\ mo' = ChannelOpenComplete(mo)
MoRefused ==
  /\ MoMay("refused") /\ mo.channel = "opening"
  /\ mo' = SetChannelError([mo EXCEPT !.channel = "closed"])
MoPeerSends ==
  /\ mo.channel = "open" /\ mo.sent < mo.scenario.sends
  /\ mo' = ReadChannelData([mo EXCEPT !.sent = @ + 1], mo.sent + 1)
MoPeerCloses ==
  MoMay("linkLoss") /\ mo.channel = "open" /\ mo' = ChannelClosed(mo)

MoNext ==
  \/ MoConnect \/ MoServiceDiscovered \/ MoDiscoveryFinished \/ MoAccept \/ MoWrite
  \/ MoRead \/ MoCloses \/ MoAborts \/ MoPosted \/ MoWriteComplete
  \/ MoOpened \/ MoRefused \/ MoPeerSends \/ MoPeerCloses

\* The run loop runs, and IOBluetooth opens channels and completes writes.
MoFairness ==
  /\ WF_mo(MoPosted) /\ WF_mo(MoWriteComplete) /\ WF_mo(MoOpened \/ MoRefused)
  /\ WF_mo(MoServiceDiscovered \/ MoDiscoveryFinished)
MoSpec == MoInit /\ [][MoNext]_mo /\ MoFairness

--------------------------------------------------------------------------------
\* A record of the right shape; only an open channel has writes to complete.
MoTypeOK ==
  /\ SocketBaseOK(mo) /\ mo.posted \in 0..SoMaxWrites
  /\ mo.channel \in {"none", "opening", "open", "closed"}
  /\ mo.inFlight \in 0..SoMaxWrites /\ (mo.inFlight > 0 => mo.channel = "open")

\* A connected socket has its open channel, and an open channel a socket that is
\* connected or closing: whenever the callbacks come, none is lost.
MoConnectedIsOpen == mo.state \in {"Connected", "Closing"} <=> mo.channel = "open"

\* Bytes reach the peer, and the application, once and in order.
MoStreams == InOrder(mo.peer) /\ InOrder(mo.got \o mo.rx)

\* Bytes in txBuffer are on their way: a queued _q_writeNotify(), or a write whose
\* completion will take the next chunk.
MoWriteCarried ==
  mo.state \in {"Connected", "Closing"} /\ mo.tx # <<>> /\ ~mo.failed =>
    mo.posted + mo.inFlight > 0

\* _q_writeNotify() never runs without an open channel, as its assertion says.
MoChannelLive == mo.deadCalls = 0

\* A close() that the application asked for hands over what was written before it,
\* unless the connection is lost or a write fails.
MoCloseFlushes ==
  [][ mo.channel = "open" /\ mo'.channel = "none" /\ ~MoMay("abort") /\ ~mo.failed
        => mo'.tx = <<>> ]_mo

\* A closing socket becomes unconnected, and every attempt is answered.
MoClosingEnds == []<>(mo.state # "Closing")
MoAttemptAnswered ==
  []<>(mo.state \notin {"Connecting", "ServiceLookup"} \/ mo.errors > 0)

=============================================================================
