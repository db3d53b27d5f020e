----------------------------- MODULE BluezSocket -----------------------------
(***************************************************************************)
(* A kernel socket of BlueZ under QBluetoothSocket (qbluetoothsocket_bluez *)
(* .cpp): connect() that completes through a write notifier, reads into    *)
(* rxBuffer, writes out of txBuffer, and the closing that waits for        *)
(* txBuffer to drain.  Notifiers fire in batches, one per poll(); a call   *)
(* queued by writeData() runs before the next poll().                      *)
(*                                                                         *)
(* "closeInSlot"  a slot of bytesWritten() or readyRead() closes           *)
(* "writeInSlot"  a slot of bytesWritten() writes the next bytes           *)
(* "replyInSlot"  a slot of readyRead() writes                             *)
(* "abortBusy"    abort() with bytes that are still to be written          *)
(***************************************************************************)
EXTENDS SocketApi

CONSTANTS
  BsScenarios,  \* what the environment and the application may do
  BsChunk       \* how much of txBuffer one _q_writeNotify() takes

BsFlags ==
  {"refuse", "refuseAtOnce", "linkLoss", "writeFails", "closeInSlot", "writeInSlot",
   "replyInSlot", "lookup", "unbuffered", "abort", "abortBusy"}
ASSUME BsAssumption ==
  /\ BsChunk \in Nat \ {0}
  /\ \A s \in BsScenarios : s.may \subseteq BsFlags

VARIABLE bz   \* the socket, its notifiers, and the kernel's side

BsMay(flag) == flag \in bz.scenario.may
Notifiers == {"none", "off", "on"}
Links == {"closed", "idle", "connecting", "refused", "failed", "up", "lost"}

BsInit ==
  \E s \in BsScenarios :
    bz = SocketBase([scenario |-> s, connecting |-> FALSE, rn |-> "none", wn |-> "none",
                     tx |-> <<>>, rx |-> <<>>, posted |-> 0, events |-> <<>>,
                     link |-> "closed", inbox |-> <<>>, sent |-> 0, peer |-> <<>>,
                     nullUsed |-> FALSE])

\* setEnabled(): a disabled notifier's event that is still in the batch is
\* dropped (a handler has at most one event behind it); a notifier that was
\* deleted is a null pointer.
Enable(r, n, on) ==
  LET value == IF on THEN "on" ELSE "off"
      live == IF r.events = <<n>> THEN <<>> ELSE r.events
  IN IF r[n] = "none" THEN [r EXCEPT !.nullUsed = TRUE]
     ELSE [r EXCEPT ![n] = value, !.events = IF on THEN @ ELSE live]

EnsureNativeSocket(r) ==
  IF r.link # "closed" THEN r
  ELSE [r EXCEPT !.rn = "off", !.wn = "off", !.link = "idle"]

\* connectToServiceHelper(); result: what ::connect() returns.
ConnectToServiceHelper(r, result) ==
  LET e == Enable(Enable(EnsureNativeSocket(r), "wn", TRUE), "rn", TRUE) IN
  IF result = "error" THEN SetSocketError(e)
  ELSE SetSocketState([e EXCEPT !.connecting = TRUE, !.link = "connecting"],
                      "Connecting")

BackendAbort(r) ==
  SetSocketState([r EXCEPT !.rn = "none", !.wn = "none", !.events = <<>>,
                           !.link = "closed", !.inbox = <<>>], "Unconnected")

BackendClose(r) ==
  IF r.tx # <<>> THEN Enable(r, "wn", TRUE) ELSE BackendAbort(r)
BsClose(r) == SocketClose(r, BackendClose)

\* writeData() into txBuffer: the first bytes queue a call of _q_writeNotify().
CanWrite(r) == r.state = "Connected" /\ Len(r.written) < r.scenario.writes
WriteData(r) ==
  LET e == IF r.tx = <<>> THEN [Enable(r, "wn", TRUE) EXCEPT !.posted = @ + 1] ELSE r
  IN [e EXCEPT !.tx = Append(@, NextByte(r.written)),
               !.written = Append(@, NextByte(r.written))]

\* The application's slot on bytesWritten() or readyRead().
InSlot(r, reaction) ==
  IF reaction = "close" THEN BsClose(r)
  ELSE IF reaction = "write" /\ CanWrite(r) THEN WriteData(r) ELSE r

\* ::write() of some bytes: the kernel takes a prefix, possibly none (EAGAIN),
\* or fails for good, which loses the bytes that were taken from txBuffer.
CanFail(r) == r.link # "up" \/ BsMay("writeFails")
WriteOutcomes(r, bytes) ==
  (IF r.link = "up" THEN 0..Len(bytes) ELSE {}) \cup (IF CanFail(r) THEN {-1} ELSE {})
Sent(r, bytes, n) == [r EXCEPT !.peer = @ \o SubSeq(bytes, 1, n)]

\* _q_writeNotify() in ConnectingState: SO_ERROR tells whether connect() failed,
\* and reading it clears it.
FinishConnect(r) ==
  IF r.link = "refused" THEN SetSocketError([r EXCEPT !.link = "failed"])
  ELSE [Enable(SetSocketState(r, "Connected"), "wn", FALSE)
          EXCEPT !.connecting = FALSE]

AfterWrite(r) ==
  IF r.tx # <<>> THEN Enable(r, "wn", TRUE)
  ELSE IF r.state = "Closing" THEN BackendClose(Enable(r, "wn", FALSE)) ELSE r

WriteBuffer_NothingPutBack(r, n, reaction) ==
  LET size == IF BsChunk < Len(r.tx) THEN BsChunk ELSE Len(r.tx)
      buf == SubSeq(r.tx, 1, size)
      rest == SubSeq(r.tx, size + 1, Len(r.tx))
  IN IF n = -1 THEN AfterWrite(SetSocketError([r EXCEPT !.tx = rest]))
     ELSE AfterWrite(InSlot(Sent([r EXCEPT !.tx = rest], buf, n), reaction))
WriteBuffer(r, n, reaction) ==
  LET size == IF BsChunk < Len(r.tx) THEN BsChunk ELSE Len(r.tx)
      buf == SubSeq(r.tx, 1, size)
      rest == SubSeq(r.tx, size + 1, Len(r.tx))
      kept == SubSeq(buf, n + 1, size) \o rest
  IN IF n = -1 THEN AfterWrite(SetSocketError([r EXCEPT !.tx = rest]))
     ELSE AfterWrite(InSlot(Sent([r EXCEPT !.tx = kept], buf, n),
                            IF n > 0 THEN reaction ELSE "none"))

\* The outcomes of _q_writeNotify(); reactions: what a slot may do.
WriteNotify(r, reactions) ==
  IF r.connecting /\ r.state = "Connecting" THEN {FinishConnect(r)}
  ELSE IF r.tx = <<>> THEN {Enable(r, "wn", FALSE)}
  ELSE LET first == SubSeq(r.tx, 1, IF BsChunk < Len(r.tx) THEN BsChunk ELSE Len(r.tx))
       IN {WriteBuffer(r, n, w) : n \in WriteOutcomes(r, first), w \in reactions}

\* _q_readNotify(): what ::read() delivers, first the bytes that have arrived,
\* then the end of the connection, which closes the socket.
ReadFails(r) ==
  BsClose(SetSocketError(Enable(Enable(r, "rn", FALSE), "wn", FALSE)))
ReadNotify(r, reactions) ==
  IF r.inbox = <<>> THEN {ReadFails(r)}
  ELSE {InSlot([r EXCEPT !.rx = @ \o SubSeq(r.inbox, 1, n),
                         !.inbox = SubSeq(@, n + 1, Len(@))], w) :
          n \in 1..Len(r.inbox), w \in reactions}

--------------------------------------------------------------------------------
\* The application: its calls come between two batches of notifiers, or from a
\* slot (ReadReactions, WriteReactions).

Idle == bz.events = <<>>
Reactions(mayWrite) ==
  {"none"} \cup (IF BsMay("closeInSlot") THEN {"close"} ELSE {})
           \cup (IF BsMay(mayWrite) THEN {"write"} ELSE {})
ReadReactions == Reactions("replyInSlot")
WriteReactions == Reactions("writeInSlot")

BsConnect ==
  /\ Idle /\ bz.state = "Unconnected" /\ bz.session < bz.scenario.sessions
  /\ \/ ~BsMay("lookup")
        /\ \E result \in {"ok"} \cup (IF BsMay("refuseAtOnce") THEN {"error"} ELSE {}) :
             bz' = ConnectToServiceHelper(NewSession(bz), result)
     \/ BsMay("lookup") /\ bz' = DoDeviceDiscovery(NewSession(bz))

\* serviceDiscovered() and discoveryFinished() of the lookup's agent.
BsServiceDiscovered ==
  /\ bz.agent
  /\ \E result \in {"ok"} \cup (IF BsMay("refuseAtOnce") THEN {"error"} ELSE {}) :
       LET Connect(r) == ConnectToServiceHelper(r, result)
       IN bz' = ServiceDiscovered(bz, Connect)
BsDiscoveryFinished == bz.agent /\ bz' = DiscoveryFinished(bz)

\* writeData(): straight into the socket, or buffered.
WriteUnbuffered(r, n) ==
  IF n = -1 THEN SetSocketError(r)
  ELSE [Sent(r, <<NextByte(r.written)>>, n) EXCEPT
          !.written = IF n = 1 THEN Append(@, NextByte(r.written)) ELSE @]
BsWrite ==
  /\ Idle /\ CanWrite(bz)
  /\ IF BsMay("unbuffered")
       THEN \E n \in WriteOutcomes(bz, <<0>>) : bz' = WriteUnbuffered(bz, n)
       ELSE bz' = WriteData(bz)

BsRead ==
  /\ Idle /\ bz.state = "Connected" /\ bz.rx # <<>>
  /\ bz' = [bz EXCEPT !.got = @ \o bz.rx, !.rx = <<>>]

BsCloses == Idle /\ bz.state # "Unconnected" /\ bz' = BsClose(bz)
\* "abortBusy": also with bytes still to be written.
BsAbort ==
  /\ Idle /\ BsMay("abort") /\ bz.state # "Unconnected"
  /\ (bz.tx # <<>> \/ bz.posted > 0) => BsMay("abortBusy")
  /\ bz' = SocketClose(bz, BackendAbort)

--------------------------------------------------------------------------------
\* The event loop.

Ready(n) ==
  /\ bz[n] = "on"
  /\ IF n = "rn" THEN bz.inbox # <<>> \/ bz.link \in {"idle", "refused", "failed", "lost"}
                 ELSE bz.link \in {"idle", "refused", "failed", "up", "lost"}
BsPoll ==
  /\ Idle /\ bz.posted = 0
  /\ \E events \in {<<"rn">>, <<"wn">>, <<"rn", "wn">>, <<"wn", "rn">>} :
       /\ ToSet(events) = {n \in {"rn", "wn"} : Ready(n)}
       /\ bz' = [bz EXCEPT !.events = events]

BsNotified ==
  /\ bz.events # <<>>
  /\ LET n == Head(bz.events)
         r == [bz EXCEPT !.events = Tail(@)]
     IN bz' \in IF n = "rn" THEN ReadNotify(r, ReadReactions)
               ELSE WriteNotify(r, WriteReactions)

BsPosted ==
  /\ bz.posted > 0 /\ Idle
  /\ bz' \in WriteNotify([bz EXCEPT !.posted = @ - 1], WriteReactions)

--------------------------------------------------------------------------------
\* The kernel and the peer.

BsConnected == bz.link = "connecting" /\ bz' = [bz EXCEPT !.link = "up"]
BsRefused ==
  BsMay("refuse") /\ bz.link = "connecting" /\ bz' = [bz EXCEPT !.link = "refused"]
BsPeerSends ==
  /\ bz.link = "up" /\ bz.sent < bz.scenario.sends
  /\ bz' = [bz EXCEPT !.inbox = Append(@, bz.sent + 1), !.sent = @ + 1]
BsPeerCloses == BsMay("linkLoss") /\ bz.link = "up" /\ bz' = [bz EXCEPT !.link = "lost"]

BsNext ==
  \/ BsConnect \/ BsServiceDiscovered \/ BsDiscoveryFinished \/ BsWrite \/ BsRead
  \/ BsCloses \/ BsAbort \/ BsPoll \/ BsNotified \/ BsPosted
  \/ BsConnected \/ BsRefused \/ BsPeerSends \/ BsPeerCloses

\* The event loop runs, the kernel decides a connect() and takes bytes again.
BsProgress == BsNotified /\ bz'.tx # bz.tx
BsFairness ==
  /\ WF_bz(BsPoll) /\ WF_bz(BsNotified) /\ WF_bz(BsPosted) /\ SF_bz(BsProgress)
  /\ WF_bz(BsConnected \/ BsRefused)
  /\ WF_bz(BsServiceDiscovered \/ BsDiscoveryFinished)
BsSpec == BsInit /\ [][BsNext]_bz /\ BsFairness

--------------------------------------------------------------------------------
\* A record of the right shape.
BsTypeOK ==
  /\ SocketBaseOK(bz)
  /\ bz.rn \in Notifiers /\ bz.wn \in Notifiers /\ (bz.rn = "none" <=> bz.wn = "none")
  /\ bz.link \in Links /\ (bz.link = "closed" <=> bz.rn = "none")
  /\ bz.posted \in 0..SoMaxWrites /\ ToSet(bz.events) \subseteq {"rn", "wn"}

\* "If a connection is established, QBluetoothSocket enters ConnectedState and
\* emits connected()": a failed connect() is not announced as a connection,
\* whichever notifier of the batch runs first.
BsConnectedIsUp == bz.state = "Connected" => bz.link \in {"up", "lost"}

\* Bytes that wait in txBuffer are on their way: a notifier or a queued call
\* will come for them as long as the socket is open.
BsWriteCarried ==
  bz.tx # <<>> /\ bz.state \in {"Connected", "Closing"} =>
    bz.wn = "on" \/ bz.posted > 0

\* Nothing is lost or doubled between the kernel, rxBuffer and the application,
\* nor between write(), txBuffer and the peer.
BsStreams ==
  /\ InOrder(bz.got \o bz.rx \o bz.inbox) /\ InOrder(bz.peer \o bz.tx)
  /\ bz.link = "up" /\ bz.session = 1 => Len(bz.got \o bz.rx \o bz.inbox) = bz.sent
  /\ bz.errors = 0 /\ bz.told # "disconnected" => bz.peer \o bz.tx = bz.written

\* No handler, and no call that write() has queued, uses a notifier that abort()
\* has deleted, also when a slot closes the socket, or writes the next bytes, in the
\* middle of _q_writeNotify().
BsNotifiersLive == ~bz.nullUsed

\* "If there is pending data to be written, QBluetoothSocket will enter ClosingState
\* and wait until all data has been written": a socket that close() has closed
\* keeps nothing, and no queued call, for the next connection, whatever slots and
\* the peer did meanwhile.  (abort() with pending data does: "abortBusy".)
BsNothingLeft == bz.state = "Unconnected" => bz.tx = <<>> /\ bz.posted = 0

\* "Eventually, it will enter UnconnectedState": a closing socket drains.
BsClosingEnds == []<>(bz.state # "Closing")

\* An attempt to connect ends, with a connection or without.
BsAttemptEnds == []<>(bz.state \notin {"ServiceLookup", "Connecting"})

=============================================================================
