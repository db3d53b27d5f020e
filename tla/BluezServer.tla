------------------------------ MODULE BluezServer ------------------------------
(***************************************************************************)
(* QBluetoothServer over a kernel socket (qbluetoothserver_bluez.cpp): the *)
(* listening socket, the notifier that is switched off until the           *)
(* application takes the connection it announced, and the kernel's queue.  *)
(***************************************************************************)
EXTENDS Integers

CONSTANT
  BvScenarios   \* what may happen; bounds: calls of listen(), peers, the queue

BvFlags == {"bindFails", "peerGone", "securityFails"}
ASSUME BvAssumption ==
  \A s \in BvScenarios :
    /\ s.may \subseteq BvFlags
    /\ s.listens \in Nat /\ s.peers \in Nat /\ s.backlog \in Nat \ {0}

VARIABLE bv

BvMay(flag) == flag \in bv.scenario.may

\* sock counts the native sockets made so far; notifier.sock is the one the
\* notifier watches.  backlog: connections the kernel holds.
NoNotifier == [on |-> FALSE, sock |-> 0]
BvInit ==
  \E s \in BvScenarios :
    bv = [scenario |-> s, state |-> "Unconnected", sock |-> 1, open |-> TRUE,
          notifier |-> NoNotifier, backlog |-> 0, peers |-> 0, taken |-> 0,
          listens |-> 0, announced |-> FALSE]

\* QBluetoothSocket::close() of the listening socket, which has nothing to
\* write: abort() closes the descriptor, and the kernel refuses its queue.
CloseSocket(r) ==
  IF r.state = "Unconnected" THEN r
  ELSE [r EXCEPT !.state = "Unconnected", !.open = FALSE, !.backlog = 0]

ServerClose_NotifierKept(r) == CloseSocket(r)
ServerClose(r) == CloseSocket([r EXCEPT !.notifier = NoNotifier, !.announced = FALSE])

\* listen(): a closed socket is replaced by a new one; result: what bind() and
\* listen() return.
Recreated(r) == IF r.open THEN r ELSE [r EXCEPT !.sock = @ + 1, !.open = TRUE]
Listen(r, result) ==
  LET n == Recreated(r) IN
  IF result = "error" THEN n
  ELSE [n EXCEPT !.state = "Listening",
                 !.notifier = IF @.sock = 0 THEN [on |-> TRUE, sock |-> n.sock] ELSE @]

\* _q_newConnection(): newConnection() once, then silence until the application
\* takes the connection.
NewConnection(r) == [r EXCEPT !.notifier.on = FALSE, !.announced = TRUE]

\* nextPendingConnection(): accept(), which fails when the peer has gone.
HasPendingConnections(r) == r.notifier.sock > 0 /\ ~r.notifier.on
NextPendingConnection(r) ==
  LET e == [r EXCEPT !.notifier.on = TRUE, !.announced = FALSE]
  IN IF r.backlog = 0 THEN e ELSE [e EXCEPT !.backlog = @ - 1, !.taken = @ + 1]

\* setSecurityFlags() of a listening server: when the kernel refuses the level
\* the socket is closed for safety, the notifier stays.
SetSecurityFails(r) == CloseSocket(r)

--------------------------------------------------------------------------------
BvListen ==
  /\ bv.state = "Unconnected" /\ bv.listens < bv.scenario.listens
  /\ \E result \in {"ok"} \cup (IF BvMay("bindFails") THEN {"error"} ELSE {}) :
       bv' = Listen([bv EXCEPT !.listens = @ + 1], result)
BvClose == bv.state = "Listening" /\ bv' = ServerClose(bv)
BvSetSecurity ==
  BvMay("securityFails") /\ bv.state = "Listening" /\ bv' = SetSecurityFails(bv)
BvNotified ==
  /\ bv.notifier.on /\ bv.notifier.sock = bv.sock /\ bv.open /\ bv.backlog > 0
  /\ bv' = NewConnection(bv)
BvTake == HasPendingConnections(bv) /\ bv' = NextPendingConnection(bv)

BvPeer ==
  /\ bv.state = "Listening" /\ bv.peers < bv.scenario.peers
  /\ bv.backlog < bv.scenario.backlog
  /\ bv' = [bv EXCEPT !.backlog = @ + 1, !.peers = @ + 1]
BvPeerGone ==
  BvMay("peerGone") /\ bv.backlog > 0 /\ bv' = [bv EXCEPT !.backlog = @ - 1]

BvNext ==
  BvListen \/ BvClose \/ BvSetSecurity \/ BvNotified \/ BvTake \/ BvPeer \/ BvPeerGone

\* The event loop runs; the application takes what is announced.
BvFairness == WF_bv(BvNotified) /\ WF_bv(BvTake)
BvSpec == BvInit /\ [][BvNext]_bv /\ BvFairness

--------------------------------------------------------------------------------
\* A record of the right shape.
BvTypeOK ==
  /\ bv.state \in {"Unconnected", "Listening"}
  /\ bv.notifier \in [on : BOOLEAN, sock : 0..bv.scenario.listens]
  /\ bv.backlog \in 0..bv.scenario.backlog /\ bv.taken \in 0..bv.scenario.peers

\* A listening server hears its own socket: after any sequence of failed and
\* successful listen() and close() its notifier watches the present descriptor.
BvHears == bv.state = "Listening" => bv.open /\ bv.notifier.sock = bv.sock

\* The notifier is silent only while the application has a newConnection() to
\* follow up: no connection is left in the queue unannounced.
BvSilenceAnnounced == HasPendingConnections(bv) => bv.announced

\* Every connection in the queue reaches the application, which takes one
\* connection for each newConnection().
BvConnectionsTaken == []<>(bv.backlog = 0 \/ bv.taken = bv.peers)

=============================================================================
