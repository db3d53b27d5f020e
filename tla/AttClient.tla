------------------------------ MODULE AttClient ------------------------------
(***************************************************************************)
(* The ATT request queue of QLowEnergyControllerPrivateBluez in the        *)
(* central role (src/src/bluetooth/qlowenergycontroller_bluez.cpp): the    *)
(* application's calls enqueue requests, at most one request is on the     *)
(* L2CAP channel, the peer's answers are processed against the head of the *)
(* queue, and a refused request may raise the security level of the link   *)
(* and be put back in front.                                               *)
(*                                                                         *)
(* A slot runs inside the signal that calls it, so a handler and every     *)
(* call it makes is one step.  The peer is any ATT server: it answers each *)
(* request that reaches it, in order.  Sizes are abstracted: a value is    *)
(* the number of Prepare Write payloads it needs under the MTU in force, a *)
(* read answer either fills a PDU ("more") or does not.                    *)
(***************************************************************************)
EXTENDS Integers, Sequences, FiniteSets

CONSTANTS
  Services,       \* the services of the peer
  Secondary,      \* those that are secondary services
  CharsOf,        \* the characteristic handles of each service
  DescsOf,        \* the descriptor handles of each characteristic
  Readable,       \* the characteristics with the Read property
  MaxCalls,       \* bound: read and write calls of the application
  MaxChunks,      \* bound: Prepare Write payloads of the longest value
  MaxBlobs,       \* bound: Read Blob requests one value needs
  MonitorsWired,  \* whether init() gets past its unconditional return
  Environment     \* what peer, kernel and application may do, see below

Chars == UNION {CharsOf[s] : s \in Services}
Descs == UNION {DescsOf[c] : c \in Chars}
Handles == Chars \cup Descs

(***************************************************************************)
(* "auth"       the peer refuses requests until the link is encrypted      *)
(* "authFails"  an encryption request to the kernel may fail               *)
(* "loss"       a request is discarded (EAGAIN) or never answered          *)
(* "blobError"  the peer may refuse a Read Blob request                    *)
(* "overlap"    the application writes while a long write is under way     *)
(* "slot"       the application disconnects from a serviceDiscovered slot  *)
(* "netError"   writing to or reading from the socket may fail             *)
(* "lateAnswer" an answer may come after the timeout of its request        *)
(***************************************************************************)
Hazards ==
  {"auth", "authFails", "loss", "blobError", "overlap", "slot", "netError",
   "lateAnswer"}

ASSUME ConstantsAssumption ==
  /\ IsFiniteSet(Services)
  /\ Secondary \subseteq Services
  /\ CharsOf \in [Services -> SUBSET (Nat \ {0})]
  /\ DescsOf \in [Chars -> SUBSET (Nat \ {0})]
  /\ IsFiniteSet(Handles)
  /\ Chars \cap Descs = {}
  /\ \A s, t \in Services : s # t => CharsOf[s] \cap CharsOf[t] = {}
  /\ \A c, d \in Chars : c # d => DescsOf[c] \cap DescsOf[d] = {}
  /\ Readable \subseteq Chars
  /\ MaxCalls \in Nat /\ MaxChunks \in Nat \ {0} /\ MaxBlobs \in Nat
  /\ MonitorsWired \in BOOLEAN
  /\ Environment \subseteq Hazards

VARIABLES
  state,                    \* QLowEnergyController::ControllerState
  socketOpen,               \* l2cpSocket is in ConnectedState
  openRequests,             \* QQueue<Request>
  requestPending,
  encryptionChangePending,
  securityHigh,             \* securityLevelValue = BT_SECURITY_HIGH
  svc,                      \* serviceList with each service's ServiceState
  mode,                     \* each service's DiscoveryMode
  found,                    \* the characteristics and descriptors it knows
  calls,                    \* the application's calls and their outcome
  wire,                     \* requests the peer has not answered yet
  rsp,                      \* answers the client has not read yet
  prepared,                 \* the peer's prepare queue
  content                   \* the call that wrote each part of each value

client == <<state, socketOpen, openRequests, requestPending,
            encryptionChangePending, securityHigh, svc, mode, found>>
peer == <<wire, rsp, prepared, content>>
vars == <<client, calls, peer>>

-----------------------------------------------------------------------------
(* Requests, answers and calls *)

Commands ==
  {"EXCHANGE_MTU", "READ_BY_GROUP", "READ_BY_TYPE", "READ", "READ_BLOB",
   "FIND_INFORMATION", "WRITE", "PREPARE_WRITE", "EXECUTE_WRITE"}
NoTarget == 0
Arguments ==
  {"none", "primary", "secondary", "include", "characteristic",
   "next", "last", "commit", "cancel"}

\* struct Request.  "target" and "arg" are what reference and reference2 hold,
\* "off" the offset in the payload, "op" the call (0: none) whose answer it is.
Requests ==
  {r \in [cmd : Commands, target : Services \cup Handles \cup {NoTarget},
          arg : Arguments, op : 0..MaxCalls, off : Nat] :
     /\ r.cmd = "READ_BY_TYPE" => r.target \in Services
     /\ r.cmd = "FIND_INFORMATION" => r.target \in Chars
     /\ r.cmd \in {"READ", "READ_BLOB", "WRITE", "PREPARE_WRITE",
                   "EXECUTE_WRITE"} => r.target \in Handles}
Req(cmd, target, arg, op, off) ==
  [cmd |-> cmd, target |-> target, arg |-> arg, op |-> op, off |-> off]

MtuReq == Req("EXCHANGE_MTU", NoTarget, "none", 0, 0)
GroupReq(type) == Req("READ_BY_GROUP", NoTarget, type, 0, 0)
TypeReq(s, type, page) == Req("READ_BY_TYPE", s, type, 0, page)
ReadReq(a, last, op) ==
  Req("READ", a, IF last THEN "last" ELSE "next", op, 0)
BlobReq(r) == Req("READ_BLOB", r.target, r.arg, r.op, r.off + 1)
FindReq_HandleForgotten(c) == Req("FIND_INFORMATION", NoTarget, "none", 0, 0)
FindReq(c) == Req("FIND_INFORMATION", c, "none", 0, 0)
PrepareReq(a, op, chunk) == Req("PREPARE_WRITE", a, "none", op, chunk)
ExecuteReq(a, op, flag) == Req("EXECUTE_WRITE", a, flag, op, 0)

\* An answer: its opcode, error code, the items it lists, whether there is more
\* to ask for, and (for the properties only) the request it answers.
Errors == {"none", "auth", "other"}
Answers ==
  {p \in [cmd : Commands, err : Errors, items : SUBSET (Services \cup Handles),
          more : BOOLEAN, req : Requests] :
     /\ p.cmd = p.req.cmd
     /\ p.cmd \in {"READ_BY_TYPE", "FIND_INFORMATION"} => p.items \subseteq Handles}
Answer(r, err, items, more) ==
  [cmd |-> r.cmd, err |-> err, items |-> items, more |-> more, req |-> r]

Results == {"open", "ok", "error", "dropped"}
Calls ==
  [kind : {"read", "write"}, target : Handles, size : 1..MaxChunks,
   result : Results]

Settle(op, result) ==
  IF op \in DOMAIN calls THEN [calls EXCEPT ![op].result = result] ELSE calls
DropOpenCalls ==
  [i \in DOMAIN calls |->
     IF calls[i].result = "open" THEN [calls[i] EXCEPT !.result = "dropped"]
                                 ELSE calls[i]]

\* serviceForHandle() and the characteristic a descriptor belongs to.
ServiceForHandle(a) ==
  CHOOSE s \in Services :
    \/ a \in CharsOf[s]
    \/ \E c \in CharsOf[s] : a \in DescsOf[c]

\* The orders in which a QHash with the keys S may be iterated.
HashOrders(S) ==
  {f \in [1..Cardinality(S) -> S] :
     \A i, j \in 1..Cardinality(S) : f[i] = f[j] => i = j}
IsFirst(a, S) == a \in S /\ \A b \in S : a <= b

-----------------------------------------------------------------------------
(* The queue *)

\* Mutants: a second request is sent while one is in flight, or while the kernel
\* changes the encryption.
SendNextPendingRequest_NoPendingGuard(q, pending, encrypting) ==
  /\ openRequests' = q
  /\ encryptionChangePending' = encrypting
  /\ IF q = <<>> \/ encrypting
       THEN requestPending' = pending /\ wire' = wire
       ELSE /\ requestPending' = TRUE
            /\ wire' = IF socketOpen THEN Append(wire, Head(q)) ELSE wire
SendNextPendingRequest_EncryptionIgnored(q, pending, encrypting) ==
  /\ openRequests' = q
  /\ encryptionChangePending' = encrypting
  /\ IF q = <<>> \/ pending
       THEN requestPending' = pending /\ wire' = wire
       ELSE /\ requestPending' = TRUE
            /\ wire' = IF socketOpen THEN Append(wire, Head(q)) ELSE wire

\* sendNextPendingRequest() on the queue q: the head stays in the queue until
\* it is answered.  A packet written to a closed socket goes nowhere.
SendNextPendingRequest(q, pending, encrypting) ==
  /\ openRequests' = q
  /\ encryptionChangePending' = encrypting
  /\ IF q = <<>> \/ pending \/ encrypting
       THEN requestPending' = pending /\ wire' = wire
       ELSE /\ requestPending' = TRUE
            /\ wire' = IF socketOpen THEN Append(wire, Head(q)) ELSE wire

Enqueue(r) ==
  SendNextPendingRequest(Append(openRequests, r), requestPending,
                         encryptionChangePending)

\* Mutants: a reset that forgets one of its assignments.
ResetController_PendingKept ==
  /\ openRequests' = <<>>
  /\ requestPending' = requestPending
  /\ encryptionChangePending' = FALSE
  /\ securityHigh' = FALSE
ResetController_QueueKept ==
  /\ openRequests' = openRequests
  /\ requestPending' = FALSE
  /\ encryptionChangePending' = FALSE
  /\ securityHigh' = FALSE

\* resetController(), with the packets of the old channel.
ResetController ==
  /\ openRequests' = <<>>
  /\ requestPending' = FALSE
  /\ encryptionChangePending' = FALSE
  /\ securityHigh' = FALSE

\* invalidateServices(): the objects of this connection never become valid
\* again, and no signal reaches the calls they had open.
InvalidateServices ==
  /\ svc' = [s \in Services |-> "unknown"]
  /\ found' = [s \in Services |-> {}]
  /\ calls' = DropOpenCalls

CloseChannel ==
  /\ wire' = <<>>
  /\ rsp' = <<>>
  /\ prepared' = [a \in Handles |-> [k \in 1..MaxChunks |-> 0]]

-----------------------------------------------------------------------------
(* Connection and disconnection *)

Init ==
  /\ state = "Unconnected" /\ socketOpen = FALSE
  /\ openRequests = <<>> /\ requestPending = FALSE
  /\ encryptionChangePending = FALSE /\ securityHigh = FALSE
  /\ svc = [s \in Services |-> "unknown"]
  /\ mode = [s \in Services |-> "full"]
  /\ found = [s \in Services |-> {}]
  /\ calls = <<>>
  /\ wire = <<>> /\ rsp = <<>>
  /\ prepared = [a \in Handles |-> [k \in 1..MaxChunks |-> 0]]
  /\ content = [a \in Handles |-> [k \in 1..MaxChunks |-> 0]]

\* connectToDevice() up to l2cpConnected(), which exchanges the MTU first.  The
\* channel is new; what the controller still has in its queue is not.
L2cpConnected ==
  /\ state = "Unconnected"
  /\ state' = "Connected" /\ socketOpen' = TRUE
  /\ securityHigh' \in BOOLEAN
  /\ openRequests' = Append(openRequests, MtuReq)
  /\ IF requestPending \/ encryptionChangePending
       THEN wire' = <<>> /\ requestPending' = requestPending
       ELSE wire' = <<Head(openRequests')>> /\ requestPending' = TRUE
  /\ rsp' = <<>>
  /\ prepared' = [a \in Handles |-> [k \in 1..MaxChunks |-> 0]]
  /\ UNCHANGED <<encryptionChangePending, svc, mode, found, calls, content>>

\* The same when the MTU request cannot be written: l2cpErrorChanged() resets
\* the controller in the middle of l2cpConnected(), which goes on all the same.
L2cpConnectedWriteFails ==
  /\ "netError" \in Environment
  /\ state = "Unconnected"
  /\ ~requestPending /\ ~encryptionChangePending
  /\ state' = "Connected" /\ socketOpen' = TRUE
  /\ InvalidateServices
  /\ ResetController
  /\ CloseChannel
  /\ UNCHANGED <<mode, content>>

\* l2cpDisconnected(): it ends every session whose socket was closed.
L2cpDisconnected ==
  /\ InvalidateServices
  /\ ResetController
  /\ CloseChannel
  /\ state' = "Unconnected" /\ socketOpen' = FALSE
  /\ UNCHANGED <<mode, content>>

\* QLowEnergyController::disconnectFromDevice().  Closing an open socket emits
\* disconnected() at once; a socket that is closed already emits nothing.
DisconnectFromDevice ==
  /\ state # "Unconnected"
  /\ \/ socketOpen /\ L2cpDisconnected
     \/ /\ ~socketOpen
        /\ state' = "Closing"
        /\ InvalidateServices
        /\ ResetController
        /\ CloseChannel
        /\ UNCHANGED <<socketOpen, mode, content>>

\* The socket reports that the peer closed: l2cpErrorChanged(), and then
\* l2cpDisconnected() by the disconnected() that follows.
RemoteHostClosed ==
  /\ socketOpen
  /\ L2cpDisconnected

\* A write the kernel refuses: l2cpErrorChanged() resets the controller, but
\* nobody closes the socket.
NetworkError ==
  /\ "netError" \in Environment
  /\ state # "Unconnected"
  /\ socketOpen
  /\ InvalidateServices
  /\ ResetController
  /\ state' = "Unconnected"
  /\ UNCHANGED <<socketOpen, mode, wire, rsp, prepared, content>>

-----------------------------------------------------------------------------
(* Calls of the application *)

\* QLowEnergyController::discoverServices()
DiscoverServices ==
  /\ state = "Connected"
  /\ state' = "Discovering"
  /\ Enqueue(GroupReq("primary"))
  /\ UNCHANGED <<socketOpen, securityHigh, svc, mode, found, calls,
                 rsp, prepared, content>>

\* QLowEnergyService::discoverDetails() and discoverServiceDetails()
DiscoverDetails(s) ==
  /\ svc[s] = "RemoteService"
  /\ svc' = [svc EXCEPT ![s] = "Discovering"]
  /\ \E m \in {"full", "skip"} : mode' = [mode EXCEPT ![s] = m]
  /\ found' = [found EXCEPT ![s] = {}]
  /\ Enqueue(TypeReq(s, "include", 0))
  /\ UNCHANGED <<state, socketOpen, securityHigh, calls, rsp, prepared, content>>

\* What readX() and writeX() of QLowEnergyService ask before they call the
\* controller, and the record of the call.
NewCall(kind, a, size) ==
  /\ Len(calls) < MaxCalls
  /\ svc[ServiceForHandle(a)] = "Discovered"
  /\ a \in found[ServiceForHandle(a)]
  /\ calls' = Append(calls, [kind |-> kind, target |-> a, size |-> size,
                             result |-> "open"])

\* readCharacteristic() and readDescriptor()
ReadAttribute(a) ==
  /\ NewCall("read", a, 1)
  /\ Enqueue(ReadReq(a, FALSE, Len(calls) + 1))
  /\ UNCHANGED <<state, socketOpen, securityHigh, svc, mode, found,
                 rsp, prepared, content>>

OpenWrite(i) == calls[i].kind = "write" /\ calls[i].result = "open"
\* Without "overlap" the application waits for a long write, and for every
\* write before it starts a long one.
MayOverlap(size) ==
  \/ "overlap" \in Environment
  \/ \A i \in DOMAIN calls : OpenWrite(i) => size = 1 /\ calls[i].size = 1

\* writeCharacteristicForCentral() with WriteWithResponse and
\* writeDescriptorForCentral(): a value that does not fit is prepared.
WriteAttribute(a, size) ==
  /\ MayOverlap(size)
  /\ NewCall("write", a, size)
  /\ Enqueue(IF size = 1 THEN Req("WRITE", a, "none", Len(calls) + 1, 0)
                         ELSE PrepareReq(a, Len(calls) + 1, 1))
  /\ UNCHANGED <<state, socketOpen, securityHigh, svc, mode, found,
                 rsp, prepared, content>>

-----------------------------------------------------------------------------
(* The peer: any ATT server *)

\* What the answer to r can list: the services, characteristics and descriptors
\* of the handle range that the earlier answers have not listed.
Unlisted(r) ==
  CASE r.cmd = "READ_BY_GROUP" ->
         {s \in IF r.arg = "secondary" THEN Secondary ELSE Services \ Secondary :
            svc[s] = "unknown"}
    [] r.cmd = "READ_BY_TYPE" /\ r.arg = "characteristic" ->
         CharsOf[r.target] \ found[r.target]
    [] r.cmd = "FIND_INFORMATION" ->
         DescsOf[r.target] \ found[ServiceForHandle(r.target)]
    [] OTHER -> {}

ListCommands == {"READ_BY_GROUP", "READ_BY_TYPE", "FIND_INFORMATION"}
AuthCommands == {"READ", "WRITE", "PREPARE_WRITE"}

\* A listing ends with "attribute not found" or with the last handle of the
\* range, and may say neither although everything is listed.
MayAnswer(r, err, items, more) ==
  \/ /\ err = "none"
     /\ items \subseteq Unlisted(r)
     /\ \/ /\ r.cmd \in ListCommands
           /\ more \/ items = Unlisted(r)
           /\ more => items # {} \/ (r.arg = "include" /\ r.off = 0)
        \/ r.cmd \in {"READ", "READ_BLOB"} /\ (more => r.off < MaxBlobs)
        \/ r.cmd \notin ListCommands \cup {"READ", "READ_BLOB"} /\ ~more
  \/ /\ items = {} /\ ~more
     /\ \/ err = "auth" /\ r.cmd \in AuthCommands /\ "auth" \in Environment
        \/ /\ err = "other"
           /\ r.cmd \in ListCommands => Unlisted(r) = {}
           /\ r.cmd = "READ_BLOB" => "blobError" \in Environment

\* The value a write call leaves in the first payloads of the attribute.
Written(a, op) ==
  [content EXCEPT ![a] =
     [k \in 1..MaxChunks |-> IF k <= calls[op].size THEN op ELSE @[k]]]
Executed ==
  [a \in Handles |-> [k \in 1..MaxChunks |->
     IF prepared[a][k] # 0 THEN prepared[a][k] ELSE content[a][k]]]

PeerStores(r, err) ==
  /\ content' = IF err # "none" THEN content
                ELSE IF r.cmd = "WRITE" THEN Written(r.target, r.op)
                ELSE IF r.cmd = "EXECUTE_WRITE" /\ r.arg = "commit" THEN Executed
                ELSE content
  /\ prepared' =
       IF r.cmd = "EXECUTE_WRITE"
         THEN [a \in Handles |-> [k \in 1..MaxChunks |-> 0]]
       ELSE IF r.cmd = "PREPARE_WRITE" /\ err = "none"
         THEN [prepared EXCEPT ![r.target][r.off] = r.op]
       ELSE prepared

PeerAnswers ==
  /\ wire # <<>>
  /\ LET r == Head(wire) IN
     \E err \in Errors, items \in SUBSET (Services \cup Handles),
        more \in BOOLEAN :
       /\ MayAnswer(r, err, items, more)
       /\ PeerStores(r, err)
       /\ rsp' = Append(rsp, Answer(r, err, items, more))
  /\ wire' = Tail(wire)
  /\ UNCHANGED <<client, calls>>

\* sendPacket() ignores EAGAIN, which discards the packet; a peer that never
\* answers looks the same.
RequestLost ==
  /\ "loss" \in Environment
  /\ wire # <<>>
  /\ wire' = Tail(wire)
  /\ UNCHANGED <<client, calls, rsp, prepared, content>>

-----------------------------------------------------------------------------
(* processReply(): one operator per opcode.  r is the request taken from the *)
(* queue, p the packet, rest the remaining queue.  They leave alone          *)
(* socketOpen, securityHigh, mode and the peer's storage.                    *)

Continue(rest) == SendNextPendingRequest(rest, FALSE, encryptionChangePending)

ExchangeMtuReply(rest) ==
  /\ Continue(rest)
  /\ UNCHANGED <<state, svc, found, calls>>

\* Mutant: the discovery stops after the primary services without saying so.
ReadByGroupReply_StopsAtPrimary(r, p, rest) ==
  /\ svc' = [s \in Services |-> IF s \in p.items THEN "RemoteService" ELSE svc[s]]
  /\ \/ p.more /\ Continue(Append(rest, GroupReq(r.arg))) /\ state' = state
     \/ ~p.more /\ Continue(rest) /\ state' = state
  /\ UNCHANGED <<found, calls>>

\* The primary services are listed first, then the secondary ones.
ReadByGroupReply(r, p, rest) ==
  /\ svc' = [s \in Services |-> IF s \in p.items THEN "RemoteService" ELSE svc[s]]
  /\ \/ p.more /\ Continue(Append(rest, GroupReq(r.arg))) /\ state' = state
     \/ /\ ~p.more /\ r.arg # "secondary"
        /\ Continue(Append(rest, GroupReq("secondary"))) /\ state' = state
     \/ /\ ~p.more /\ r.arg = "secondary"
        /\ Continue(rest) /\ state' = "Discovered"
  /\ UNCHANGED <<found, calls>>

ServiceDiscovered(s) == svc' = [svc EXCEPT ![s] = "Discovered"]

\* discoverServiceDescriptors() for a service whose characteristics are chars.
DiscoverServiceDescriptors(s, chars, rest) ==
  \/ /\ chars = {}
     /\ ServiceDiscovered(s) /\ Continue(rest)
  \/ /\ chars # {}
     /\ \E c \in chars : IsFirst(c, chars) /\ Continue(Append(rest, FindReq(c)))
     /\ svc' = svc

\* Mutant: the flag of the last read is off by one.
ReadRequests_FlagOffByOne(targets) ==
  {[i \in 1..Cardinality(targets) |->
      ReadReq(f[i], i = Cardinality(targets) - 1, 0)] : f \in HashOrders(targets)}

ReadRequests(targets) ==
  {[i \in 1..Cardinality(targets) |-> ReadReq(f[i], i = Cardinality(targets), 0)] :
     f \in HashOrders(targets)}

\* readServiceValues() for a service that knows the attributes known.
ReadServiceValues(s, readCharacteristics, known, rest) ==
  LET targets == IF mode[s] = "skip" THEN {}
                 ELSE IF readCharacteristics THEN known \cap Readable
                 ELSE known \ Chars
  IN \/ /\ targets # {}
        /\ \E reads \in ReadRequests(targets) : Continue(rest \o reads)
        /\ svc' = svc
     \/ /\ targets = {} /\ readCharacteristics
        /\ DiscoverServiceDescriptors(s, known \cap Chars, rest)
     \/ /\ targets = {} /\ ~readCharacteristics
        /\ ServiceDiscovered(s) /\ Continue(rest)

\* Included services are listed first, then the characteristics.
ReadByTypeReply(r, p, rest) ==
  LET s == r.target
      known == found[s] \cup p.items
  IN /\ found' = [found EXCEPT ![s] = known]
     /\ \/ /\ p.more
           /\ Continue(Append(rest, TypeReq(s, r.arg, r.off + 1))) /\ svc' = svc
        \/ /\ ~p.more /\ r.arg = "include"
           /\ Continue(Append(rest, TypeReq(s, "characteristic", 0)))
           /\ svc' = svc
        \/ /\ ~p.more /\ r.arg # "include"
           /\ p.err = "none" \/ known # {}
           /\ ReadServiceValues(s, TRUE, known, rest)
        \/ /\ ~p.more /\ r.arg # "include"
           /\ p.err # "none" /\ known = {}
           /\ ServiceDiscovered(s) /\ Continue(rest)
     /\ UNCHANGED <<state, calls>>

\* increaseEncryptLevelfRequired() succeeds: the request goes back in front and
\* nothing is sent until the encryption change is reported.
RaiseSecurity(r, p, rest) ==
  /\ p.err = "auth" /\ ~securityHigh
  /\ SendNextPendingRequest(<<r>> \o rest, FALSE, TRUE)
  /\ UNCHANGED <<state, svc, found, calls>>

\* What the last read of a discovery run is followed by: the descriptors after
\* the characteristics, the end of the discovery after the descriptors.
AfterLastRead(r, rest) ==
  LET s == ServiceForHandle(r.target) IN
  IF r.target \in Chars
    THEN DiscoverServiceDescriptors(s, found[s] \cap Chars, rest)
    ELSE ServiceDiscovered(s) /\ Continue(rest)

ReadReply(r, p, rest) ==
  LET discoveryRun == svc[ServiceForHandle(r.target)] # "Discovered" IN
  \/ RaiseSecurity(r, p, rest)
  \/ /\ p.err = "none" /\ p.more
     /\ Continue(<<BlobReq(r)>> \o rest)
     /\ UNCHANGED <<state, svc, found, calls>>
  \/ /\ ~p.more
     /\ IF discoveryRun /\ r.arg = "last"
          THEN AfterLastRead(r, rest)
          ELSE Continue(rest) /\ svc' = svc
     /\ calls' = IF discoveryRun THEN calls
                 ELSE Settle(r.op, IF p.err = "none" THEN "ok" ELSE "error")
     /\ UNCHANGED <<state, found>>

\* A refused Read Blob is logged; only a discovery run goes on from it.
ReadBlobReply(r, p, rest) ==
  LET discoveryRun == svc[ServiceForHandle(r.target)] # "Discovered" IN
  \/ /\ p.err = "none" /\ p.more
     /\ Continue(<<BlobReq(r)>> \o rest)
     /\ UNCHANGED <<state, svc, found, calls>>
  \/ /\ p.err = "none" /\ ~p.more /\ ~discoveryRun
     /\ calls' = Settle(r.op, "ok")
     /\ Continue(rest)
     /\ UNCHANGED <<state, svc, found>>
  \/ /\ ~p.more /\ (p.err # "none" \/ discoveryRun)
     /\ IF r.arg = "last" THEN AfterLastRead(r, rest)
                          ELSE Continue(rest) /\ svc' = svc
     /\ UNCHANGED <<state, found, calls>>

\* The request names the characteristic that is searched; the ones behind it
\* follow in the order of their handles.
FindInformationReply(r, p, rest) ==
  LET s == ServiceForHandle(r.target)
      known == found[s] \cup p.items
      later == {c \in found[s] \cap Chars : c > r.target}
  IN /\ found' = [found EXCEPT ![s] = known]
     /\ \/ /\ p.more
           /\ Continue(Append(rest, FindReq(r.target))) /\ svc' = svc
        \/ /\ ~p.more /\ later # {}
           /\ \E c \in later :
                IsFirst(c, later) /\ Continue(Append(rest, FindReq(c)))
           /\ svc' = svc
        \/ /\ ~p.more /\ later = {}
           /\ ReadServiceValues(s, FALSE, known, rest)
     /\ UNCHANGED <<state, calls>>

\* Mutant: after an error answer the next request is not sent.
WriteReply_ErrorEndsQueue(r, p, rest) ==
  \/ RaiseSecurity(r, p, rest)
  \/ /\ calls' = Settle(r.op, IF p.err = "none" THEN "ok" ELSE "error")
     /\ IF p.err = "none"
          THEN Continue(rest)
          ELSE /\ openRequests' = rest /\ requestPending' = FALSE
               /\ UNCHANGED <<encryptionChangePending, wire>>
     /\ UNCHANGED <<state, svc, found>>

WriteReply(r, p, rest) ==
  \/ RaiseSecurity(r, p, rest)
  \/ /\ calls' = Settle(r.op, IF p.err = "none" THEN "ok" ELSE "error")
     /\ Continue(rest)
     /\ UNCHANGED <<state, svc, found>>

\* Mutant: a refused payload does not cancel the write.
PrepareWriteReply_NotCancelled(r, p, rest) ==
  \/ RaiseSecurity(r, p, rest)
  \/ /\ IF r.off < calls[r.op].size
          THEN Continue(Append(rest, PrepareReq(r.target, r.op, r.off + 1)))
          ELSE Continue(<<ExecuteReq(r.target, r.op, "commit")>> \o rest)
     /\ UNCHANGED <<state, svc, found, calls>>

\* The next payload is enqueued behind the other requests, the execute request
\* in front of them.
PrepareWriteReply(r, p, rest) ==
  \/ RaiseSecurity(r, p, rest)
  \/ /\ IF p.err # "none"
          THEN Continue(<<ExecuteReq(r.target, r.op, "cancel")>> \o rest)
        ELSE IF r.off < calls[r.op].size
          THEN Continue(Append(rest, PrepareReq(r.target, r.op, r.off + 1)))
          ELSE Continue(<<ExecuteReq(r.target, r.op, "commit")>> \o rest)
     /\ UNCHANGED <<state, svc, found, calls>>

\* Mutant: a cancelled write is not reported.
ExecuteWriteReply_CancelSilent(r, p, rest) ==
  /\ calls' = IF r.arg = "commit"
                THEN Settle(r.op, IF p.err = "none" THEN "ok" ELSE "error")
                ELSE calls
  /\ Continue(rest)
  /\ UNCHANGED <<state, svc, found>>

ExecuteWriteReply(r, p, rest) ==
  /\ calls' = Settle(r.op, IF p.err = "none" /\ r.arg = "commit" THEN "ok"
                                                                ELSE "error")
  /\ Continue(rest)
  /\ UNCHANGED <<state, svc, found>>

\* The opcode of the packet, not the request, selects the branch.
ProcessReply(r, p, rest) ==
  \/ p.cmd = "EXCHANGE_MTU" /\ ExchangeMtuReply(rest)
  \/ p.cmd = "READ_BY_GROUP" /\ ReadByGroupReply(r, p, rest)
  \/ p.cmd = "READ_BY_TYPE" /\ ReadByTypeReply(r, p, rest)
  \/ p.cmd = "READ" /\ ReadReply(r, p, rest)
  \/ p.cmd = "READ_BLOB" /\ ReadBlobReply(r, p, rest)
  \/ p.cmd = "FIND_INFORMATION" /\ FindInformationReply(r, p, rest)
  \/ p.cmd = "WRITE" /\ WriteReply(r, p, rest)
  \/ p.cmd = "PREPARE_WRITE" /\ PrepareWriteReply(r, p, rest)
  \/ p.cmd = "EXECUTE_WRITE" /\ ExecuteWriteReply(r, p, rest)

-----------------------------------------------------------------------------
(* Events *)

\* l2cpReadyRead() with an answer and a request to match it.
ReplyReceived ==
  /\ socketOpen
  /\ rsp # <<>>
  /\ openRequests # <<>>
  /\ ProcessReply(Head(openRequests), Head(rsp), Tail(openRequests))
  /\ rsp' = Tail(rsp)
  /\ UNCHANGED <<socketOpen, securityHigh, mode, prepared, content>>

\* An answer nobody waits for: the controller disconnects.
UnexpectedReply ==
  /\ socketOpen
  /\ rsp # <<>>
  /\ openRequests = <<>>
  /\ L2cpDisconnected

\* The application disconnects from a slot of the serviceDiscovered() signal
\* that the loop over the listed services emits: the rest of the loop and of
\* processReply() then runs on a controller that was reset.
DisconnectInSlot ==
  /\ "slot" \in Environment
  /\ socketOpen
  /\ rsp # <<>> /\ openRequests # <<>>
  /\ LET r == Head(openRequests)
         p == Head(rsp)
     IN /\ p.cmd = "READ_BY_GROUP" /\ p.items # {}
        /\ \E later \in SUBSET p.items :
             /\ later # p.items
             /\ svc' = [s \in Services |->
                          IF s \in later THEN "RemoteService" ELSE "unknown"]
        /\ IF ~p.more /\ r.arg = "secondary"
             THEN /\ state' = "Discovered"
                  /\ openRequests' = <<>> /\ requestPending' = FALSE
             ELSE /\ state' = "Unconnected"
                  /\ openRequests' =
                       <<GroupReq(IF p.more THEN r.arg ELSE "secondary")>>
                  /\ requestPending' = TRUE
  /\ socketOpen' = FALSE
  /\ encryptionChangePending' = FALSE /\ securityHigh' = FALSE
  /\ found' = [s \in Services |-> {}]
  /\ calls' = DropOpenCalls
  /\ CloseChannel
  /\ UNCHANGED <<mode, content>>

\* Mutant: the slot waits for a request that is not pending.
RequestTimeout_WrongGuard ==
  /\ MonitorsWired /\ socketOpen
  /\ ~encryptionChangePending
  /\ openRequests # <<>> /\ ~requestPending
  /\ (wire = <<>> /\ rsp = <<>>) \/ "lateAnswer" \in Environment
  /\ LET r == Head(openRequests) IN
       ProcessReply(r, Answer(r, "other", {}, FALSE), Tail(openRequests))
  /\ UNCHANGED <<socketOpen, securityHigh, mode, rsp, prepared, content>>

\* handleGattRequestTimeout(): as if the peer had answered "request stalled".
\* It knows nothing of the channel: with "lateAnswer" the answer is still to come
\* and finds another head in the queue.  With the socket closed a request is left
\* only behind DisconnectInSlot; the timeout of that one is left out.
RequestTimeout ==
  /\ MonitorsWired
  /\ socketOpen
  /\ ~encryptionChangePending
  /\ openRequests # <<>> /\ requestPending
  /\ (wire = <<>> /\ rsp = <<>>) \/ "lateAnswer" \in Environment
  /\ LET r == Head(openRequests) IN
       ProcessReply(r, Answer(r, "other", {}, FALSE), Tail(openRequests))
  /\ UNCHANGED <<socketOpen, securityHigh, mode, rsp, prepared, content>>

\* encryptionChangedEvent(): only a failed write is reported at once, a failed
\* prepare is cancelled at the peer, a failed read is forgotten.  The level is
\* read from the socket again, whatever the event says.
EncryptionChanged(wasSuccess) ==
  /\ MonitorsWired
  /\ socketOpen
  /\ encryptionChangePending
  /\ wasSuccess \/ "authFails" \in Environment
  /\ securityHigh' \in IF wasSuccess THEN {TRUE} ELSE BOOLEAN
  /\ LET r == Head(openRequests)
         rest == Tail(openRequests)
     IN IF wasSuccess
          THEN /\ SendNextPendingRequest(openRequests, requestPending, FALSE)
               /\ calls' = calls
          ELSE /\ SendNextPendingRequest(
                    IF r.cmd = "PREPARE_WRITE"
                      THEN <<ExecuteReq(r.target, r.op, "cancel")>> \o rest
                      ELSE rest,
                    requestPending, FALSE)
               /\ calls' = IF r.cmd = "WRITE" THEN Settle(r.op, "error") ELSE calls
  /\ UNCHANGED <<state, socketOpen, svc, mode, found, rsp, prepared, content>>

-----------------------------------------------------------------------------
Next ==
  \/ L2cpConnected \/ L2cpConnectedWriteFails
  \/ DisconnectFromDevice \/ RemoteHostClosed \/ NetworkError
  \/ DiscoverServices
  \/ \E s \in Services : DiscoverDetails(s)
  \/ \E a \in Handles : ReadAttribute(a)
  \/ \E a \in Handles, size \in 1..MaxChunks : WriteAttribute(a, size)
  \/ PeerAnswers \/ RequestLost
  \/ ReplyReceived \/ UnexpectedReply \/ DisconnectInSlot
  \/ RequestTimeout
  \/ \E wasSuccess \in BOOLEAN : EncryptionChanged(wasSuccess)

Spec == Init /\ [][Next]_vars

\* The peer answers what reaches it, and the event loop delivers answers, timer
\* and kernel events.  Nothing obliges the application to call anything.
Fairness ==
  /\ WF_vars(PeerAnswers)
  /\ WF_vars(ReplyReceived) /\ WF_vars(UnexpectedReply)
  /\ WF_vars(RequestTimeout)
  /\ WF_vars(\E wasSuccess \in BOOLEAN : EncryptionChanged(wasSuccess))

FairSpec == Spec /\ Fairness

-----------------------------------------------------------------------------
(* Properties *)

TypeOK ==
  /\ state \in {"Unconnected", "Connected", "Discovering", "Discovered", "Closing"}
  /\ socketOpen \in BOOLEAN
  /\ openRequests \in Seq(Requests)
  /\ requestPending \in BOOLEAN /\ encryptionChangePending \in BOOLEAN
  /\ securityHigh \in BOOLEAN
  /\ svc \in [Services -> {"unknown", "RemoteService", "Discovering", "Discovered"}]
  /\ mode \in [Services -> {"full", "skip"}]
  /\ found \in [Services -> SUBSET Handles]
  /\ calls \in Seq(Calls)
  /\ wire \in Seq(Requests) /\ rsp \in Seq(Answers)
  /\ prepared \in [Handles -> [1..MaxChunks -> 0..MaxCalls]]
  /\ content \in [Handles -> [1..MaxChunks -> 0..MaxCalls]]

\* A queue with requests in it is never idle: every path that enqueues, prepends
\* or finishes a request ends in a sendNextPendingRequest() that can send.
QueueNeverIdle ==
  openRequests # <<>> => requestPending \/ encryptionChangePending

\* l2cpReadyRead() takes the head of the queue for the request an answer belongs
\* to.  It does belong to it: one request is in flight, and it is the head.
ReplyMatchesHead ==
  /\ Len(wire) + Len(rsp) <= 1
  /\ openRequests # <<>> =>
       /\ wire # <<>> => requestPending /\ Head(wire) = Head(openRequests)
       /\ rsp # <<>> => requestPending /\ Head(rsp).req = Head(openRequests)

\* While an encryption change is pending nothing is on the channel, and the head
\* of the queue is a request that asked for it, the one that
\* encryptionChangedEvent() sends again or gives up.
EncryptionHoldsQueue ==
  encryptionChangePending =>
    /\ ~requestPending /\ wire = <<>> /\ rsp = <<>>
    /\ ~securityHigh
    /\ openRequests # <<>> /\ Head(openRequests).cmd \in AuthCommands

\* Packets are in flight only on an open channel, for a controller that waits
\* for them; the one exception is a controller that a failed write has reset,
\* which knows no service and so cannot be made to send anything.
NothingKnown == \A s \in Services : svc[s] = "unknown"
SessionShape ==
  /\ requestPending => openRequests # <<>>
  /\ encryptionChangePending => state # "Unconnected"
  /\ socketOpen /\ state = "Unconnected" => openRequests = <<>> /\ NothingKnown
  /\ wire # <<>> \/ rsp # <<>> =>
       socketOpen /\ (openRequests = <<>> <=> state = "Unconnected")

Queued(P(_)) == {k \in DOMAIN openRequests : P(openRequests[k])}

\* Service discovery runs on one Read By Group request at a time, and there is
\* one exactly as long as the controller is in DiscoveringState: the chain of
\* requests neither breaks off nor forks.
ServiceDiscoveryCarried ==
  LET Group(r) == r.cmd = "READ_BY_GROUP" IN
  Cardinality(Queued(Group)) = IF state = "Discovering" THEN 1 ELSE 0

DiscoveryRequest(r, s) ==
  \/ r.cmd = "READ_BY_TYPE" /\ r.target = s
  \/ r.cmd = "FIND_INFORMATION" /\ ServiceForHandle(r.target) = s
  \/ r.cmd \in {"READ", "READ_BLOB"} /\ r.op = 0 /\ ServiceForHandle(r.target) = s
Carries(r, s) ==
  DiscoveryRequest(r, s) /\ (r.cmd \in {"READ", "READ_BLOB"} => r.arg = "last")

\* The detail discovery of a service hangs on the one request whose answer takes
\* it further, the flagged read among its value reads; when the service is
\* discovered no request of its discovery is left behind.
DetailDiscoveryCarried ==
  \A s \in Services :
    LET Carrier(r) == Carries(r, s)
        Any(r) == DiscoveryRequest(r, s)
    IN IF svc[s] = "Discovering" THEN Cardinality(Queued(Carrier)) = 1
                                 ELSE Queued(Any) = {}

\* Both discoveries are chains of requests that neither break off nor fork.
DiscoveryCarried == ServiceDiscoveryCarried /\ DetailDiscoveryCarried

\* Each read or write the application waits for has exactly one request in the
\* queue: none is forgotten (its signal would never come), none is doubled.
OpenCallQueued ==
  \A i \in DOMAIN calls :
    LET Serves(r) == r.op = i IN
    Cardinality(Queued(Serves)) = IF calls[i].result = "open" THEN 1 ELSE 0

\* The queue, the chunks and the packets implement whole, atomic reads and
\* writes: the calls and the peer's attributes behave as AttributeAccess says.
Access == INSTANCE AttributeAccess
            WITH Handles <- Handles, MaxCalls <- MaxCalls, MaxChunks <- MaxChunks,
                 calls <- calls, content <- content
AtomicAccess == Access!Spec

\* "if the same descriptor is set to the value A and immediately afterwards to
\* B, the two write request are executed in the given order".
WritesExecutedInOrder ==
  \A i, j \in DOMAIN calls :
    i < j /\ OpenWrite(i) /\ calls[j].kind = "write"
      /\ calls[i].target = calls[j].target => calls[j].result # "ok"

\* A controller without a channel keeps nothing of the old session: no request
\* waits for an answer that cannot come.
NoRequestSurvives ==
  ~socketOpen => openRequests = <<>> /\ ~requestPending

\* Every read and write call is answered, or the session ends.
CallsAnswered ==
  \A i \in 1..MaxCalls :
    []<>~(i \in DOMAIN calls /\ calls[i].result = "open")

\* discoverServices() ends with discoveryFinished() or with the session.
ServiceDiscoveryFinishes == []<>(state # "Discovering")

\* discoverDetails() takes the service to RemoteServiceDiscovered, or the
\* session ends.
DetailDiscoveryFinishes ==
  \A s \in Services : []<>(svc[s] # "Discovering")

\* Both discoveries end, whatever errors the peer answers with.
DiscoveriesFinish == ServiceDiscoveryFinishes /\ DetailDiscoveryFinishes

\* "any such request delays the pending ATT commands until this callback is
\* called": the queue does not stay blocked on an encryption change.
EncryptionChangeEnds == []<>~encryptionChangePending

\* "This packet is effectively discarded but the controller can still recover":
\* a request without an answer does not block the queue for good.
LostRequestRecovered ==
  []<>~(requestPending /\ wire = <<>> /\ rsp = <<>>)

\* Encryption changes and lost requests delay the queue, no more: every call of the
\* application is answered behind them, and every answer still meets its request.
QueueRecovers ==
  /\ EncryptionChangeEnds /\ LostRequestRecovered /\ CallsAnswered
  /\ []ReplyMatchesHead

=============================================================================
