------------------------------ MODULE AttServer ------------------------------
(***************************************************************************)
(* The peripheral role of QLowEnergyControllerPrivateBluez                 *)
(* (src/src/bluetooth/qlowenergycontroller_bluez.cpp): the local service   *)
(* database and its two copies, the writes of a GATT client, its prepare   *)
(* queue, notifications and indications, the client configurations that    *)
(* are kept for bonded clients, advertising, and how a session ends.       *)
(*                                                                         *)
(* A handler is one step, with one exception: where the code emits a       *)
(* signal and goes on to change its state after the slots have run, the    *)
(* rest of the handler is a step of its own, and "unwind" says what is     *)
(* left to do.  Only calls of the application can come in between.         *)
(*                                                                         *)
(* A value is a sequence of bytes, a byte one of a few numbers.  The MTU,  *)
(* the security level and the requests that only read are left out.        *)
(***************************************************************************)
EXTENDS Integers, Sequences, FiniteSets

CONSTANTS
  Chars,          \* the value handles of the characteristics
  Config,         \* the client characteristic configuration of each of them
  Notifying,      \* the characteristics with the Notify property
  Indicating,     \* those with the Indicate property
  MinLength,      \* minimumValueLength() of the characteristics
  MaxLength,      \* maximumValueLength() of the characteristics
  Initial,        \* the value each characteristic is added with
  AppValues,      \* values the application writes
  ClientValues,   \* values, and parts of values, the client writes
  ClientConfigs,  \* configurations, and parts of them, the client writes
  Clients, Bonded,
  AdvData,        \* parameters and data of startAdvertising()
  MaxWrites,      \* bound: writes of the application
  MaxPrepare,     \* maxPrepareQueueSize
  Environment     \* what clients, kernel and application may do, see below

CONSTANT NoClient, NoData

Configs == {Config[c] : c \in Chars}
Attributes == Chars \cup Configs
Bytes == 0..3
Values == Seq(Bytes)

(***************************************************************************)
(* "localClose"   the application calls disconnectFromDevice()             *)
(* "remoteClose"  the client closes the connection                         *)
(* "protocolError" the client sends a packet no handler knows              *)
(* "netError"     writing to the socket fails                              *)
(* "slot"         the application reacts to UnconnectedState in a slot     *)
(* "listenFails"  the listening socket cannot be created                   *)
(* "prepare"      the client prepares writes                               *)
(* "stop"         the application calls stopAdvertising()                  *)
(***************************************************************************)
Hazards ==
  {"localClose", "remoteClose", "protocolError", "netError", "slot",
   "listenFails", "prepare", "stop"}

ASSUME ConstantsAssumption ==
  /\ Chars \subseteq Nat /\ IsFiniteSet(Chars)
  /\ Config \in [Chars -> Nat]
  /\ Chars \cap Configs = {}
  /\ \A c, d \in Chars : Config[c] = Config[d] => c = d
  /\ Notifying \subseteq Chars /\ Indicating \subseteq Chars
  /\ MinLength \in Nat /\ MaxLength \in Nat
  /\ Initial \in [Chars -> Values]
  /\ AppValues \subseteq Values
  /\ ClientValues \subseteq Values /\ ClientConfigs \subseteq Values \ {<<>>}
  /\ Bonded \subseteq Clients
  /\ NoClient \notin Clients /\ NoData \notin AdvData
  /\ MaxWrites \in Nat /\ MaxPrepare \in Nat
  /\ Environment \subseteq Hazards

VARIABLES
  state,             \* QLowEnergyController::ControllerState
  socket,            \* l2cpSocket: none, open, dead (the link is gone), closed
  listening,         \* serverSocketNotifier exists
  advertiser,        \* what the advertiser object was created with
  unwind,            \* what the running handler does after the slots return
  localServices,     \* the values in the service objects; empty: no services
  localAttributes,   \* the values in localAttributes; empty: cleared
  openPrepareWriteRequests,
  scheduledIndications,
  indicationInFlight,
  clientConfigData,
  remoteDevice,
  toClient,          \* notifications and indications not yet received
  owed,              \* the client has an indication to confirm
  asked,             \* the configuration each client last wrote
  due,               \* the characteristics each client has yet to be told of
  known,             \* the values the application was told of
  wanted,            \* what the application last asked to advertise
  writes             \* how often the application has written

session == <<openPrepareWriteRequests, scheduledIndications, indicationInFlight>>
channel == <<toClient, owed>>
database == <<localServices, localAttributes>>
observer == <<asked, due, known, wanted, writes>>
vars == <<state, socket, listening, advertiser, unwind, database, session,
          clientConfigData, remoteDevice, channel, observer>>

-----------------------------------------------------------------------------
(* Values *)

None == <<>>
DefaultConfig == <<0, 0>>
Notifies(byte) == byte \in {1, 3}
Indicates(byte) == byte \in {2, 3}

MaximumLength(a) == IF a \in Configs THEN 2 ELSE MaxLength
MinimumLength(a) == IF a \in Configs THEN 2 ELSE MinLength

\* A short value overwrites the start of an attribute of fixed length.
Written(a, old, value) ==
  IF MinimumLength(a) = MaximumLength(a) /\ Len(value) < MinimumLength(a)
    THEN value \o SubSeq(old, Len(value) + 1, Len(old))
    ELSE value

\* Whether a characteristic whose configuration is "byte" tells its client.
Subscribed(ch, byte) ==
  \/ Notifies(byte) /\ ch \in Notifying
  \/ Indicates(byte) /\ ch \in Indicating

WriteRequests ==
  [handle : Attributes, valueOffset : Nat, value : Values,
   client : Clients \cup {NoClient}]
Packets == [kind : {"notification", "indication"}, char : Chars, value : Values]
Packet(kind, ch, value) == [kind |-> kind, char |-> ch, value |-> value]

NoConfiguration == [configValue |-> 0, charValueWasUpdated |-> FALSE]
Configuration(byte) == [configValue |-> byte, charValueWasUpdated |-> FALSE]

\* The orders in which a QHash with the keys S may be iterated.
HashOrders(S) ==
  {f \in [1..Cardinality(S) -> S] :
     \A i, j \in 1..Cardinality(S) : f[i] = f[j] => i = j}

-----------------------------------------------------------------------------
(* What the handlers share *)

\* Mutant: the prepared writes are not cleared.
ResetSession_PreparedKept ==
  /\ UNCHANGED openPrepareWriteRequests
  /\ scheduledIndications' = <<>>
  /\ indicationInFlight' = FALSE

\* invalidateServices() and resetController(): the second also deletes the
\* advertiser and clears localAttributes.
InvalidateServices == localServices' = None
ResetSession ==
  /\ openPrepareWriteRequests' = <<>>
  /\ scheduledIndications' = <<>>
  /\ indicationInFlight' = FALSE
ResetController ==
  /\ ResetSession
  /\ advertiser' = NoData
  /\ localAttributes' = None

CloseChannel == toClient' = <<>> /\ owed' = FALSE

\* A client that finds no services has no configuration to come back to.
Forget(client) ==
  /\ asked' = [asked EXCEPT ![client] = [ch \in Chars |-> 0]]
  /\ due' = [due EXCEPT ![client] = {}]

\* The session of remoteDevice is over: what it was still to be told is lost, and
\* a client without a bond is forgotten.
EndSession ==
  /\ asked' = [c \in Clients |->
                 IF c = remoteDevice /\ c \notin Bonded
                   THEN [ch \in Chars |-> 0] ELSE asked[c]]
  /\ due' = [c \in Clients |-> IF c = remoteDevice THEN {} ELSE due[c]]
  /\ UNCHANGED <<known, wanted, writes>>

\* Mutant: a configuration of 0 does not replace the one stored before.
StoreClientConfigurations_ZeroSkipped(services) ==
  clientConfigData' =
    IF remoteDevice \notin Bonded THEN clientConfigData
    ELSE [clientConfigData EXCEPT ![remoteDevice] =
            [ch \in Chars |->
               IF services # None /\ services[Config[ch]][1] # 0
                 THEN Configuration(services[Config[ch]][1])
                 ELSE clientConfigData[remoteDevice][ch]]]

\* storeClientConfigurations(), from the values in the service objects.
StoreClientConfigurations(services) ==
  clientConfigData' =
    IF remoteDevice = NoClient THEN clientConfigData
    ELSE [clientConfigData EXCEPT ![remoteDevice] =
            [ch \in Chars |->
               IF remoteDevice \in Bonded /\ services # None
                 THEN Configuration(services[Config[ch]][1])
                 ELSE NoConfiguration]]

\* l2cpDisconnected(), for a handler that found these services.
L2cpDisconnected(services) ==
  /\ StoreClientConfigurations(services)
  /\ remoteDevice' = NoClient
  /\ InvalidateServices
  /\ ResetController
  /\ state' = "Unconnected"
  /\ CloseChannel
  /\ EndSession

\* The application can call the controller: from its event loop, or from a slot.
ApplicationRuns == unwind = "none" \/ "slot" \in Environment

-----------------------------------------------------------------------------
(* Services and advertising *)

Init ==
  /\ state = "Unconnected" /\ socket = "none" /\ listening = FALSE
  /\ advertiser = NoData /\ unwind = "none"
  /\ localServices = None /\ localAttributes = None
  /\ openPrepareWriteRequests = <<>> /\ scheduledIndications = <<>>
  /\ indicationInFlight = FALSE
  /\ clientConfigData = [c \in Clients |-> [ch \in Chars |-> NoConfiguration]]
  /\ remoteDevice = NoClient
  /\ toClient = <<>> /\ owed = FALSE
  /\ asked = [c \in Clients |-> [ch \in Chars |-> 0]]
  /\ due = [c \in Clients |-> {}]
  /\ known = None /\ wanted = NoData /\ writes = 0

\* addService(), for the one service that holds all characteristics.
AddService ==
  /\ ApplicationRuns
  /\ state = "Unconnected" /\ localServices = None
  /\ localServices' = [a \in Attributes |->
                         IF a \in Chars THEN Initial[a] ELSE DefaultConfig]
  /\ localAttributes' = localServices'
  /\ known' = localServices'
  /\ UNCHANGED <<state, socket, listening, advertiser, unwind, session,
                 clientConfigData, remoteDevice, channel, asked, due, wanted,
                 writes>>

\* startAdvertising(): an advertiser that exists is used again.
StartAdvertising(data, connectable) ==
  /\ ApplicationRuns
  /\ state = "Unconnected"
  /\ advertiser' = IF advertiser = NoData THEN data ELSE advertiser
  /\ wanted' = data
  /\ \/ state' = "Advertising" /\ listening' = (connectable \/ listening)
     \/ /\ connectable /\ "listenFails" \in Environment
        /\ UNCHANGED <<state, listening>>
  /\ UNCHANGED <<socket, unwind, database, session, clientConfigData,
                 remoteDevice, channel, asked, due, known, writes>>

\* stopAdvertising(): the listening socket stays.
StopAdvertising ==
  /\ "stop" \in Environment
  /\ unwind = "none"
  /\ state = "Advertising"
  /\ state' = "Unconnected"
  /\ UNCHANGED <<socket, listening, advertiser, unwind, database, session,
                 clientConfigData, remoteDevice, channel, observer>>

\* restoreClientConfigurations(): what is stored for the client, or the default.
Stored(client, ch) ==
  IF client \in Bonded THEN clientConfigData[client][ch] ELSE NoConfiguration
Restored(client, values) ==
  [a \in DOMAIN values |->
     IF a \in Configs
       THEN <<Stored(client, CHOOSE ch \in Chars : Config[ch] = a).configValue, 0>>
       ELSE values[a]]

RestoreClientConfigurations(client) ==
  /\ localServices' = Restored(client, localServices)
  /\ localAttributes' = Restored(client, localAttributes)

\* Its end: the client is told at once what it has missed.
SendMissedUpdates(client) ==
  LET missed == {ch \in Chars \cap DOMAIN localServices :
                   Stored(client, ch).charValueWasUpdated}
      notify == {ch \in missed : Notifies(Stored(client, ch).configValue)}
  IN \E n \in HashOrders(notify), i \in HashOrders(missed \ notify) :
       LET waiting == scheduledIndications \o i
           told == [k \in DOMAIN n |->
                      Packet("notification", n[k], localAttributes[n[k]])]
       IN IF waiting = <<>>
            THEN toClient' = told /\ UNCHANGED <<scheduledIndications, indicationInFlight>>
            ELSE /\ toClient' = Append(told, Packet("indication", Head(waiting),
                                                    localAttributes[Head(waiting)]))
                 /\ scheduledIndications' = Tail(waiting)
                 /\ indicationInFlight' = TRUE

\* handleConnectionRequest(); in any other state it does nothing, and nothing
\* when accept() fails.  What restoring the configurations sends is written to a
\* socket accepted a moment ago: a failure of those writes is left out.
ConnectionRequest(client) ==
  /\ unwind = "none"
  /\ listening /\ state = "Advertising"
  /\ DOMAIN localServices \subseteq DOMAIN localAttributes
  /\ RestoreClientConfigurations(client)
  /\ SendMissedUpdates(client)
  /\ IF localServices = None
       THEN Forget(client) /\ UNCHANGED <<known, wanted, writes>>
       ELSE known' = localServices' /\ UNCHANGED <<asked, due, wanted, writes>>
  /\ remoteDevice' = client
  /\ owed' = FALSE
  /\ socket' = "open" /\ listening' = FALSE /\ state' = "Connected"
  /\ UNCHANGED <<advertiser, unwind, openPrepareWriteRequests, clientConfigData>>

-----------------------------------------------------------------------------
(* The end of a session *)

\* QLowEnergyController::disconnectFromDevice(): services first, then the socket,
\* whose disconnected() runs l2cpDisconnected(), and a reset when all slots have
\* run.  A socket that is closed already says nothing.
DisconnectFromDevice ==
  /\ "localClose" \in Environment
  /\ unwind = "none"
  /\ state # "Unconnected"
  /\ \/ /\ socket \in {"open", "dead"}
        /\ L2cpDisconnected(None)
        /\ socket' = "closed" /\ unwind' = "reset"
     \/ /\ socket = "none"
        /\ L2cpDisconnected(None)
        /\ UNCHANGED <<socket, unwind>>
     \/ /\ socket = "closed"
        /\ InvalidateServices /\ ResetController
        /\ state' = "Closing"
        /\ UNCHANGED <<socket, unwind, clientConfigData, remoteDevice, channel,
                       observer>>
  /\ UNCHANGED listening

\* A packet that is neither a request nor awaited: the controller disconnects by
\* itself, which leaves the services in place until l2cpDisconnected().
UnexpectedPacket ==
  /\ "protocolError" \in Environment
  /\ unwind = "none"
  /\ socket = "open"
  /\ L2cpDisconnected(localServices)
  /\ socket' = "closed" /\ unwind' = "reset"
  /\ UNCHANGED listening

\* l2cpErrorChanged(): no service and no session is left, and setState() forgets
\* the client.
L2cpErrorChanged ==
  /\ InvalidateServices /\ ResetController
  /\ state' = "Unconnected" /\ remoteDevice' = NoClient
  /\ CloseChannel
  /\ EndSession
  /\ UNCHANGED <<listening, clientConfigData>>

\* A write fails, or the socket finds the connection closed; it then closes
\* itself, and l2cpDisconnected() follows when the slots have run.
NetworkError ==
  /\ "netError" \in Environment
  /\ unwind = "none"
  /\ socket = "open"
  /\ L2cpErrorChanged
  /\ socket' = "dead" /\ UNCHANGED unwind
RemoteHostClosed ==
  /\ unwind = "none"
  /\ \/ socket = "open" /\ "remoteClose" \in Environment
     \/ socket = "dead"
  /\ L2cpErrorChanged
  /\ socket' = "closed" /\ unwind' = "disconnected"

\* The rest of the handler that emitted the signal.
Unwind ==
  \/ /\ unwind = "disconnected"
     /\ L2cpDisconnected(localServices)
     /\ unwind' = "none"
     /\ UNCHANGED <<socket, listening>>
  \/ /\ unwind = "reset"
     /\ ResetController
     /\ unwind' = "none"
     /\ UNCHANGED <<state, socket, listening, localServices, clientConfigData,
                    remoteDevice, channel, observer>>

-----------------------------------------------------------------------------
(* Writes of the application *)

\* An indication waits while another is not confirmed.
\* Mutant: what waits is the handle of the configuration.
SendOrScheduleIndication_WrongHandle(ch, value) ==
  IF indicationInFlight
    THEN /\ scheduledIndications' = Append(scheduledIndications, Config[ch])
         /\ UNCHANGED <<indicationInFlight, toClient>>
    ELSE /\ toClient' = Append(toClient, Packet("indication", ch, value))
         /\ indicationInFlight' = TRUE
         /\ UNCHANGED scheduledIndications
SendOrScheduleIndication(ch, value) ==
  IF indicationInFlight
    THEN /\ scheduledIndications' = Append(scheduledIndications, ch)
         /\ UNCHANGED <<indicationInFlight, toClient>>
    ELSE /\ toClient' = Append(toClient, Packet("indication", ch, value))
         /\ indicationInFlight' = TRUE
         /\ UNCHANGED scheduledIndications

\* The clients that are not connected and have to be told when they are.
MarkMissed(ch) ==
  clientConfigData' =
    [c \in Clients |->
       IF /\ ~(state = "Connected" /\ c = remoteDevice)
          /\ Subscribed(ch, clientConfigData[c][ch].configValue)
         THEN [clientConfigData[c] EXCEPT ![ch].charValueWasUpdated = TRUE]
         ELSE clientConfigData[c]]

\* writeCharacteristicForPeripheral(): tell the client that is connected, and
\* mark what the others have missed.  A value of invalid length is ignored.
WriteCharacteristic(ch, value) ==
  /\ ApplicationRuns
  /\ writes < MaxWrites
  /\ localServices # None /\ ch \in DOMAIN localAttributes
  /\ Len(value) \in MinLength..MaxLength
  /\ localAttributes' = [localAttributes EXCEPT ![ch] = value]
  /\ localServices' = [localServices EXCEPT ![ch] = value]
  /\ LET byte == localServices[Config[ch]][1]
         connected == state = "Connected"
         notify == Notifies(byte) /\ ch \in Notifying
     IN /\ \/ /\ connected /\ notify
              /\ toClient' = Append(toClient, Packet("notification", ch, value))
              /\ UNCHANGED <<scheduledIndications, indicationInFlight>>
           \/ /\ connected /\ ~notify /\ Subscribed(ch, byte)
              /\ SendOrScheduleIndication(ch, value)
           \/ /\ ~(connected /\ Subscribed(ch, byte))
              /\ UNCHANGED <<scheduledIndications, indicationInFlight, toClient>>
        /\ MarkMissed(ch)
        /\ due' = [c \in Clients |->
                     IF Subscribed(ch, asked[c][ch])
                        /\ (c \in Bonded \/ (connected /\ c = remoteDevice))
                       THEN due[c] \cup {ch} ELSE due[c]]
  /\ known' = [known EXCEPT ![ch] = value]
  /\ writes' = writes + 1
  /\ UNCHANGED <<state, socket, listening, advertiser, unwind,
                 openPrepareWriteRequests, remoteDevice, owed, asked, wanted>>

-----------------------------------------------------------------------------
(* The client: what it is told, what it writes *)

Receiving == socket = "open" /\ unwind = "none"

\* A client that is told the current value of a characteristic is up to date.
ClientReceives ==
  /\ Receiving
  /\ toClient # <<>>
  /\ LET p == Head(toClient) IN
       /\ owed' = (owed \/ p.kind = "indication")
       /\ due' = [due EXCEPT ![remoteDevice] =
                    IF p.value = localAttributes[p.char] THEN @ \ {p.char} ELSE @]
  /\ toClient' = Tail(toClient)
  /\ UNCHANGED <<state, socket, listening, advertiser, unwind, database, session,
                 clientConfigData, remoteDevice, asked, known, wanted, writes>>

\* Mutants of sendNextIndication(): the flag is not set again, the queue is
\* emptied, or left to the next confirmation.
SendNextIndication_FlagNotSet ==
  IF scheduledIndications = <<>>
    THEN indicationInFlight' = FALSE /\ UNCHANGED <<scheduledIndications, toClient>>
    ELSE LET ch == Head(scheduledIndications) IN
         /\ indicationInFlight' = FALSE
         /\ scheduledIndications' = Tail(scheduledIndications)
         /\ toClient' = Append(toClient, Packet("indication", ch, localAttributes[ch]))
SendNextIndication_QueueEmptied ==
  IF scheduledIndications = <<>>
    THEN indicationInFlight' = FALSE /\ UNCHANGED <<scheduledIndications, toClient>>
    ELSE LET ch == Head(scheduledIndications) IN
         /\ indicationInFlight' = TRUE
         /\ scheduledIndications' = <<>>
         /\ toClient' = Append(toClient, Packet("indication", ch, localAttributes[ch]))
SendNextIndication_NotSent ==
  indicationInFlight' = FALSE /\ UNCHANGED <<scheduledIndications, toClient>>
SendNextIndication ==
  IF scheduledIndications = <<>>
    THEN indicationInFlight' = FALSE /\ UNCHANGED <<scheduledIndications, toClient>>
    ELSE LET ch == Head(scheduledIndications) IN
         /\ indicationInFlight' = TRUE
         /\ scheduledIndications' = Tail(scheduledIndications)
         /\ toClient' = Append(toClient, Packet("indication", ch, localAttributes[ch]))

\* A confirmation; one that nobody waits for is logged.
Confirmation ==
  /\ Receiving
  /\ owed
  /\ owed' = FALSE
  /\ IF indicationInFlight
       THEN SendNextIndication
       ELSE UNCHANGED <<scheduledIndications, indicationInFlight, toClient>>
  /\ UNCHANGED <<state, socket, listening, advertiser, unwind, database,
                 openPrepareWriteRequests, clientConfigData, remoteDevice,
                 observer>>

\* What the client knows after it wrote these attributes with these values.
ClientWrote(attributes, values) ==
  /\ asked' = [asked EXCEPT ![remoteDevice] =
                 [ch \in Chars |-> IF Config[ch] \in attributes
                                     THEN values[Config[ch]][1] ELSE @[ch]]]
  /\ due' = [due EXCEPT ![remoteDevice] =
               {ch \in @ : /\ ch \notin attributes
                           /\ Subscribed(ch, asked'[remoteDevice][ch])}]
  /\ UNCHANGED <<wanted, writes>>

\* updateLocalAttributeValue(), for some attributes.
\* Mutant: the service objects keep their values.
UpdateLocalAttributeValues_OneCopy(attributes, values) ==
  localAttributes' = values /\ UNCHANGED localServices
UpdateLocalAttributeValues(attributes, values) ==
  /\ localAttributes' = values
  /\ localServices' = [a \in DOMAIN localServices |->
                         IF a \in attributes THEN values[a] ELSE localServices[a]]

\* handleWriteRequestOrCommand(), for an attribute the client may write.
WriteRequestOrCommand(a, value) ==
  /\ Receiving
  /\ a \in DOMAIN localServices /\ a \in DOMAIN localAttributes
  /\ Len(value) <= MaximumLength(a)
  /\ LET new == Written(a, localAttributes[a], value)
         all == [localAttributes EXCEPT ![a] = new]
     IN /\ UpdateLocalAttributeValues({a}, all)
        /\ known' = [known EXCEPT ![a] = new]
        /\ ClientWrote({a}, all)
  /\ UNCHANGED <<state, socket, listening, advertiser, unwind, session,
                 clientConfigData, remoteDevice, channel>>

\* handlePrepareWriteRequest(): the value is not checked here.
PrepareWriteRequest(a, offset, value) ==
  /\ "prepare" \in Environment
  /\ Receiving
  /\ a \in DOMAIN localServices /\ a \in DOMAIN localAttributes
  /\ Len(openPrepareWriteRequests) < MaxPrepare
  /\ openPrepareWriteRequests' =
       Append(openPrepareWriteRequests,
              [handle |-> a, valueOffset |-> offset, value |-> value,
               client |-> remoteDevice])
  /\ UNCHANGED <<state, socket, listening, advertiser, unwind, database,
                 scheduledIndications, indicationInFlight, clientConfigData,
                 remoteDevice, channel, observer>>

\* The attributes after the first k prepared writes, and whether one of them was
\* refused: everything behind it is left out.
Executed[k \in Nat] ==
  IF k = 0
    THEN [values |-> localAttributes, ok |-> TRUE, written |-> {}]
    ELSE LET before == Executed[k - 1]
             w == openPrepareWriteRequests[k]
             old == before.values[w.handle]
             new == SubSeq(old, 1, w.valueOffset) \o w.value
         IN IF ~before.ok THEN before
            ELSE IF w.valueOffset > Len(old) \/ Len(new) > MaximumLength(w.handle)
              THEN [before EXCEPT !.ok = FALSE]
            ELSE [values |-> [before.values EXCEPT ![w.handle] = new], ok |-> TRUE,
                  written |-> before.written \cup {w.handle}]

\* handleExecuteWriteRequest(): the application is told when all of it is done.
ExecuteWriteRequest(flush) ==
  /\ "prepare" \in Environment
  /\ Receiving
  /\ openPrepareWriteRequests # <<>>
  /\ openPrepareWriteRequests' = <<>>
  /\ IF flush
       THEN LET done == Executed[Len(openPrepareWriteRequests)] IN
            /\ UpdateLocalAttributeValues(done.written, done.values)
            /\ known' = IF done.ok THEN done.values ELSE known
            /\ ClientWrote(done.written, done.values)
       ELSE UNCHANGED <<database, observer>>
  /\ UNCHANGED <<state, socket, listening, advertiser, unwind,
                 scheduledIndications, indicationInFlight, clientConfigData,
                 remoteDevice, channel>>

-----------------------------------------------------------------------------
WritesOf(a) == IF a \in Configs THEN ClientConfigs ELSE ClientValues

Next ==
  \/ AddService
  \/ \E data \in AdvData, connectable \in BOOLEAN :
       StartAdvertising(data, connectable)
  \/ StopAdvertising
  \/ \E client \in Clients : ConnectionRequest(client)
  \/ DisconnectFromDevice \/ UnexpectedPacket
  \/ NetworkError \/ RemoteHostClosed \/ Unwind
  \/ \E ch \in Chars, value \in AppValues : WriteCharacteristic(ch, value)
  \/ ClientReceives \/ Confirmation
  \/ \E a \in Attributes : \E value \in WritesOf(a) :
       \/ WriteRequestOrCommand(a, value)
       \/ \E offset \in 0..MaxLength : PrepareWriteRequest(a, offset, value)
  \/ \E flush \in BOOLEAN : ExecuteWriteRequest(flush)

Spec == Init /\ [][Next]_vars

\* Handlers run to their end, packets arrive, clients confirm indications, and a
\* socket notices that its link is gone.
Fairness ==
  /\ WF_vars(Unwind)
  /\ WF_vars(ClientReceives) /\ WF_vars(Confirmation)
  /\ WF_vars(RemoteHostClosed /\ socket = "dead")

FairSpec == Spec /\ Fairness

-----------------------------------------------------------------------------
(* Properties *)

TypeOK ==
  /\ state \in {"Unconnected", "Advertising", "Connected", "Closing"}
  /\ socket \in {"none", "open", "dead", "closed"}
  /\ listening \in BOOLEAN
  /\ advertiser \in AdvData \cup {NoData} /\ wanted \in AdvData \cup {NoData}
  /\ unwind \in {"none", "disconnected", "reset"}
  /\ localServices \in [Attributes -> Values] \cup {None}
  /\ localAttributes \in [Attributes -> Values] \cup {None}
  /\ known \in [Attributes -> Values] \cup {None}
  /\ openPrepareWriteRequests \in Seq(WriteRequests)
  /\ scheduledIndications \in Seq(Chars) /\ indicationInFlight \in BOOLEAN
  /\ clientConfigData \in
       [Clients -> [Chars -> [configValue : Bytes, charValueWasUpdated : BOOLEAN]]]
  /\ remoteDevice \in Clients \cup {NoClient}
  /\ toClient \in Seq(Packets) /\ owed \in BOOLEAN
  /\ asked \in [Clients -> [Chars -> Bytes]]
  /\ due \in [Clients -> SUBSET Chars]
  /\ writes \in 0..MaxWrites

\* "Invariant: !scheduledIndications.isEmpty => indicationInFlight == true", and
\* what it is for: the client never has two indications to confirm.
Indications == {k \in DOMAIN toClient : toClient[k].kind = "indication"}
OneIndication ==
  /\ scheduledIndications # <<>> => indicationInFlight
  /\ Cardinality(Indications) + (IF owed THEN 1 ELSE 0) =
       (IF indicationInFlight THEN 1 ELSE 0)

\* The application and the client see the same values: each is stored twice, and
\* every write, reset and restored configuration changes both copies.
CopiesAgree == unwind = "none" => localServices = localAttributes

\* What the queues of a session hold was put there by the client that is
\* connected, not by one that has left.
QueuesAreTheClients ==
  /\ state # "Connected" /\ unwind = "none" =>
       /\ openPrepareWriteRequests = <<>> /\ scheduledIndications = <<>>
       /\ ~indicationInFlight
  /\ \A k \in DOMAIN openPrepareWriteRequests :
       openPrepareWriteRequests[k].client = remoteDevice

\* A session ends with nothing left of it in the queues, and executes its prepared
\* writes on both copies of the values or on none.
SessionsApart == QueuesAreTheClients /\ CopiesAgree

\* The configuration of a bonded client is in force as soon as it is connected
\* again; one without a bond starts from the default.
BondedConfigKept ==
  state = "Connected" /\ localServices # None =>
    \A ch \in Chars : localServices[Config[ch]][1] = asked[remoteDevice][ch]

\* What the application writes to a characteristic reaches the subscribed client:
\* at once, behind an indication that is not confirmed, or when it is back.
UpdateOnItsWay ==
  state = "Connected" =>
    \A ch \in due[remoteDevice] :
      \/ \E k \in DOMAIN scheduledIndications : scheduledIndications[k] = ch
      \/ \E k \in DOMAIN toClient :
           toClient[k].char = ch /\ toClient[k].value = localAttributes[ch]

\* A client that comes back finds what it has set, and what it has missed is sent.
BondKept == BondedConfigKept /\ UpdateOnItsWay

\* The client is up to date in the end, or its session is over.
UpdateArrives ==
  \A c \in Clients, ch \in Chars :
    []<>~(state = "Connected" /\ remoteDevice = c /\ ch \in due[c])

-----------------------------------------------------------------------------
(* What comments, assertions and documentation say, and the code does not do *)

\* "Q_ASSERT(desc.value.count() == 2)": an attribute of fixed length keeps it.
FixedLengthKept ==
  localAttributes # None =>
    \A a \in Attributes :
      MinimumLength(a) = MaximumLength(a) =>
        Len(localAttributes[a]) = MinimumLength(a)

\* "the signal is emitted when a GATT client has written the value of the
\* characteristic": the application knows what the client has written.
ApplicationInformed ==
  localServices # None /\ unwind = "none" => known = localServices

\* "local services map inconsistent with local attribute map": every attribute of
\* a service is in the attribute list.
MapsConsistent ==
  unwind = "none" => DOMAIN localServices \subseteq DOMAIN localAttributes

\* "every service definition that was previously added via this function is
\* removed": previously, not those added since the controller was unconnected.
ServicesKept ==
  [][state = "Unconnected" /\ localServices # None => localServices' # None]_vars

\* "To reuse the QLowEnergyController instance the application must re-add
\* services": it comes back to the state in which services can be added.
Reusable == []<>(state # "Closing")

\* "Starts advertising the data given in advertisingData and scanResponseData".
AdvertisesWhatIsWanted == state = "Advertising" => advertiser = wanted

=============================================================================
