------------------------------ MODULE BackendsMC ------------------------------
(***************************************************************************)
(* The back ends of Classic Bluetooth, of discovery and of the local       *)
(* device, for TLC: sockets and servers on BlueZ (kernel sockets and       *)
(* D-Bus), Android, Apple's systems and Windows, the discovery agents, the *)
(* service discovery and BlueZ's local device; the Low Energy peripherals  *)
(* of Android and of Apple's systems, and how a Low Energy controller      *)
(* connects and advertises over BlueZ's kernel sockets.  They do not share *)
(* state: a behaviour is one of them, chosen at first in "backend", and    *)
(* the variables of the others stay as they are initially, where none of   *)
(* their actions is obliged to happen.                                     *)
(***************************************************************************)
EXTENDS BluezSocket, DBusSocket, BluezServer, AndroidSocket, AndroidServer,
        WinrtSocket, DarwinSocket, DarwinServer, BluezDiscovery,
        BluezLocalDevice, AndroidDiscovery, DarwinDiscovery, ServiceDiscovery,
        WinrtDiscovery, AndroidPeripheral, DarwinPeripheral,
        BluezConnecting, BluezAdvertiser

Session(writes, sends, sessions, may) ==
  [writes |-> writes, sends |-> sends, sessions |-> sessions, may |-> may]

McBsScenarios ==
  {Session(2, 2, 1, {"linkLoss", "writeFails", "closeInSlot"}),
   Session(1, 1, 2, {"refuse", "linkLoss", "closeInSlot", "abort"}),
   Session(1, 1, 2, {"refuse", "lookup", "linkLoss"}),
   Session(3, 1, 2, {"writeInSlot", "closeInSlot", "linkLoss"}),
   Session(2, 0, 1, {"unbuffered", "writeFails", "linkLoss"}),
   Session(1, 1, 2, {"refuseAtOnce", "abort"})}
McDsScenarios == {Session(2, 0, 2, {"refuse", "notFound", "linkLoss"})}
McAsScenarios ==
  {Session(1, 1, 2, {"connectFails", "streamFails", "linkLoss"}),
   Session(1, 2, 1, {"fallback", "connectFails", "writeFails", "linkLoss"}),
   Session(1, 2, 2, {"accept", "linkLoss"})}
McWsScenarios ==
  {Session(2, 3, 1, {"connectFails", "writeFails", "linkLoss"}),
   Session(1, 3, 1, {"accept", "linkLoss"})}
McMoScenarios ==
  {Session(3, 1, 1, {"refused", "linkLoss"}),
   Session(1, 2, 2, {"early", "linkLoss", "abort"}),
   Session(1, 1, 2, {"lookup", "refused", "openFails"}),
   Session(2, 1, 1, {"accept", "writeFails"})}

McBvScenarios ==
  {[listens |-> 3, peers |-> 3, backlog |-> 2, may |-> {"bindFails", "peerGone"}],
   [listens |-> 1, peers |-> 3, backlog |-> 2, may |-> {"securityFails"}]}
McAvScenarios ==
  {[starts |-> 3, peers |-> 3, maxPending |-> 2, may |-> {"listenFails", "restartEarly"}],
   [starts |-> 3, peers |-> 0, maxPending |-> 1, may |-> {"reregister"}]}
McDvScenarios == {[listens |-> 4, peers |-> 1, may |-> {"askForPort", "listenerFails"}]}

McBdScenarios ==
  LET Bd(starts, asks, known, may) ==
        [starts |-> starts, asks |-> asks, known |-> known, may |-> may]
  IN  {Bd(2, 0, {"b"}, {"filterFails", "stopInSlot", "restartInSlot", "hasty"}),
       Bd(1, 2, {"b"}, {"supersede", "cancel", "cancelRace", "pairFails"}),
       Bd(2, 1, {}, {"hasty", "otherOn", "otherStops", "noTimeout"}),
       Bd(2, 1, {"b"}, {"removed", "powerOff"})}
McBlScenarios ==
  {[asks |-> 2, changes |-> 2, may |-> {"external"}],
   [asks |-> 0, changes |-> 5, may |-> {"removed", "adapterGone"}]}
McAdScenarios ==
  LET Ad(starts, agents, may) == [starts |-> starts, agents |-> agents, may |-> may]
  IN  {Ad(1, {1, 2}, {"startFails", "cancelFails", "scanFails", "noLocation", "twice"}),
       Ad(1, {1, 2}, {"powerOff"}), Ad(3, {1}, {"restart"})}
McDdScenarios ==
  LET Dd(starts, may) == [starts |-> starts, may |-> may]
  IN  {Dd(2, {"startFails", "stopFails", "classicError"}), Dd(3, {"hangs", "restart"}),
       Dd(2, {"powerOff"}), Dd(2, {"unsupported"}), Dd(2, {"ios", "powerOff"})}
McSdScenarios ==
  LET Sd(platform, may) == [platform |-> platform, searches |-> 2, may |-> may]
  IN  {Sd("bluez", {"full", "minimal", "scan", "deviceFails", "scanFails"}),
       Sd("bluez", {"full", "minimal", "scan", "deviceFails"}),
       Sd("bluez", {"full", "minimal", "scan", "single", "unset"}),
       Sd("bluez", {"full", "minimal", "single", "deviceFails", "off"}),
       Sd("android", {"full", "minimal", "scan", "deviceFails", "oneBroadcast"}),
       Sd("android", {"full", "single", "stop", "off"}),
       Sd("darwin", {"full", "minimal", "scan", "stop"}),
       Sd("darwin", {"full", "minimal", "single", "deviceFails", "off"}),
       Sd("bluez", {"full", "minimal", "scan", "stop"}),
       Sd("winrt", {"full", "single", "attributesFail"}),
       Sd("winrt", {"full", "minimal", "scan", "oneDevice", "stop"})}
Search(starts, methods, classic, le, adverts, timeout, may) ==
  [starts |-> starts, methods |-> methods,
   paired |-> [m \in {"classic", "le"} |-> IF m = "classic" THEN classic ELSE le],
   adverts |-> adverts, timeout |-> timeout, may |-> may]
McWdScenarios ==
  {Search(2, {"classic"}, {"a"}, {}, 0, FALSE, {"refused", "stops"}),
   Search(1, {"classic"}, {"a"}, {}, 0, FALSE, {"denied"}),
   Search(2, {"classic"}, {}, {}, 0, FALSE, {"stops"}),
   Search(1, {"classic", "le"}, {"a", "b"}, {"a"}, 0, TRUE,
          {"startFails", "findFails", "refused", "unanswered", "detailsFail"}),
   Search(2, {"le"}, {}, {"b"}, 1, TRUE, {"stops"}),
   Search(1, {"le"}, {}, {}, 3, TRUE, {})}
McApScenarios ==
  LET Ap(adds, connects, writes, room, may) ==
        [adds |-> adds, connects |-> connects, writes |-> writes, room |-> room, may |-> may]
  IN  {Ap(3, 1, 0, 0, {"refuses", "advertises", "closes"}),
       Ap(1, 2, 1, 0, {"advertises", "stops", "advFails", "returns", "writes", "local"}),
       Ap(1, 2, 2, 0, {"subscribes", "returns", "writes", "local"}),
       Ap(1, 2, 2, 0, {"prepared", "returns", "closes"}),
       Ap(2, 1, 2, 1, {"prepared"}), Ap(1, 1, 2, 0, {"prepared", "subscribes"})}
McDpScenarios ==
  LET Dp(adds, starts, links, acts, may) ==
        [adds |-> adds, starts |-> starts, links |-> links, acts |-> acts, may |-> may]
  IN  {Dp(2, 2, 0, 0, {"addFails", "advFails", "stops"}),
       Dp(1, 1, 1, 3, {"local", "writes", "full"}),
       Dp(1, 2, 1, 2, {"powerOff", "stops", "local"}),
       Dp(1, 2, 1, 3, {"powerOff", "stops"}),
       Dp(2, 1, 1, 2, {"writes", "full"}),
       Dp(1, 1, 2, 3, {"unsubscribes"})}

McBcScenarios ==
  LET Bc(others, connects, may) == [others |-> others, connects |-> connects, may |-> may]
  IN  {Bc({"a"}, 2, {"dbusFails", "stays", "leaves", "linkLoss"}),
       Bc({"a", "b"}, 2, {"dbusFails", "noSocket", "refused"}),
       Bc({"a"}, 2, {"refused", "linkLoss", "disconnects", "lingers"}),
       Bc({"a"}, 3, {"disconnects", "giveUp", "lingers"})}
McBaScenarios ==
  LET Data(power, name, two, four, sixteen, manufacturer) ==
        [power |-> power, name |-> name, manufacturer |-> manufacturer,
         services |-> [w \in {2, 4, 16} |->
                        IF w = 2 THEN two ELSE IF w = 4 THEN four ELSE sixteen]]
      None == Data(FALSE, 0, 0, 0, 0, -1)
      Some == Data(TRUE, 5, 1, 0, 0, -1)
      Long == Data(FALSE, 40, 1, 1, 1, 3)
      Many == Data(FALSE, 2, 3, 5, 1, 2)
      Full == Data(FALSE, 20, 0, 0, 0, 3)
      Ba(adv, rsp, whiteList, may) ==
        [adv |-> adv, rsp |-> rsp, scannable |-> rsp # None, filter |-> whiteList > 0,
         whiteList |-> whiteList, starts |-> 2, may |-> may]
  IN  {Ba(Some, Full, 0, {"noPower", "stops", "alreadyOn"}),
       Ba(Long, Many, 2, {"stops", "disconnects"}),
       Ba(Many, Some, 0, {"fails", "sendFails", "unmonitored", "peer", "disconnects"}),
       Ba(Full, None, 0, {"stops", "foreign", "foreignFails"})}

-------------------------------------------------------------------------------
VARIABLE backend

Classic == <<bz, ds, bv, as, av, ws, mo, dv>>
Agents == <<bd, bl, ad, dd, sd, wd>>
LowEnergy == <<ap, dp, bc, ba>>

\* What is not chosen stays as it is in one of its scenarios.
Spare(name, scenario, scenarios) == backend = name \/ scenario = CHOOSE s \in scenarios : TRUE

BackendsInit ==
  /\ backend \in {"bluezsocket", "dbussocket", "bluezserver", "androidsocket",
                  "androidserver", "winrtsocket", "darwinsocket", "darwinserver",
                  "bluezdiscovery", "localdevice", "androiddiscovery",
                  "darwindiscovery", "servicediscovery", "winrtdiscovery",
                  "androidperipheral", "darwinperipheral",
                  "bluezconnecting", "bluezadvertiser"}
  /\ BsInit /\ Spare("bluezsocket", bz.scenario, BsScenarios)
  /\ DsInit /\ Spare("dbussocket", ds.scenario, DsScenarios)
  /\ BvInit /\ Spare("bluezserver", bv.scenario, BvScenarios)
  /\ AsInit /\ Spare("androidsocket", as.scenario, AsScenarios)
  /\ AvInit /\ Spare("androidserver", av.scenario, AvScenarios)
  /\ WsInit /\ Spare("winrtsocket", ws.scenario, WsScenarios)
  /\ MoInit /\ Spare("darwinsocket", mo.scenario, MoScenarios)
  /\ DvInit /\ Spare("darwinserver", dv.scenario, DvScenarios)
  /\ BdInit /\ Spare("bluezdiscovery", bd.scenario, BdScenarios)
  /\ BlInit /\ Spare("localdevice", bl.scenario, BlScenarios)
            /\ (backend = "localdevice" \/ (bl.current = "PoweredOff" /\ ~bl.discoverable
                                              /\ bl.monitors = {}))
  /\ AdInit /\ Spare("androiddiscovery", ad.scenario, AdScenarios)
  /\ DdInit /\ Spare("darwindiscovery", dd.scenario, DdScenarios)
  /\ SdInit /\ Spare("servicediscovery", sd.scenario, SdScenarios)
  /\ WdInit /\ Spare("winrtdiscovery", wd.scenario, WdScenarios)
  /\ ApInit /\ Spare("androidperipheral", ap.scenario, ApScenarios)
  /\ DpInit /\ Spare("darwinperipheral", dp.scenario, DpScenarios)
  /\ BcInit /\ Spare("bluezconnecting", bc.scenario, BcScenarios)
  /\ BaInit /\ Spare("bluezadvertiser", ba.scenario, BaScenarios)
            /\ (backend = "bluezadvertiser" \/ ~ba.radio.on)

BackendsNext ==
  /\ UNCHANGED backend
  /\ \/ /\ UNCHANGED <<Agents, LowEnergy>>
        /\ \/ backend = "bluezsocket" /\ BsNext /\ UNCHANGED <<ds, bv, as, av, ws, mo, dv>>
           \/ backend = "dbussocket" /\ DsNext /\ UNCHANGED <<bz, bv, as, av, ws, mo, dv>>
           \/ backend = "bluezserver" /\ BvNext /\ UNCHANGED <<bz, ds, as, av, ws, mo, dv>>
           \/ backend = "androidsocket" /\ AsNext /\ UNCHANGED <<bz, ds, bv, av, ws, mo, dv>>
           \/ backend = "androidserver" /\ AvNext /\ UNCHANGED <<bz, ds, bv, as, ws, mo, dv>>
           \/ backend = "winrtsocket" /\ WsNext /\ UNCHANGED <<bz, ds, bv, as, av, mo, dv>>
           \/ backend = "darwinsocket" /\ MoNext /\ UNCHANGED <<bz, ds, bv, as, av, ws, dv>>
           \/ backend = "darwinserver" /\ DvNext /\ UNCHANGED <<bz, ds, bv, as, av, ws, mo>>
     \/ /\ UNCHANGED <<Classic, LowEnergy>>
        /\ \/ backend = "bluezdiscovery" /\ BdNext /\ UNCHANGED <<bl, ad, dd, sd, wd>>
           \/ backend = "localdevice" /\ BlNext /\ UNCHANGED <<bd, ad, dd, sd, wd>>
           \/ backend = "androiddiscovery" /\ AdNext /\ UNCHANGED <<bd, bl, dd, sd, wd>>
           \/ backend = "darwindiscovery" /\ DdNext /\ UNCHANGED <<bd, bl, ad, sd, wd>>
           \/ backend = "servicediscovery" /\ SdNext /\ UNCHANGED <<bd, bl, ad, dd, wd>>
           \/ backend = "winrtdiscovery" /\ WdNext /\ UNCHANGED <<bd, bl, ad, dd, sd>>
     \/ /\ UNCHANGED <<Classic, Agents>>
        /\ \/ backend = "androidperipheral" /\ ApNext /\ UNCHANGED <<dp, bc, ba>>
           \/ backend = "darwinperipheral" /\ DpNext /\ UNCHANGED <<ap, bc, ba>>
           \/ backend = "bluezconnecting" /\ BcNext /\ UNCHANGED <<ap, dp, ba>>
           \/ backend = "bluezadvertiser" /\ BaNext /\ UNCHANGED <<ap, dp, bc>>

BackendsSpec ==
  /\ BackendsInit /\ [][BackendsNext]_<<backend, Classic, Agents, LowEnergy>>
  /\ BsFairness /\ DsFairness /\ BvFairness /\ AsFairness /\ AvFairness
  /\ WsFairness /\ MoFairness
  /\ BdFairness /\ BlFairness /\ AdFairness /\ DdFairness /\ SdFairness /\ WdFairness
  /\ ApFairness /\ DpFairness /\ BcFairness /\ BaFairness

-------------------------------------------------------------------------------
(* What the public classes promise on every platform; the module of each back *)
(* end says how it keeps the promise.                                         *)

\* Type correctness of every back end.
BackendsTypeOK ==
  /\ BsTypeOK /\ DsTypeOK /\ BvTypeOK /\ AsTypeOK /\ AvTypeOK
  /\ WsTypeOK /\ MoTypeOK /\ DvTypeOK
  /\ BdTypeOK /\ BlTypeOK /\ AdTypeOK /\ DdTypeOK /\ SdTypeOK /\ WdTypeOK
  /\ ApTypeOK /\ DpTypeOK /\ BcTypeOK /\ BaTypeOK

\* Bytes reach the peer and the application once and in order, through buffers,
\* short writes and threads; and what waits in a buffer has a notifier, a queued
\* call or a completion that will move it on.
Streams ==
  /\ BsStreams /\ AsStreams /\ MoStreams /\ WsConserved
  /\ BsWriteCarried /\ MoWriteCarried /\ WsAnnounced

\* A connected QBluetoothSocket has the connection it asked for last, and nothing
\* of an earlier one reads for it; a Low Energy central has one socket, its own, and
\* the links in its way are ended one by one.
ConnectedIsOwn ==
  BsConnectedIsUp /\ DsConnectedHasSocket /\ AsConnectedIsOwn /\ AsReaderIsOwn
    /\ MoConnectedIsOpen /\ BcOwnSocket /\ BcJobsMove

\* A socket that is unconnected again has let go of everything, so that it can
\* connect once more: notifiers, unsent bytes, profile, local socket.
SocketsReusable ==
  BsNotifiersLive /\ BsNothingLeft /\ DsLocalLive /\ DsReusable

\* Every attempt to connect is answered, every closing ends, an asynchronous write
\* is flushed before, the loss of a link is told, an abandoned Java socket is
\* closed, and a socket that was closed stays so; a Low Energy central has the adapter to itself when it connects.
SocketsSettle ==
  /\ BsAttemptEnds /\ DsAttemptAnswered /\ AsAttemptEnds /\ WsAttemptEnds
  /\ MoAttemptAnswered
  /\ BsClosingEnds /\ DsClosingEnds /\ AsClosingEnds /\ MoClosingEnds
  /\ MoCloseFlushes /\ WsLossTold /\ AsAbandonedClosed /\ []WsConnectedIsOpen
  /\ BcAttemptEnds /\ BcAlone

\* A server that listens hears on its own descriptor, thread or port only, and
\* tells of the connections it keeps.
ServersHear ==
  BvHears /\ BvSilenceAnnounced /\ AvAnnounced /\ AvOneListener
    /\ DvRegistryAgrees /\ DvQuiet

\* ... and goes on serving: connections are taken, a registered server accepts; a
\* peripheral's services are added, it begins to advertise, its updates get through
\* and it leaves ClosingState.
ServersServe ==
  BvConnectionsTaken /\ AvRegisteredAccepts /\ DvServes
    /\ ApAdditionsEnd /\ ApClosingEnds /\ DpAdvertisingBegins /\ DpUpdatesEnd
    /\ BaQueueEnds

\* A search ends once, by an end that is its own and not another agent's or an
\* earlier scan's; one that was stopped is not reported as finished; and while it
\* runs something still runs for it.
OneEnd ==
  /\ BdOneEnd /\ AdOneEnd /\ DdOneEnd /\ SdOneEnd /\ WdOneEnd
  /\ AdOwnFinish /\ DdOwnSignal /\ SdQuiet /\ WdWatcherOwned
  /\ AdStopCancels /\ DdStopCancels
  /\ AdPhaseIsReal /\ DdPhasesAgree

\* What a search found is reported: each device asked, each answer told, what was
\* advertised merged, and no failure of one device taken for that of the search.
SearchComplete == SdAllAsked /\ SdAllReported /\ SdErrorsSuppressed /\ WdAdvertsTold

\* Every search ends, and lists only what its own worker found; every pairing is
\* answered, truly, and a host mode that was asked for is reached.
SearchesEnd ==
  /\ BdSearchEnds /\ AdSettles /\ DdSettles /\ SdSearchEnds /\ WdSearchEnds
  /\ WdListsItsOwn
  /\ BdPairingAnswered /\ BdPairingTrue /\ BlModeReached

\* The discovery that agents, pairing and other programs share is on as long as
\* somebody needs it and no longer; what the local device says is the adapter's
\* state.
AdapterShared ==
  BdInterestHeld /\ BdSwitchedOff /\ BdServed /\ BlModeTold /\ BlConnectedAgrees

\* The peripheral's state, values and configurations are those of the devices that
\* are connected, of whom several come and go; and the adapter advertises what was
\* asked for, when it was.
PeripheralAgrees ==
  /\ ApAdditionsMove /\ ApStatesAgree /\ ApDisconnectedTold
  /\ ApCopiesAgree /\ ApUpdatesSent /\ ApPreparedLive
  /\ DpStatesAgree /\ DpSessionReal /\ DpCopiesAgree /\ DpUpdatesSent /\ DpSilent
  /\ BaCommandsMove /\ BaOwnData /\ BaRadioAgrees /\ BaDataFit /\ BaErrorsReal
===============================================================================
