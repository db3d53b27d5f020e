--------------------------- MODULE DarwinPeripheral ---------------------------
(***************************************************************************)
(* The peripheral of Apple's systems: QLowEnergyControllerPrivateDarwin in *)
(* the peripheral role (qlowenergycontroller_darwin.mm), in the thread of  *)
(* the application, and DarwinBTPeripheralManager                          *)
(* (darwin/btperipheralmanager.mm), to which it sends blocks on Qt's queue *)
(* for Low Energy, where Core Bluetooth calls it as well, and which        *)
(* answers by queued signals.  Core Bluetooth tells it nothing of          *)
(* connections: a central is connected from the first thing it does until  *)
(* it gives up a subscription.                                             *)
(***************************************************************************)
EXTENDS Integers, Sequences, FiniteSets, SequencesExt

CONSTANTS
  DpServices,   \* the services the application adds, with one characteristic each
  DpCentrals,   \* the centrals that may connect
  DpScenarios   \* what they, Core Bluetooth and the application may do

(***************************************************************************)
(* A scenario bounds the services added, the calls of startAdvertising(),  *)
(* the links, and the writes, subscriptions and losses of power together;  *)
(* its set "may" has:                                                      *)
(* "addFails"     Core Bluetooth may refuse a service                      *)
(* "advFails"     ... or to advertise                                      *)
(* "powerOff"     Bluetooth may be switched off and on                     *)
(* "unsupported"  ... or be of no use to the program                       *)
(* "full"         updates may have to wait                                 *)
(* "noServices"   the application may advertise without any                *)
(* "stops"        it may stop advertising ...                              *)
(* "stopEarly"    ... while services are being added,                      *)
(* "stopRace"     ... with connected() on its way                          *)
(* "local"        it writes the characteristics of its services            *)
(* "writes"       the centrals do, several at a time                       *)
(* "unsubscribes" a central may give up a subscription and stay            *)
(* "several"      a central may have more than one subscription, and       *)
(*                centrals different ones                                  *)
(* "readers"      a central may read or write without a subscription       *)
(* "late"         ... or do something once the session is over for Qt, or  *)
(*                before the next has begun to advertise                   *)
(***************************************************************************)
ASSUME DpAssumption ==
  /\ IsFiniteSet(DpServices) /\ IsFiniteSet(DpCentrals)
  /\ \A c \in DpScenarios :
       /\ {c.adds, c.starts, c.links, c.acts} \subseteq Nat
       /\ c.may \subseteq
            {"addFails", "advFails", "powerOff", "unsupported", "full",
             "noServices", "stops", "stopEarly", "stopRace", "local", "writes",
             "unsubscribes", "several", "readers", "late"}

VARIABLE
  dp  \* the controller, the manager of the peripheral, Core Bluetooth, centrals

DpMay(what) == what \in dp.scenario.may
DpOutcome(failure) == IF DpMay(failure) THEN BOOLEAN ELSE {TRUE}

-----------------------------------------------------------------------------
DpInit ==
  \E scenario \in DpScenarios :
    dp = [scenario |-> scenario, starts |-> 0, links |-> 0, acts |-> 0,
          \* the controller: its state, the values and configurations of
          \* localServices, whether an error was told since it began to advertise
          state |-> "Unconnected", copy |-> [s \in DpServices |-> 0],
          enabled |-> [s \in DpServices |-> FALSE], failed |-> FALSE,
          \* to the queue, and back
          blocks |-> <<>>, posted |-> <<>>,
          \* DarwinBTPeripheralManager
          peripheral |-> "idle", services |-> <<>>, nextServiceToAdd |-> 0,
          nOfFailedAds |-> 0, charValues |-> [s \in DpServices |-> 0],
          updateQueue |-> <<>>, connectedCentrals |-> {},
          \* Core Bluetooth: the state it reported, the services it is adding
          \* and those it has, advertising, who is linked and subscribed to
          \* what, whether it owes a "ready", and what was sent last
          power |-> "none", adding |-> {}, published |-> {}, radio |-> "off",
          linked |-> {}, subscribed |-> {}, full |-> FALSE,
          sent |-> [s \in DpServices |-> [c \in DpCentrals |-> 0]]]

DpEmit(p, what, about, value) ==
  [p EXCEPT !.posted = Append(@, [what |-> what, about |-> about, value |-> value])]
DpPosted(p, what) == \E i \in DOMAIN p.posted : p.posted[i].what = what

-----------------------------------------------------------------------------
(* The controller *)

\* addServiceHelper() and addService() of the manager, in the application's thread.
DpAddService(s) ==
  /\ dp.state = "Unconnected" /\ ~Contains(dp.services, s)
  /\ Len(dp.services) < dp.scenario.adds
  /\ dp' = [dp EXCEPT !.services = Append(@, s)]

DpStartAdvertising ==
  /\ dp.state = "Unconnected" /\ dp.starts < dp.scenario.starts
  /\ dp.services = <<>> => DpMay("noServices")
  /\ dp' = [dp EXCEPT !.starts = @ + 1, !.state = "Advertising", !.failed = FALSE,
                      !.blocks = Append(@, [what |-> "start"])]

\* stopAdvertising(), also for disconnectFromDevice(): dispatch_sync() waits for
\* the blocks before it.
DpStopAdvertising ==
  /\ DpMay("stops") /\ dp.state = "Advertising" /\ dp.blocks = <<>>
  /\ dp.adding # {} => DpMay("stopEarly")
  /\ DpPosted(dp, "connected") => DpMay("stopRace")
  /\ dp' = [dp EXCEPT !.state = "Unconnected", !.peripheral = "idle", !.radio = "off"]

\* QLowEnergyService::writeCharacteristic()
DpWriteCharacteristic(s) ==
  /\ DpMay("local") /\ Contains(dp.services, s) /\ dp.acts < dp.scenario.acts
  /\ dp' = [dp EXCEPT !.acts = @ + 1,
                      !.blocks = Append(@, [what |-> "write", about |-> s,
                                            value |-> dp.acts + 1])]

\* The slots of the notifier's signals; _q_LEnotSupported() does nothing.
DpSlot(p, signal) ==
  CASE signal.what = "connected" -> [p EXCEPT !.state = "Connected"]
    [] signal.what = "disconnected" -> [p EXCEPT !.state = "Unconnected"]
    [] signal.what = "error" -> [p EXCEPT !.failed = TRUE]
    [] signal.what = "changed" -> [p EXCEPT !.copy[signal.about] = signal.value]
    [] signal.what = "enabled" -> [p EXCEPT !.enabled[signal.about] = signal.value]
    [] signal.what = "unsupported" -> p
DpDeliver ==
  /\ dp.posted # <<>>
  /\ dp' = DpSlot([dp EXCEPT !.posted = Tail(@)], Head(dp.posted))

-----------------------------------------------------------------------------
(* Updates *)

\* sendUpdateRequests(): Core Bluetooth takes the first so many, to whoever is
\* subscribed, and will say when it takes more.  Without Bluetooth it takes none.
DpSend(p, update) ==
  [p EXCEPT !.sent[update.about] =
     [c \in DpCentrals |->
        IF <<c, update.about>> \in p.subscribed THEN update.value ELSE @[c]]]
DpSendUpdateRequests(p, taken) ==
  LET n == Len(p.updateQueue)
  IN  [FoldLeft(DpSend, p, SubSeq(p.updateQueue, 1, taken)) EXCEPT
         !.updateQueue = SubSeq(@, taken + 1, n),
         !.full = p.power = "on" /\ taken < n]
DpTaken(p) ==
  IF p.power # "on" THEN {0}
  ELSE IF DpMay("full") THEN 0..Len(p.updateQueue) ELSE {Len(p.updateQueue)}

DpChange(p, s, value) ==
  DpEmit([p EXCEPT !.charValues[s] = value,
                   !.updateQueue = Append(@, [about |-> s, value |-> value])],
         "changed", s, value)

\* peripheralManagerIsReadyToUpdateSubscribers()
DpReady ==
  /\ dp.full
  /\ \E taken \in DpTaken(dp) \ {0} : dp' = DpSendUpdateRequests(dp, taken)

\* What the application sent to the queue: startAdvertising() makes a new
\* CBPeripheralManager, the callbacks of the one before are ignored; write().
DpStart(p) ==
  [p EXCEPT !.peripheral = "waitingForPowerOn", !.power = "unknown",
            !.adding = {}, !.published = {}, !.radio = "off",
            !.subscribed = {}, !.full = FALSE]
DpRunBlock ==
  /\ dp.blocks # <<>>
  /\ LET block == Head(dp.blocks)
         p == [dp EXCEPT !.blocks = Tail(@)]
     IN  \/ block.what = "start" /\ dp' = DpStart(p)
         \/ /\ block.what = "write"
            /\ LET q == DpChange(p, block.about, block.value)
               IN  \E taken \in DpTaken(q) : dp' = DpSendUpdateRequests(q, taken)

-----------------------------------------------------------------------------
(* Power, services, advertising *)

\* addServicesToPeripheral()
DpAddNext(p) ==
  IF p.nextServiceToAdd < Len(p.services)
  THEN [p EXCEPT !.nextServiceToAdd = @ + 1,
                 !.adding = @ \cup {p.services[p.nextServiceToAdd + 1]}]
  ELSE p

\* peripheralManagerDidUpdateState()
DpPoweredOn(p) ==
  IF p.peripheral # "waitingForPowerOn" THEN p
  ELSE DpAddNext([p EXCEPT !.published = {}, !.nextServiceToAdd = 0,
                           !.peripheral = "advertising", !.nOfFailedAds = 0])
DpPoweredDown(p) ==
  LET q == [p EXCEPT !.connectedCentrals = {}]
  IN  CASE q.peripheral = "advertising" ->
             [q EXCEPT !.peripheral = "waitingForPowerOn"]
        [] q.peripheral = "connected" ->
             DpEmit([q EXCEPT !.peripheral = "idle"], "disconnected", "", 0)
        [] OTHER -> q
DpUnsupported(p) ==
  DpEmit([DpPoweredDown(p) EXCEPT !.peripheral = "idle"], "unsupported", "", 0)
\* Without Bluetooth there are no services, links and updates.
DpSwitch(p, power) ==
  IF power = "on" THEN [p EXCEPT !.power = power]
  ELSE [p EXCEPT !.power = power, !.adding = {}, !.published = {}, !.radio = "off",
                 !.linked = {}, !.subscribed = {}, !.full = FALSE]
DpDidUpdateState ==
  /\ dp.power # "none"
  /\ \/ dp.power \in {"unknown", "off"} /\ dp' = DpPoweredOn(DpSwitch(dp, "on"))
     \/ /\ dp.power \in {"unknown", "on"} /\ DpMay("powerOff")
        /\ dp.acts < dp.scenario.acts
        /\ dp' = DpPoweredDown(DpSwitch([dp EXCEPT !.acts = @ + 1], "off"))
     \/ /\ dp.power = "unknown" /\ DpMay("unsupported")
        /\ dp' = DpUnsupported(DpSwitch(dp, "unsupported"))

\* didAddService
DpServiceRefused(p) ==
  IF p.nOfFailedAds + 1 = Len(p.services)
  THEN DpEmit([p EXCEPT !.nOfFailedAds = @ + 1, !.peripheral = "idle"], "error", "", 0)
  ELSE [p EXCEPT !.nOfFailedAds = @ + 1]
DpServiceDone(p) ==
  IF p.nextServiceToAdd = Len(p.services)
  THEN [p EXCEPT !.nOfFailedAds = 0, !.radio = "starting"]
  ELSE DpAddNext(p)
DpDidAddService ==
  \E s \in dp.adding, ok \in DpOutcome("addFails") :
    LET p == [dp EXCEPT !.adding = @ \ {s}]
        refused == DpServiceRefused(p)
    IN  dp' = IF ok THEN DpServiceDone([p EXCEPT !.published = @ \cup {s}])
              ELSE IF refused.nOfFailedAds = Len(p.services) THEN refused
              ELSE DpServiceDone(refused)

\* peripheralManagerDidStartAdvertising
DpDidStartAdvertising ==
  /\ dp.radio = "starting"
  /\ \E ok \in DpOutcome("advFails") :
       dp' = IF ok THEN [dp EXCEPT !.radio = "on"]
             ELSE DpEmit([dp EXCEPT !.radio = "off", !.peripheral = "idle"],
                         "error", "", 0)

-----------------------------------------------------------------------------
(* Centrals *)

DpLink(c) ==
  /\ dp.radio = "on" /\ c \notin dp.linked /\ dp.links < dp.scenario.links
  /\ \A s \in DpServices : <<c, s>> \notin dp.subscribed
  /\ dp' = [dp EXCEPT !.linked = @ \cup {c}, !.links = @ + 1]
DpUnlink(c) ==
  /\ c \in dp.linked
  /\ dp' = [dp EXCEPT !.linked = @ \ {c}]

\* A central does something with a service.
DpActs(c, s) ==
  /\ c \in dp.linked /\ s \in dp.published
  /\ dp.peripheral = "idle" \/ dp.adding # {} \/ dp.radio = "starting" => DpMay("late")

\* addConnectedCentral(), removeConnectedCentral()
DpAddConnectedCentral(p, c) ==
  LET q == [p EXCEPT !.connectedCentrals = @ \cup {c}]
  IN  IF p.peripheral = "advertising"
      THEN DpEmit([q EXCEPT !.peripheral = "connected", !.radio = "off"],
                  "connected", "", 0)
      ELSE q
DpRemoveConnectedCentral(p, c) ==
  LET q == [p EXCEPT !.connectedCentrals = @ \ {c}]
  IN  IF p.peripheral = "connected" /\ q.connectedCentrals = {}
      THEN DpEmit([q EXCEPT !.peripheral = "idle"], "disconnected", "", 0)
      ELSE q

\* didSubscribeToCharacteristic
DpDidSubscribe(c, s) ==
  /\ DpActs(c, s) /\ <<c, s>> \notin dp.subscribed /\ dp.acts < dp.scenario.acts
  /\ (\E t \in DpServices \ {s}, d \in DpCentrals : <<d, t>> \in dp.subscribed)
       => DpMay("several")
  /\ dp' = DpEmit(DpAddConnectedCentral(
                    [dp EXCEPT !.acts = @ + 1,
                               !.subscribed = @ \cup {<<c, s>>},
                               !.sent[s][c] = dp.charValues[s]], c),
                  "enabled", s, TRUE)

\* didUnsubscribeFromCharacteristic, also when the central has gone.
DpUnsubscribe(p, c, s) ==
  LET q == DpRemoveConnectedCentral(p, c)
  IN  IF q.connectedCentrals = {} THEN DpEmit(q, "enabled", s, FALSE) ELSE q
DpDidUnsubscribe ==
  \E c \in DpCentrals, s \in DpServices :
    /\ <<c, s>> \in dp.subscribed
    /\ c \in dp.linked => DpMay("unsubscribes")
    /\ dp' = DpUnsubscribe([dp EXCEPT !.subscribed = @ \ {<<c, s>>}], c, s)

\* A central without a subscription: its leaving will not be told.
DpSubscriber(c) == \E s \in DpServices : <<c, s>> \in dp.subscribed

\* didReceiveReadRequest
DpDidReceiveReadRequest(c, s) ==
  /\ DpActs(c, s) /\ (DpMay("readers") \/ DpSubscriber(c))
  /\ dp' = DpAddConnectedCentral(dp, c)

\* didReceiveWriteRequests: all of them or none, and no more than one update each.
DpDidReceiveWriteRequests(c, written) ==
  /\ DpMay("writes") /\ dp.acts < dp.scenario.acts
  /\ written # {} /\ \A s \in written : DpActs(c, s)
  /\ DpMay("readers") \/ DpSubscriber(c)
  /\ LET handles == SelectSeq(dp.services, LAMBDA s : s \in written)
         p == DpAddConnectedCentral([dp EXCEPT !.acts = @ + 1], c)
         q == FoldLeft(LAMBDA r, s : DpChange(r, s, dp.acts + 1), p, handles)
     IN  \E taken \in DpTaken(q) : dp' = DpSendUpdateRequests(q, taken)

-----------------------------------------------------------------------------
DpNext ==
  \/ DpStartAdvertising \/ DpStopAdvertising \/ DpDeliver
  \/ DpRunBlock \/ DpReady \/ DpDidUpdateState
  \/ DpDidAddService \/ DpDidStartAdvertising \/ DpDidUnsubscribe
  \/ \E s \in DpServices : DpAddService(s) \/ DpWriteCharacteristic(s)
  \/ \E c \in DpCentrals :
       \/ DpLink(c) \/ DpUnlink(c)
       \/ \E s \in DpServices : DpDidSubscribe(c, s) \/ DpDidReceiveReadRequest(c, s)
       \/ \E written \in SUBSET DpServices : DpDidReceiveWriteRequests(c, written)

\* The event loop and the queue run, and Core Bluetooth answers.
DpFairness ==
  /\ WF_dp(DpDeliver) /\ WF_dp(DpRunBlock) /\ WF_dp(DpReady)
  /\ WF_dp(DpDidAddService) /\ WF_dp(DpDidStartAdvertising)
  /\ WF_dp(dp.power = "unknown" /\ DpDidUpdateState)
DpSpec == DpInit /\ [][DpNext]_dp /\ DpFairness

-----------------------------------------------------------------------------
(* What must hold *)

\* The state has its shape: services are added one at a time, by a peripheral that
\* advertises; updates wait for a "ready" only while there are any.
DpTypeOK ==
  /\ dp.scenario \in DpScenarios
  /\ dp.state \in {"Unconnected", "Advertising", "Connected"}
  /\ dp.peripheral \in {"idle", "waitingForPowerOn", "advertising", "connected"}
  /\ dp.nextServiceToAdd \in 0..Len(dp.services) /\ Cardinality(dp.adding) <= 1
  /\ {dp.connectedCentrals, dp.linked} \subseteq SUBSET DpCentrals
  /\ dp.power \in {"none", "unknown", "on", "off", "unsupported"}
  /\ dp.full => dp.updateQueue # <<>> /\ dp.power = "on"

\* With nothing on its way between the threads the controller and the manager are
\* in the same state, or the application has been told of an error.
DpQuiet == dp.posted = <<>> /\ dp.blocks = <<>>
DpStatesAgree ==
  DpQuiet =>
    /\ dp.state = "Connected" <=> dp.peripheral = "connected"
    /\ dp.state = "Advertising" =>
         dp.failed \/ dp.peripheral \in {"waitingForPowerOn", "advertising"}
    /\ dp.state = "Unconnected" => dp.peripheral = "idle"

\* A session for Qt is one for some central: a connected peripheral has one that is
\* there, and one that is not connected has none, by the set it keeps of them and
\* by Core Bluetooth's subscriptions.
DpSessionReal ==
  /\ dp.peripheral = "connected" =>
       \E c \in dp.connectedCentrals : c \in dp.linked \/ DpSubscriber(c)
  /\ dp.peripheral # "connected" => dp.connectedCentrals = {} /\ dp.subscribed = {}

\* With nothing on its way the two copies of a value agree, whichever thread
\* changed it last, and while Bluetooth stays on a characteristic is enabled for
\* Qt when a central has subscribed to it.
DpCopiesAgree ==
  DpQuiet => /\ dp.copy = dp.charValues
             /\ DpMay("powerOff") \/ dp.enabled =
                  [s \in DpServices |-> \E c \in DpCentrals : <<c, s>> \in dp.subscribed]

\* A subscribed central has been sent the value, or it is the last that waits for
\* Core Bluetooth to be ready: no update is overtaken and none is forgotten.
DpUpdatesSent ==
  \A c \in DpCentrals, s \in DpServices :
    <<c, s>> \in dp.subscribed =>
      LET waiting == SelectSeq(dp.updateQueue, LAMBDA u : u.about = s)
      IN  IF waiting = <<>> \/ ~dp.full THEN dp.sent[s][c] = dp.charValues[s]
          ELSE Last(waiting).value = dp.charValues[s]

\* The radio is silent when the peripheral is idle, and advertises nothing but
\* services that were all tried.
DpSilent ==
  /\ dp.peripheral = "idle" => dp.radio = "off" /\ dp.adding = {}
  /\ dp.radio # "off" => dp.nextServiceToAdd = Len(dp.services)

\* Advertising begins, with whatever services could be added, and every update
\* gets through.
DpAdvertisingBegins == []<>~(dp.peripheral = "advertising" /\ dp.radio # "on")
DpUpdatesEnd == []<>~dp.full
=============================================================================
