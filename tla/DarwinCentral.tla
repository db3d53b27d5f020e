----------------------------- MODULE DarwinCentral -----------------------------
(***************************************************************************)
(* The central of macOS and iOS: QLowEnergyControllerPrivateDarwin         *)
(* (qlowenergycontroller_darwin.mm) in the thread of the application, and  *)
(* DarwinBTCentralManager (darwin/btcentralmanager.mm) on the queue of     *)
(* Core Bluetooth.  The controller posts blocks to the queue, the manager  *)
(* emits signals that are slots of the controller when its event loop runs *)
(* them: neither knows what the other is about to hear.                    *)
(***************************************************************************)
EXTENDS LowEnergyApi, SequencesExt

CONSTANTS
  DcScenarios  \* what the peer, Core Bluetooth and the application may do

(***************************************************************************)
(* A scenario bounds calls and sessions, and its set "may" has:            *)
(* "errors"         an operation may fail                                  *)
(* "silent"         an operation with a watchdog may stay unanswered       *)
(* "late"           ... and be answered after the watchdog                 *)
(* "denied"         a read or a write may fail for lack of authorization   *)
(* "discoverFails"  the discovery of the services may fail                 *)
(* "linkLoss"       the link may be lost while nothing is on its way       *)
(* "lossRace"       ... and while blocks or signals are                    *)
(* "connectFails"   no such device, or no connection to it                 *)
(* "cancelFails"    a disconnection may be reported with an error          *)
(* "modified"       the peer may change its services                       *)
(* "modifiedRace"   ... while a block is on its way, before or after       *)
(* "off"            Bluetooth may be off when the manager first looks      *)
(* "notifies"       the peer notifies of characteristics                   *)
(* "updates"        ... also of one the application is reading             *)
(* "notifying"      the peer has notifications enabled already             *)
(* "config"         descriptors are client characteristic configurations   *)
(* "descRead"       the application reads descriptors                      *)
(* "closeEarly"     disconnectFromDevice() while connecting                *)
(* "closeInDiscovery"  ... and while the services are discovered           *)
(* "closeRace"      ... and with connected() on its way, before or after   *)
(* "closeFirst"     ... and before the state of Bluetooth is known         *)
(* "hasty"          connectToDevice() before the last connection is over   *)
(***************************************************************************)
ASSUME DcAssumption ==
  /\ 0 \notin LeAttributes  \* no handle
  /\ \A c \in DcScenarios :
       /\ c.sessions \in 1..LeMaxSessions /\ c.calls \in 0..LeMaxCalls
       /\ c.may \subseteq
            {"errors", "silent", "late", "denied", "discoverFails", "linkLoss",
             "lossRace", "connectFails", "cancelFails", "modified", "off",
             "notifies", "updates", "notifying", "config", "descRead", "closeEarly",
             "closeInDiscovery", "closeRace", "closeFirst",
             "modifiedRace", "hasty"}

VARIABLE
  dc  \* the controller; the blocks and the signals on their way; the manager;
      \* and what Core Bluetooth knows

DcMay(what) == what \in dc.scenario.may

-----------------------------------------------------------------------------
DcInit ==
  \E scenario \in DcScenarios :
    dc = [scenario |-> scenario,
          \* QLowEnergyControllerPrivateDarwin
          state |-> "Unconnected", services |-> NoServices, calls |-> <<>>,
          session |-> 0,
          \* between the threads
          blocks |-> <<>>, signals |-> <<>>,
          \* DarwinBTCentralManager; "serving" is the call of the request that
          \* is pending
          manager |-> FALSE, attached |-> TRUE, managerState |-> "Idle",
          disconnectPending |-> FALSE, peripheral |-> FALSE,
          requestPending |-> FALSE, requests |-> <<>>, currentRead |-> 0,
          serving |-> 0, details |-> [s \in LeServices |-> "no"],
          mapped |-> {}, values |-> {}, watchdogs |-> {},
          \* Core Bluetooth: the adapter, the link, a disconnection it owes,
          \* the operations it has to answer
          adapter |-> "unknown", link |-> "down", owed |-> FALSE, asked |-> <<>>,
          modified |-> FALSE]

\* dispatch_async() and a signal of LECBManagerNotifier.
DcPost(d, what, about, op) ==
  [d EXCEPT !.blocks = Append(@, [what |-> what, about |-> about, op |-> op])]
DcEmit(d, what, about, op) ==
  IF d.attached
  THEN [d EXCEPT !.signals = Append(@, [what |-> what, about |-> about, op |-> op])]
  ELSE d
DcOnWay(d, what) == \E i \in DOMAIN d.signals : d.signals[i].what = what
DcPosted(d, what) == \E i \in DOMAIN d.blocks : d.blocks[i].what = what

\* An operation of the peripheral: what it is about, and the call it is for.
DcAsk(d, about, kind, op) ==
  [d EXCEPT !.asked = Append(@, [about |-> about, kind |-> kind, op |-> op])]
DcWatchAfter(d, about, kind) ==
  [d EXCEPT !.watchdogs = @ \cup {<<about, kind>>}]
DcWatched(d, about, kind) == <<about, kind>> \in d.watchdogs
DcUnwatch(d, about, kind) == [d EXCEPT !.watchdogs = @ \ {<<about, kind>>}]
DcAskWatched(d, step) ==
  DcAsk(DcWatchAfter(d, step[1], step[2]), step[1], step[2], 0)

DcReset(d) ==
  [d EXCEPT !.requestPending = FALSE, !.values = {}, !.requests = <<>>,
            !.details = [s \in LeServices |-> "no"], !.mapped = {},
            !.currentRead = 0, !.watchdogs = {}]

-----------------------------------------------------------------------------
(* The manager: connections *)

\* retrievePeripheralAndConnect(), connectToPeripheral()
DcRetrieveAndConnect(d, found) ==
  IF d.link = "up" THEN DcEmit(d, "connected", 0, 0)
  ELSE IF ~found THEN DcEmit(d, "error", 0, 0)
  ELSE [d EXCEPT !.peripheral = TRUE, !.managerState = "Connecting", !.link = "asked"]

DcConnectBlock(d, found) ==
  LET e == [d EXCEPT !.disconnectPending = FALSE]
  IN  IF ~d.manager THEN [e EXCEPT !.manager = TRUE, !.managerState = "Updating"]
      ELSE IF d.managerState = "Updating" THEN e
      ELSE DcRetrieveAndConnect(e, found)

\* cancelPeripheralConnection(): Core Bluetooth owes an answer unless there was
\* nothing to cancel.
DcDisconnectBlock(d) ==
  LET e == DcReset(d)
  IN  IF d.managerState = "Updating"
      THEN DcEmit([e EXCEPT !.disconnectPending = TRUE], "disconnected", 0, 0)
      ELSE [e EXCEPT !.disconnectPending = FALSE,
                     !.managerState = IF d.link = "up" THEN "Disconnecting" ELSE "Idle",
                     !.owed = d.link # "down", !.asked = <<>>]

\* handleReadWriteError(): the manager leaves the controller for good.
DcDetach(d) ==
  LET e == [DcEmit(d, "error", 0, 0) EXCEPT !.attached = FALSE]
  IN  DcDisconnectBlock(e)

-----------------------------------------------------------------------------
(* The manager: services and their details *)

\* The discovery of the services: those of the peripheral, then the included
\* services of each.
DcServicePath ==
  << <<0, "services">> >> \o
  [i \in 1..Cardinality(LeServices) |-> <<SetToSeq(LeServices)[i], "included">>]
\* The details of a service: its characteristics, the value of each, the
\* descriptors of each, the value of each descriptor.
DcDetailPath ==
  LET own(S, s) == SetToSeq({a \in S : LeHome[a] = s})
      each(q, kind) == [i \in DOMAIN q |-> <<q[i], kind>>]
      path(s, chars, descs) ==
        << <<s, "chars">> >> \o each(chars, "charRead") \o each(chars, "descs")
          \o each(descs, "descRead")
  IN  [s \in LeServices |-> path(s, own(LeAttributes \ LeDescriptors, s), own(LeDescriptors, s))]
DcStepAfter(path, step) ==
  LET i == SelectInSeq(path, LAMBDA x : x = step) + 1
  IN  IF i > Len(path) THEN <<0, "end">> ELSE path[i]

DcDiscoverBlock(d) ==
  DcAskWatched([d EXCEPT !.managerState = "Discovering"], Head(DcServicePath))

\* didDiscoverServices(), discoverIncludedServices(),
\* didDiscoverIncludedServicesForService()
DcServicesStep(d, step, ok) ==
  IF d.managerState # "Discovering" \/ ~DcWatched(d, step[1], step[2]) THEN d
  ELSE LET e == [DcUnwatch(d, step[1], step[2]) EXCEPT !.managerState = "Idle"]
           failed == step[2] = "services" /\ ~ok
           next == DcStepAfter(DcServicePath, step)
       IN  IF failed
           THEN DcEmit(DcEmit(e, "error", 0, 0), "noServices", 0, 0)
           ELSE IF next[2] = "end" THEN DcEmit(e, "servicesFound", 0, 0)
           ELSE DcAskWatched([e EXCEPT !.managerState = "Discovering"], next)

DcDetailsBlock(d, s, mode) ==
  IF d.details[s] # "no" THEN d
  ELSE DcAskWatched([d EXCEPT !.details[s] = mode], Head(DcDetailPath[s]))

\* serviceDetailsDiscoveryFinished(); with nothing discovered the service has
\* no characteristics.
DcDetailsFinished(d, s, found) ==
  LET on == {a \in LeDescriptors : LeHome[a] = s /\ found /\ "notifying" \in d.scenario.may}
      e == [d EXCEPT !.details[s] = "no", !.mapped = IF found THEN @ \cup {s} ELSE @]
      asked == IF on = {} THEN e ELSE DcAsk(e, CHOOSE a \in on : TRUE, "notify", 0)
  IN  DcEmit(asked, IF found THEN "details" ELSE "noDetails", s, 0)

DcDetailsStep_StopsOnError(d, step, s, ok) ==
  LET e == DcUnwatch(d, step[1], step[2])
      next == DcStepAfter(DcDetailPath[s], step)
  IN  IF ~ok THEN e
      ELSE IF next[2] = "end" \/ d.details[s] = "skip" THEN DcDetailsFinished(e, s, TRUE)
      ELSE DcAskWatched(e, next)
\* didDiscoverCharacteristicsForService() and the callbacks after it, the
\* watchdog being theirs: an error only matters to the first.
DcDetailsStep(d, step, s, ok) ==
  LET e == DcUnwatch(d, step[1], step[2])
      next == DcStepAfter(DcDetailPath[s], step)
  IN  IF step[2] = "chars" /\ ~ok
      THEN DcDetailsFinished(DcEmit(e, "invalid", s, 0), s, FALSE)
      ELSE IF next[2] = "end" \/ d.details[s] = "skip" THEN DcDetailsFinished(e, s, TRUE)
      ELSE DcAskWatched(e, next)

-----------------------------------------------------------------------------
(* The manager: requests *)

\* performNextReadRequest(), performNextWriteRequest()
DcStartRequest(d, r) ==
  LET e == [d EXCEPT !.requests = Tail(@), !.requestPending = TRUE, !.serving = r.op]
      asked == DcAsk(e, r.about, r.what, r.op)
  IN  IF r.what \in {"charRead", "descRead"}
      THEN [asked EXCEPT !.currentRead = r.about]
      ELSE IF r.what = "charWrite"
      THEN [DcWatchAfter(asked, r.about, "charWrite") EXCEPT !.values = @ \cup {r.about}]
      ELSE [asked EXCEPT !.values = @ \cup {r.about}]

\* performNextRequest(): writes without a response are sent on the way.
DcPerformNext(d) ==
  LET i == SelectInSeq(d.requests, LAMBDA r : r.what # "charSend")
  IN  IF d.requestPending THEN d
      ELSE IF i = 0 THEN [d EXCEPT !.requests = <<>>]
      ELSE DcStartRequest([d EXCEPT !.requests = SubSeq(@, i, Len(@))], d.requests[i])

\* readCharacteristic(), write(), readDescriptor(), setNotifyValue()
DcRequestBlock(d, r) ==
  IF LeHome[r.about] \notin d.mapped THEN DcEmit(d, "callError", LeHome[r.about], r.op)
  ELSE DcPerformNext([d EXCEPT !.requests = Append(@, r)])

\* The answer to the request that is pending: signal, and next request.
DcAnswered(d, s, result) ==
  LET e == [d EXCEPT !.requestPending = FALSE]
  IN  CASE result = "ok" -> DcPerformNext(DcEmit(e, "callDone", s, d.serving))
        [] result = "error" -> DcPerformNext(DcEmit(e, "callError", s, d.serving))
        [] OTHER -> DcDetach(DcEmit(e, "callError", s, d.serving))

DcReadDone(d, a, result) ==
  IF LeHome[a] \in d.mapped /\ d.currentRead = a
  THEN DcAnswered([d EXCEPT !.currentRead = 0], LeHome[a], result) ELSE d

\* didUpdateValueForCharacteristic(): an answer or a notification, for the
\* discovery of the details or for the application.
DcCharValue(d, a, result) ==
  LET s == LeHome[a]
  IN  IF d.details[s] = "no" THEN DcReadDone(DcUnwatch(d, a, "charRead"), a, result)
      ELSE IF DcWatched(d, a, "charRead")
      THEN DcDetailsStep(d, <<a, "charRead">>, s, result = "ok") ELSE d

\* didUpdateValueForDescriptor()
DcDescValue(d, a, result) ==
  LET s == LeHome[a]
  IN  IF ~DcWatched(d, a, "descRead") THEN d
      ELSE IF d.details[s] # "no"
      THEN DcDetailsStep(d, <<a, "descRead">>, s, result = "ok")
      ELSE DcReadDone(DcUnwatch(d, a, "descRead"), a, result)

\* didWriteValueForCharacteristic(), didWriteValueForDescriptor(),
\* didUpdateNotificationStateForCharacteristic()
DcWritten(d, a, kind, result) ==
  LET e == [DcUnwatch(d, a, kind) EXCEPT !.values = @ \ {a}]
  IN  IF kind = "charWrite" /\ ~DcWatched(d, a, kind) THEN d
      ELSE IF kind = "notify" /\ a \notin d.values /\ result = "ok"
      THEN DcPerformNext([e EXCEPT !.requestPending = FALSE])
      ELSE DcAnswered(e, LeHome[a],
             IF kind = "notify" /\ result = "denied" THEN "error" ELSE result)

\* A callback of the peripheral, or the timer that stands in for it (timeout()).
DcCallback(d, about, kind, result) ==
  IF ~d.attached THEN d
  ELSE CASE kind \in {"services", "included"} ->
              DcServicesStep(d, <<about, kind>>, result = "ok")
         [] kind = "chars" ->
              IF DcWatched(d, about, kind)
              THEN DcDetailsStep(d, <<about, kind>>, about, result = "ok") ELSE d
         [] kind = "descs" ->
              IF DcWatched(d, about, kind)
              THEN DcDetailsStep(d, <<about, kind>>, LeHome[about], result = "ok") ELSE d
         [] kind = "charRead" -> DcCharValue(d, about, result)
         [] kind = "descRead" -> DcDescValue(d, about, result)
         [] OTHER -> DcWritten(d, about, kind, result)

-----------------------------------------------------------------------------
(* The slots of the controller *)

DcInvalidate(d) ==
  [d EXCEPT !.services = NoServices, !.calls = Dropped(@, DOMAIN @)]

\* Calls of the API; each one posts its block.
DcDiscoverServices(d) == DcPost([d EXCEPT !.state = "Discovering"], "discover", 0, 0)

DcServicesWereModified_NotInvalidated(d) ==
  IF d.state \notin {"Discovering", "Discovered"} THEN d
  ELSE DcDiscoverServices(d)
DcServicesWereModified(d) ==
  IF d.state \notin {"Discovering", "Discovered"} THEN d
  ELSE DcDiscoverServices(IF d.state = "Discovered" THEN DcInvalidate(d) ELSE d)

DcError(d) ==
  [d EXCEPT !.state = CASE @ = "Connecting" -> "Unconnected"
                        [] @ = "Discovering" -> "Connected"
                        [] OTHER -> @]

DcListed(d, s) == d.services[s] # "none"
DcAnswerCall(d, signal, result) ==
  IF DcListed(d, signal.about)
  THEN [d EXCEPT !.calls = Answered(@, signal.op, result)] ELSE d

DcHandle(d, signal) ==
  LET s == signal.about
  IN  CASE signal.what = "connected" -> [d EXCEPT !.state = "Connected"]
        [] signal.what = "disconnected" ->
             [DcInvalidate(d) EXCEPT !.state = "Unconnected"]
        [] signal.what = "servicesFound" ->
             [d EXCEPT !.state = "Discovered",
                       !.services = [x \in LeServices |->
                          IF d.services[x] = "none" THEN "Remote" ELSE d.services[x]]]
        [] signal.what = "noServices" -> [d EXCEPT !.state = "Discovered"]
        [] signal.what = "details" ->
             [d EXCEPT !.services[s] = IF @ = "none" THEN @ ELSE "Discovered"]
        [] signal.what = "noDetails" ->
             [d EXCEPT !.services[s] = IF @ = "none" THEN @ ELSE "Empty"]
        [] signal.what = "invalid" ->
             [d EXCEPT !.services[s] = IF @ = "none" THEN @ ELSE "Invalid"]
        [] signal.what = "modified" -> DcServicesWereModified(d)
        [] signal.what = "error" -> DcError(d)
        [] signal.what = "unsupported" -> d
        [] signal.what = "callDone" -> DcAnswerCall(d, signal, "ok")
        [] signal.what = "callError" -> DcAnswerCall(d, signal, "error")

-----------------------------------------------------------------------------
(* Steps of the application and of its event loop *)

DcQuiet(d) == d.blocks = <<>> /\ d.signals = <<>>

DcConnect ==
  /\ MayConnect(dc.state) /\ dc.session < dc.scenario.sessions
  /\ DcMay("hasty") \/ (DcQuiet(dc) /\ ~dc.owed)
  /\ dc' = DcPost([dc EXCEPT !.state = "Connecting", !.session = @ + 1], "connect", 0, 0)

DcDisconnect ==
  /\ MayDisconnect(dc.state) /\ dc.state # "Closing"
  /\ dc.state = "Connecting" =>
       /\ DcMay("closeEarly")
       /\ DcMay("closeRace") \/ ~DcOnWay(dc, "connected")
       /\ DcMay("closeFirst") \/ dc.adapter = "on"
  /\ dc.state = "Discovering" => DcMay("closeInDiscovery")
  /\ dc' = DcPost([DcInvalidate(dc) EXCEPT
                     !.state = IF @ = "Connecting" THEN "Unconnected" ELSE "Closing"],
                  "disconnect", 0, 0)

\* The calls a scenario without races makes: nothing is about to undo them.
DcMayCall ==
  /\ DcMay("lossRace") \/ ~DcOnWay(dc, "disconnected")
  /\ DcMay("modifiedRace") \/ ~DcOnWay(dc, "modified")
DcDiscover ==
  /\ MayDiscover(dc.state) /\ DcMayCall
  /\ dc' = DcDiscoverServices(dc)

DcDetails(s, mode) ==
  /\ dc.state = "Discovered" /\ MayDiscoverDetails(dc.services[s]) /\ DcMayCall
  /\ dc' = DcPost([dc EXCEPT !.services[s] = "Discovering"], mode, s, 0)

DcRequestOf(a) ==
  IF a \in LeDescriptors
  THEN {IF DcMay("config") THEN "notify" ELSE "descWrite"} \cup
       (IF DcMay("descRead") THEN {"descRead"} ELSE {})
  ELSE {"charRead", "charWrite", "charSend"}
DcAccess(a, kind) ==
  /\ MayAccess(dc.services[LeHome[a]]) /\ DcMayCall
  /\ Len(dc.calls) < dc.scenario.calls
  /\ kind \in DcRequestOf(a)
  /\ dc' = DcPost([dc EXCEPT !.calls = Append(@, IF kind = "charSend" THEN "ok" ELSE "open")],
                  kind, a, Len(dc.calls) + 1)

DcSlot ==
  /\ dc.signals # <<>>
  /\ dc' = DcHandle([dc EXCEPT !.signals = Tail(@)], Head(dc.signals))

-----------------------------------------------------------------------------
(* Steps of the queue: blocks, callbacks of Core Bluetooth, watchdogs *)

DcBlock ==
  /\ dc.blocks # <<>>
  /\ LET b == Head(dc.blocks)
         d == [dc EXCEPT !.blocks = Tail(@)]
     IN  \/ /\ b.what = "connect"
            /\ \E found \in {TRUE} \cup IF DcMay("connectFails") THEN {dc.peripheral} ELSE {} :
                 dc' = DcConnectBlock(d, found)
         \/ /\ b.what = "disconnect" /\ dc' = DcDisconnectBlock(d)
         \/ /\ b.what = "discover" /\ dc' = DcDiscoverBlock(d)
         \/ /\ b.what \in {"full", "skip"} /\ dc' = DcDetailsBlock(d, b.about, b.what)
         \/ /\ b.what \notin {"connect", "disconnect", "discover", "full", "skip"}
            /\ dc' = DcRequestBlock(d, b)

\* centralManagerDidUpdateState()
DcUpdateState ==
  /\ dc.manager /\ dc.adapter = "unknown"
  /\ \E adapter \in {"on"} \cup IF DcMay("off") THEN {"off"} ELSE {},
        found \in {TRUE} \cup IF DcMay("connectFails") THEN {FALSE} ELSE {} :
       LET d == [dc EXCEPT !.adapter = adapter]
           idle == [d EXCEPT !.managerState = "Idle"]
       IN  dc' = IF adapter = "off" THEN DcEmit(idle, "unsupported", 0, 0)
                 ELSE IF dc.disconnectPending THEN d
                 ELSE DcRetrieveAndConnect(idle, found)

\* didConnectPeripheral(), didFailToConnectPeripheral()
DcConnectAnswer ==
  /\ dc.link = "asked" /\ ~dc.owed
  /\ DcPosted(dc, "disconnect") => DcMay("closeRace")
  /\ \E up \in {TRUE} \cup IF DcMay("connectFails") THEN {FALSE} ELSE {} :
       LET d == [dc EXCEPT !.link = IF up THEN "up" ELSE "down"]
       IN  dc' = IF d.managerState # "Connecting" THEN d
                 ELSE DcEmit([d EXCEPT !.managerState = "Idle"],
                             IF up THEN "connected" ELSE "error", 0, 0)

\* didDisconnectPeripheral()
DcDisconnected ==
  /\ \/ dc.owed
     \/ dc.link = "up" /\ DcMay("linkLoss") /\ (DcMay("lossRace") \/ DcQuiet(dc))
  /\ \E failed \in {~dc.owed} \cup IF DcMay("cancelFails") THEN {TRUE} ELSE {} :
       LET d == [DcReset(dc) EXCEPT !.link = "down", !.owed = FALSE, !.asked = <<>>,
                                    !.managerState = "Idle"]
       IN  dc' = DcEmit(d, IF failed /\ dc.managerState = "Disconnecting"
                           THEN "error" ELSE "disconnected", 0, 0)
\* "Unfortunately, didDisconnect callback is not always called."
DcCancelUnanswered ==
  /\ dc.owed /\ dc.link = "asked"
  /\ dc' = [dc EXCEPT !.owed = FALSE, !.link = "down"]

\* didModifyServices(), once
DcModified ==
  /\ DcMay("modified") /\ dc.link = "up" /\ ~dc.modified
  /\ dc.blocks = <<>> \/ DcMay("modifiedRace")
  /\ dc.managerState = "Discovering" \/ \E s \in LeServices : DcListed(dc, s)
  /\ dc' = DcEmit([DcReset(dc) EXCEPT !.managerState = "Idle", !.modified = TRUE],
                  "modified", 0, 0)

DcResults(kind) ==
  {"ok"} \cup
  (IF DcMay("errors") /\ kind # "services" THEN {"error"} ELSE {}) \cup
  (IF DcMay("discoverFails") /\ kind = "services" THEN {"error"} ELSE {}) \cup
  (IF DcMay("denied") /\ kind \in {"charRead", "charWrite", "descWrite"} THEN {"denied"} ELSE {})

\* The operations of a link are answered in their order.
DcAnswer ==
  /\ dc.link = "up" /\ dc.asked # <<>>
  /\ LET o == Head(dc.asked)
     IN  \E result \in DcResults(o.kind) :
           dc' = DcCallback([dc EXCEPT !.asked = Tail(@)], o.about, o.kind, result)

\* The peer notifies of a new value.
DcUpdate(a) ==
  /\ DcMay("notifies") /\ dc.link = "up"
  /\ dc.mapped # {} \/ dc.watchdogs # {}
  /\ dc.currentRead = a => DcMay("updates")
  /\ dc' = DcCallback(dc, a, "charRead", "ok")

\* A watchdog: its operation is not answered in time, or never.
DcTimeout(about, kind) ==
  /\ DcMay("silent") /\ DcWatched(dc, about, kind)
  /\ kind = "services" => DcMay("discoverFails")
  /\ LET lost(o) == o.about = about /\ o.kind = kind /\ ~DcMay("late")
         d == [dc EXCEPT !.asked = Kept(@, {i \in DOMAIN @ : ~lost(@[i])})]
     IN  dc' = DcCallback(d, about, kind, "error")

DcNext ==
  \/ DcConnect \/ DcDisconnect \/ DcDiscover \/ DcSlot \/ DcBlock
  \/ \E s \in LeServices, mode \in {"full", "skip"} : DcDetails(s, mode)
  \/ \E a \in LeAttributes :
       \E kind \in {"charRead", "charWrite", "charSend", "descRead", "descWrite", "notify"} :
         DcAccess(a, kind)
  \/ DcUpdateState \/ DcConnectAnswer \/ DcDisconnected \/ DcCancelUnanswered
  \/ DcModified \/ DcAnswer \/ \E a \in LeAttributes \ LeDescriptors : DcUpdate(a)
  \/ \E w \in dc.watchdogs : DcTimeout(w[1], w[2])

\* Both threads run, Core Bluetooth answers what it is asked.
DcFairness ==
  /\ WF_dc(DcSlot) /\ WF_dc(DcBlock) /\ WF_dc(DcUpdateState) /\ WF_dc(DcConnectAnswer)
  /\ WF_dc(dc.owed /\ (DcDisconnected \/ DcCancelUnanswered)) /\ WF_dc(DcAnswer)

DcSpec == DcInit /\ [][DcNext]_dc /\ DcFairness

-----------------------------------------------------------------------------
(* Properties *)

DcKinds ==
  {"services", "included", "chars", "charRead", "descs", "descRead", "charWrite",
   "descWrite", "notify"}
DcSignals ==
  {"connected", "disconnected", "servicesFound", "noServices", "details", "noDetails",
   "invalid", "modified", "error", "unsupported", "callDone", "callError"}

\* Type correctness; each watchdog is that of a discovery or of a request under
\* way.
DcTypeOK ==
  /\ dc.state \in ControllerStates
  /\ dc.services \in [LeServices -> ServiceStates \cup {"Invalid", "Empty"}]
  /\ dc.calls \in Seq(LeResults) /\ dc.session \in 0..LeMaxSessions
  /\ \A i \in DOMAIN dc.signals : dc.signals[i].what \in DcSignals
  /\ \A i \in DOMAIN dc.asked : dc.asked[i].kind \in DcKinds
  /\ \A w \in dc.watchdogs : w[2] \in DcKinds
  /\ dc.managerState \in
       {"Idle", "Updating", "Connecting", "Discovering", "Disconnecting"}
  /\ dc.link \in {"down", "asked", "up"} /\ dc.adapter \in {"unknown", "on", "off"}
  /\ dc.mapped \subseteq LeServices /\ dc.values \subseteq LeAttributes
  /\ {dc.manager, dc.attached, dc.disconnectPending, dc.peripheral,
      dc.requestPending, dc.owed, dc.modified} \subseteq BOOLEAN
  /\ \A w \in dc.watchdogs :
       CASE w[2] \in {"services", "included"} -> dc.managerState = "Discovering"
         [] w[2] = "chars" -> dc.details[w[1]] # "no"
         [] w[2] = "charWrite" -> dc.requestPending
         [] OTHER -> dc.details[LeHome[w[1]]] = "full"

\* The queue of requests never comes to rest: while one is pending, Core
\* Bluetooth has an operation of it to answer or a watchdog runs; while none is,
\* nothing waits (performNextRequest(), reset()).
DcQueueMoves ==
  /\ dc.requestPending /\ dc.link = "up" =>
       \/ \E i \in DOMAIN dc.asked : dc.asked[i].op = dc.serving
       \/ \E w \in dc.watchdogs : w[2] = "charWrite"
  /\ ~dc.requestPending => dc.requests = <<>>

\* What the assertions demand: a connection or a discovery starts in an idle
\* manager, and the controller is discovering when the services are found.
DcAssertions ==
  /\ dc.blocks # <<>> /\ Head(dc.blocks).what = "connect" /\ dc.manager =>
       dc.managerState \in {"Idle", "Updating"}
  /\ dc.blocks # <<>> /\ Head(dc.blocks).what = "discover" => dc.managerState = "Idle"
  /\ dc.signals # <<>> /\ Head(dc.signals).what \in {"servicesFound", "noServices"} =>
       dc.state = "Discovering"

\* The characteristics of a service that is discovered are those the manager
\* knows, unless the controller is about to hear that they are gone: no handle
\* of an earlier discovery is used (_q_servicesWereModified(), reset()).
DcHandlesLive ==
  \A s \in LeServices :
    dc.services[s] = "Discovered" =>
      \/ s \in dc.mapped
      \/ DcOnWay(dc, "modified") \/ DcOnWay(dc, "disconnected") \/ DcOnWay(dc, "error")

\* The answer that a call gets is that of its own operation, which the manager
\* tells by the handle or not at all.
DcSaid(d, op) == \E i \in DOMAIN d.signals :
                   d.signals[i].what = "callDone" /\ d.signals[i].op = op
DcWaiting(d, op) == \E i \in DOMAIN d.asked : d.asked[i].op = op
DcOwnAnswer ==
  [][\A op \in Open(dc.calls) :
       DcSaid(dc, op)' /\ ~DcSaid(dc, op) => DcWaiting(dc, op) /\ ~DcWaiting(dc, op)']_dc

\* Each read and write is answered, or its service is gone.
DcCallsEnd ==
  \A op \in 1..LeMaxCalls : []<>(op \notin Open(dc.calls))

\* Connecting, discovering and closing end, whatever fails meanwhile.
DcSettles ==
  \A state \in {"Connecting", "Discovering", "Closing"} :
    []<>(dc.state # state)

\* The discovery of a service's details ends, whatever fails on the way.
DcDetailsEnd ==
  \A s \in LeServices :
    []<>(dc.services[s] # "Discovering")

=============================================================================
