---------------------------- MODULE ServiceDiscovery ----------------------------
(***************************************************************************)
(* QBluetoothServiceDiscoveryAgent: an optional search for devices, then   *)
(* one device after the other is asked for its services                    *)
(* (qbluetoothservicediscoveryagent.cpp).  How a device is asked is the    *)
(* platform's: an external sdpscanner or the cache of BlueZ (_bluez.cpp),  *)
(* two broadcasts of Android and a timer for the second (_android.cpp),    *)
(* IOBluetooth (_macos.mm, darwin/btsdpinquiry.mm), or a worker whose      *)
(* signals are queued (_winrt.cpp).                                        *)
(* What a scenario may do: stop() while a scanner or a worker runs         *)
(* ("stopAsking") or in a slot, a scan that finds one device ("oneDevice"),*)
(* a device of which WinRT refuses the attributes ("attributesFail").      *)
(***************************************************************************)
EXTENDS Integers, Sequences, FiniteSets, TLC

CONSTANTS SdDevices, SdScenarios

SdFlags == {"full", "minimal", "single", "scan", "unset", "deviceFails", "off", "scanFails",
            "stop", "stopAsking", "stopInSlot", "late", "lastFails", "oneBroadcast",
            "oneDevice", "attributesFail"}
SdPlatforms == {"bluez", "android", "darwin", "winrt"}
ASSUME SdAssumption ==
  /\ "none" \notin SdDevices
  /\ \A s \in SdScenarios :
       s.may \subseteq SdFlags /\ s.platform \in SdPlatforms /\ s.searches \in Nat

VARIABLE sd

SdMay(flag) == flag \in sd.scenario.may

\* next: a call of startServiceDiscovery() is on the stack.  agent: the device
\* search runs.  process: sdpscanner.  receiver, cache, timers: Android's, with the
\* broadcasts that are still to come in fetches.  query, inquiry, queries: the number
\* of the IOBluetooth query, isActive, and the ones that run.  worker, posted: WinRT's.
\* The rest is what the application sees of the search.
SdInit ==
  \E s \in SdScenarios :
    sd = [scenario |-> s, state |-> "Inactive", mode |-> "Minimal", single |-> FALSE,
          address |-> "none", devices |-> <<>>, next |-> FALSE, agent |-> FALSE,
          process |-> FALSE, receiver |-> FALSE, cache |-> {}, timers |-> 0,
          fetches |-> [d \in SdDevices |-> <<>>],
          query |-> 0, inquiry |-> FALSE, queries |-> {},
          worker |-> 0, posted |-> <<>>,
          searches |-> 0, stopped |-> FALSE, failed |-> FALSE, ends |-> 0,
          listed |-> {}, asked |-> {}, answered |-> {}, reported |-> {}, strays |-> 0]

SdEnds(r) == [r EXCEPT !.ends = @ + 1]
SdError(r) == [r EXCEPT !.failed = TRUE]

\* _q_serviceDiscoveryFinished(): the next device, once the handler is left.
DeviceDone(r) ==
  [r EXCEPT !.devices = IF @ = <<>> THEN @ ELSE Tail(@), !.next = TRUE]
\* An error that ends the whole search, and one of a single device.
AbortSearch(r) == DeviceDone(SdError([r EXCEPT !.devices = <<>>]))
DeviceFailed(r) == DeviceDone(IF r.single THEN SdError(r) ELSE r)

--------------------------------------------------------------------------------
(* stop() *)

\* BlueZ waits for the scanner it kills, and takes its end for a failed scan.
StopBluez(r) ==
  LET a == [r EXCEPT !.devices = <<>>, !.state = "Inactive"]
  IN SdEnds(IF ~r.process THEN a
            ELSE SdEnds([a EXCEPT !.process = FALSE, !.failed = @ \/ r.single]))
StopAndroid(r) ==
  SdEnds([r EXCEPT !.cache = {}, !.devices = <<>>, !.receiver = FALSE, !.state = "Inactive"])
StopDarwin(r) == SdEnds([r EXCEPT !.devices = <<>>, !.query = 0, !.state = "Inactive"])
\* The disconnected worker's posted signals still come; canceled() does not.
StopWinrt(r) == IF r.worker = 0 THEN r ELSE [r EXCEPT !.worker = 0, !.state = "Inactive"]

StopServiceDiscovery(r) ==
  CASE r.scenario.platform = "bluez" -> StopBluez(r)
    [] r.scenario.platform = "android" -> StopAndroid(r)
    [] r.scenario.platform = "darwin" -> StopDarwin(r)
    [] r.scenario.platform = "winrt" -> [StopWinrt(r) EXCEPT !.devices = <<>>, !.state = "Inactive"]
StopDeviceDiscovery(r) ==
  SdEnds([r EXCEPT !.agent = FALSE, !.state = "Inactive", !.devices = <<>>])
SdStopSearch(r) ==
  IF r.state = "DeviceDiscovery" THEN StopDeviceDiscovery(r)
  ELSE IF r.state = "ServiceDiscovery" THEN StopServiceDiscovery(r) ELSE r

\* serviceDiscovered(), whose slot may stop the search.
SdReport(r, ds) ==
  LET a == [r EXCEPT !.reported = @ \cup ds,
                     !.strays = IF r.state = "Inactive" THEN @ + 1 ELSE @]
  IN {a} \cup IF "stopInSlot" \in r.scenario.may /\ r.state # "Inactive"
                THEN {[SdStopSearch(a) EXCEPT !.stopped = TRUE]} ELSE {}

--------------------------------------------------------------------------------
(* A device is asked; out is how the platform answers at once *)

Current(r) == Head(r.devices)
Answered(r, out) ==
  IF out = "services" THEN [r EXCEPT !.answered = @ \cup {Current(r)}] ELSE r
\* The cached services of the device: performMinimalServiceDiscovery() and its like.
Minimal(r, out) ==
  IF out = "fails" THEN {DeviceFailed(r)}
  ELSE IF out = "services" THEN {DeviceDone(x) : x \in SdReport(Answered(r, out), {Current(r)})}
  ELSE {DeviceDone(r)}

\* Without an adapter that is on, or without the scanner, nothing can be asked.
StartBluez(r, out) ==
  IF out = "off" THEN {AbortSearch(r)}
  ELSE IF r.mode = "Minimal" THEN Minimal(r, out) ELSE {[r EXCEPT !.process = TRUE]}

Broadcasts(r) ==
  {<<"uuids", "uuids">>}
    \cup (IF "oneBroadcast" \in r.scenario.may THEN {<<"uuids">>} ELSE {})
    \cup (IF "lastFails" \in r.scenario.may \/ Len(r.devices) > 1 \/ r.cache = {}
            THEN {<<"empty">>} ELSE {})
StartAndroid(r, out) ==
  IF r.mode = "Minimal" THEN Minimal(r, out)
  ELSE IF out = "fails" THEN {DeviceDone([r EXCEPT !.receiver = FALSE])}
  ELSE {[r EXCEPT !.receiver = TRUE, !.fetches[Current(r)] = b] : b \in Broadcasts(r)}

\* SDPInquiryError() drops the devices that have not been asked.
InquiryError(r) == DeviceFailed([r EXCEPT !.devices = <<>>])
StartDarwin(r, out) ==
  IF out = "off" THEN {InquiryError(r)}
  ELSE IF r.mode = "Minimal" THEN Minimal(r, out)
  ELSE IF out = "fails" THEN {InquiryError(r)}
  ELSE LET n == Cardinality(r.queries) + r.query + 1
       IN {[r EXCEPT !.query = n, !.inquiry = TRUE, !.queries = @ \cup {n}]}

\* A worker of WinRT, whose answers are queued: services, the end, or an error, which
\* a service without attributes is too.
StartWinrt(r, out) ==
  LET events == CASE out = "services" -> <<"found", "done">> [] out = "none" -> <<"done">>
                  [] out = "noAttributes" -> <<"error", "done">> [] OTHER -> <<"error">>
  IN IF r.worker # 0 THEN {r}
     ELSE {[r EXCEPT !.worker = 1,
                     !.posted = @ \o [i \in DOMAIN events |-> <<events[i], Current(r)>>]]}

StartOn(r, out) ==
  LET a == [r EXCEPT !.state = "ServiceDiscovery", !.asked = @ \cup {Current(r)}]
  IN CASE r.scenario.platform = "bluez" -> StartBluez(a, out)
       [] r.scenario.platform = "android" -> StartAndroid(a, out)
       [] r.scenario.platform = "darwin" -> StartDarwin(a, out)
       [] r.scenario.platform = "winrt" -> StartWinrt(a, out)

\* startServiceDiscovery().
StartServiceDiscovery(r, out) ==
  IF r.devices = <<>> THEN {SdEnds([r EXCEPT !.state = "Inactive"])} ELSE StartOn(r, out)

--------------------------------------------------------------------------------
(* The answers that come later *)

\* _q_sdpScannerDone() and _q_finishSdpScan(): one device's failure is passed over
\* unless it is the only one.
ScannerDone(r, out) ==
  LET a == [r EXCEPT !.process = FALSE]
  IN IF out = "fails" THEN {IF r.single THEN AbortSearch(a) ELSE DeviceDone(a)}
     ELSE IF out = "services" THEN {DeviceDone(x) : x \in SdReport(Answered(a, out), {Current(a)})}
     ELSE {DeviceDone(a)}

\* _q_processFetchedUuids(): the second broadcast counts; the first is kept for the
\* timer that runs once the last device is asked.
ProcessFetchedUuids(r, d, uuids) ==
  LET timed == [r EXCEPT !.timers = @ + 1]
  IN IF r.devices = <<>> THEN {r}
     ELSE IF uuids = "empty" THEN {DeviceDone(IF Len(r.devices) = 1 THEN timed ELSE r)}
     ELSE IF d \in r.cache
       THEN {IF Len(x.devices) = 1 /\ x.cache = {} THEN DeviceDone(x) ELSE x :
               x \in SdReport([r EXCEPT !.cache = @ \ {d}], {d})}
     ELSE IF Current(r) # d THEN {r}
     ELSE IF Len(r.devices) = 1
       THEN {[timed EXCEPT !.cache = @ \cup {d}, !.answered = @ \cup {d}]}
     ELSE {DeviceDone([r EXCEPT !.cache = @ \cup {d}, !.answered = @ \cup {d}])}
\* _q_fetchUuidsTimeout().
FetchUuidsTimeout_CacheDropped(r) ==
  IF r.cache = {} THEN {r} ELSE {DeviceDone([r EXCEPT !.receiver = FALSE, !.cache = {}])}
FetchUuidsTimeout(r) ==
  IF r.cache = {} THEN {r}
  ELSE {DeviceDone([x EXCEPT !.receiver = FALSE]) : x \in SdReport([r EXCEPT !.cache = {}], r.cache)}
\* _q_hostModeStateChanged(): the adapter is off.
HostModeOff(r) ==
  IF r.state # "ServiceDiscovery" THEN r
  ELSE AbortSearch([r EXCEPT !.cache = {}, !.receiver = FALSE])

\* sdpQueryComplete(), which knows a query that was stopped by its device.
QueryComplete(r, n, out) ==
  LET a == [r EXCEPT !.inquiry = FALSE]
  IN IF r.query # n THEN {r}
     ELSE IF out = "fails" THEN {InquiryError(a)}
     ELSE IF r.state = "Inactive" THEN {a}
     ELSE IF out = "none" THEN {DeviceDone(a)}
     ELSE {DeviceDone(x) : x \in SdReport(Answered(a, out), {Current(a)})}

\* processFoundService(), onScanFinished(), which ends the search whatever devices are
\* left, and onError().
WinrtFinished(r, d) ==
  LET known == \E i \in DOMAIN r.devices : r.devices[i] = d
      a == [r EXCEPT !.devices = SelectSeq(@, LAMBDA x : x # d)]
  IN SdEnds(StopWinrt(IF known /\ a.devices = <<>> THEN [a EXCEPT !.state = "Inactive"] ELSE a))
WinrtEvent(r, event, d) ==
  CASE event = "found" -> SdReport([r EXCEPT !.answered = @ \cup {d}], {d})
    [] event = "done" -> {WinrtFinished(r, d)}
    [] event = "error" -> {SdError([r EXCEPT !.devices = <<>>])}

--------------------------------------------------------------------------------
SdFree == ~sd.next
SdOutcomes ==
  {"services", "none"} \cup (IF SdMay("deviceFails") THEN {"fails"} ELSE {})
                       \cup (IF SdMay("off") /\ sd.scenario.platform \in {"bluez", "darwin"}
                               THEN {"off"} ELSE {})
                       \cup (IF SdMay("attributesFail") THEN {"noAttributes"} ELSE {})

\* setRemoteAddress(): the flag of a single device is set, and never reset.
SdSetRemoteAddress ==
  /\ SdFree /\ sd.state = "Inactive"
  /\ \/ SdMay("single") /\ sd.address = "none"
        /\ \E d \in SdDevices : sd' = [sd EXCEPT !.address = d, !.single = TRUE]
     \/ SdMay("unset") /\ sd.address # "none" /\ sd' = [sd EXCEPT !.address = "none"]
SdStart ==
  /\ SdFree /\ sd.state = "Inactive" /\ sd.searches < sd.scenario.searches
  /\ \E mode \in {m \in {"Minimal", "Full"} : SdMay(IF m = "Full" THEN "full" ELSE "minimal")} :
       LET a == [sd EXCEPT !.mode = mode, !.searches = @ + 1, !.stopped = FALSE,
                           !.failed = FALSE, !.ends = 0, !.listed = {}, !.asked = {},
                           !.answered = {}, !.reported = {}]
       IN \/ sd.address = "none" /\ SdMay("scan")
             /\ sd' = [a EXCEPT !.state = "DeviceDiscovery", !.agent = TRUE]
          \/ sd.address # "none"
             /\ sd' = [a EXCEPT !.state = "ServiceDiscovery", !.next = TRUE,
                                !.devices = Append(@, sd.address), !.listed = {sd.address}]
SdStop ==
  /\ SdFree /\ sd.state # "Inactive" /\ SdMay("stop")
  /\ sd.process \/ sd.worker # 0 => SdMay("stopAsking")
  /\ sd' = [SdStopSearch(sd) EXCEPT !.stopped = TRUE]

\* _q_deviceDiscovered(), _q_deviceDiscoveryFinished(), _q_deviceDiscoveryError().
SdDiscovered ==
  /\ SdFree /\ sd.agent /\ (SdMay("oneDevice") => sd.listed = {})
  /\ \E d \in SdDevices \ sd.listed :
       sd' = [sd EXCEPT !.listed = @ \cup {d}, !.devices = <<d>> \o @]
SdDiscoveryEnds ==
  /\ SdFree /\ sd.agent
  /\ \/ sd' = [sd EXCEPT !.agent = FALSE, !.next = TRUE]
     \/ SdMay("scanFails")
        /\ sd' = SdEnds(SdError([sd EXCEPT !.agent = FALSE, !.state = "Inactive"]))

SdContinue ==
  /\ sd.next
  /\ \E out \in SdOutcomes :
       /\ out = "fails" /\ Len(sd.devices) = 1 /\ sd.cache # {} => SdMay("lastFails")
       /\ sd' \in StartServiceDiscovery([sd EXCEPT !.next = FALSE], out)

SdScanner ==
  /\ SdFree /\ sd.process
  /\ \E out \in SdOutcomes \ {"off"} : sd' \in ScannerDone(sd, out)
\* A broadcast, which nobody receives without a receiver.  The second one of a device
\* comes when the last device has answered too, unless the scenario says otherwise.
SdBroadcast ==
  /\ SdFree
  /\ \E d \in SdDevices :
       /\ sd.fetches[d] # <<>>
       /\ d \in sd.cache /\ Len(sd.devices) = 1 /\ ~SdMay("late") => sd.devices[1] \in sd.cache
       /\ LET r == [sd EXCEPT !.fetches[d] = Tail(@)]
          IN sd' \in IF sd.receiver THEN ProcessFetchedUuids(r, d, Head(sd.fetches[d])) ELSE {r}
SdTimer ==
  SdFree /\ sd.timers > 0 /\ sd' \in FetchUuidsTimeout([sd EXCEPT !.timers = @ - 1])
SdOff ==
  /\ SdFree /\ SdMay("off") /\ sd.scenario.platform = "android" /\ sd.receiver
  /\ sd' = HostModeOff(sd)
SdQueryComplete ==
  /\ SdFree
  /\ \E n \in sd.queries, out \in SdOutcomes \ {"off"} :
       sd' \in QueryComplete([sd EXCEPT !.queries = @ \ {n}], n, out)
SdPosted ==
  /\ SdFree /\ sd.posted # <<>>
  /\ sd' \in WinrtEvent([sd EXCEPT !.posted = Tail(@)], Head(sd.posted)[1], Head(sd.posted)[2])

SdNext ==
  \/ SdSetRemoteAddress \/ SdStart \/ SdStop \/ SdDiscovered \/ SdDiscoveryEnds \/ SdContinue
  \/ SdScanner \/ SdBroadcast \/ SdTimer \/ SdOff \/ SdQueryComplete \/ SdPosted

\* The event loop runs, a search for devices ends, and whoever is asked answers.
SdFairness ==
  /\ WF_sd(SdDiscoveryEnds) /\ WF_sd(SdContinue) /\ WF_sd(SdScanner) /\ WF_sd(SdBroadcast)
  /\ WF_sd(SdTimer) /\ WF_sd(SdQueryComplete) /\ WF_sd(SdPosted)
SdSpec == SdInit /\ [][SdNext]_sd /\ SdFairness

--------------------------------------------------------------------------------
SdAtRest == sd.state = "Inactive" /\ ~sd.next

\* A record of the right shape: what a platform runs belongs to a search that asks.
SdTypeOK ==
  /\ sd.state \in {"Inactive", "DeviceDiscovery", "ServiceDiscovery"}
  /\ sd.agent <=> sd.state = "DeviceDiscovery" /\ ~sd.next
  /\ sd.timers \in 0..3 /\ sd.strays \in 0..3
  /\ sd.process \/ sd.worker # 0 => sd.state = "ServiceDiscovery"
  /\ SdAtRest => sd.cache = {}

\* A search that ends by itself has asked every device that it knew of.
SdAllAsked == SdAtRest /\ ~sd.stopped /\ ~sd.failed => sd.listed \subseteq sd.asked

\* What the devices have answered is reported before the search ends.
SdAllReported == SdAtRest /\ ~sd.stopped /\ ~sd.failed => sd.answered \subseteq sd.reported

\* A search ends once, and reports nothing afterwards.
SdOneEnd == SdAtRest /\ sd.searches > 0 => sd.ends = 1
SdQuiet == sd.strays = 0

\* When no remote address is set, the failure of one device is not told, and the
\* search goes on with the others.
SdErrorsSuppressed ==
  sd.address = "none" /\ {"off", "scanFails"} \cap sd.scenario.may = {} => ~sd.failed

\* Every search ends.
SdSearchEnds == []<>(sd.state = "Inactive")

=============================================================================
