--------------------------- MODULE AndroidController ---------------------------
(***************************************************************************)
(* QLowEnergyControllerPrivateAndroid as a central                         *)
(* (src/src/bluetooth/qlowenergycontroller_android.cpp) with its Java side *)
(* (AndroidGatt), the queued signals of LowEnergyNotificationHub between   *)
(* the two, and Android's BluetoothGatt.                                   *)
(***************************************************************************)
EXTENDS AndroidGatt

VARIABLES
  gatt,  \* QtBluetoothLE, see AndroidGatt
  andr   \* the controller, and the application's calls

androidVars == <<gatt, andr>>

AndroidMay(what) == what \in andr.scenario.may

AndroidInit ==
  /\ gatt = AgInit
  /\ \E scenario \in AgScenarios :
       andr = [state |-> "Unconnected", serviceList |-> NoServices, calls |-> <<>>,
               said |-> "disconnected", session |-> 0, crashed |-> FALSE,
               scenario |-> scenario]

-----------------------------------------------------------------------------
(* The application *)

AndroidConnect ==
  /\ MayConnect(andr.state)
  /\ andr.session < andr.scenario.sessions
  /\ AndroidMay("reuse") \/ gatt.pendingJob = NoJob
  /\ \/ /\ AndroidMay("connectFails")
        /\ andr' = [andr EXCEPT !.session = @ + 1]
        /\ UNCHANGED gatt
     \/ /\ andr' = [andr EXCEPT !.session = @ + 1, !.state = "Connecting"]
        /\ gatt' = Connect(gatt, andr'.session)

AndroidDisconnect ==
  /\ MayDisconnect(andr.state)
  /\ andr.state = "Connecting" =>
       /\ AndroidMay("closeEarly")
       /\ \/ AndroidMay("closeRace")
          \/ \E c \in DOMAIN gatt.conns : gatt.conns[c] = "connecting"
  /\ AndroidMay("closeBusy") \/ Open(andr.calls) = {}
  /\ andr' = [andr EXCEPT
                !.state = IF @ = "Connecting" THEN "Unconnected" ELSE "Closing",
                !.serviceList = NoServices, !.calls = Dropped(@, DOMAIN @)]
  /\ gatt' = Disconnect(gatt)

AndroidDiscoverServices ==
  /\ MayDiscover(andr.state)
  /\ IF gatt.mBluetoothGatt = 0 THEN UNCHANGED androidVars
     ELSE /\ andr' = [andr EXCEPT !.state = "Discovering"]
          /\ gatt' = [gatt EXCEPT !.discovering = TRUE]

AndroidDiscoverDetails(s, full) ==
  /\ MayDiscoverDetails(andr.serviceList[s])
  /\ IF gatt.mBluetoothGatt = 0 THEN UNCHANGED androidVars
     ELSE /\ andr' = [andr EXCEPT !.serviceList[s] = "Discovering"]
          /\ gatt' = DiscoverDetails(gatt, s, full)

AndroidAccess(a, type) ==
  /\ MayAccess(andr.serviceList[LeHome[a]])
  /\ Len(andr.calls) < andr.scenario.calls
  /\ LET refused == gatt.mBluetoothGatt = 0 \/ ~gatt.entries
     IN  /\ andr' = [andr EXCEPT !.calls = Append(@, IF refused THEN "error" ELSE "open")]
         /\ gatt' = IF refused THEN gatt
                    ELSE Enqueue(gatt, Job(type, HandleOf(a), Len(andr'.calls)))

-----------------------------------------------------------------------------
(* The slots of the controller *)

CentralConnectionUpdated(d, up, ok) ==
  LET failed == ~ok /\ d.state = "Connecting"
      new == IF up /\ ~failed THEN "Connected" ELSE "Unconnected"
  IN  IF new = "Unconnected" /\ d.state \notin {"Unconnected", "Connecting"}
      THEN [d EXCEPT !.state = new, !.serviceList = NoServices,
                     !.calls = Dropped(@, DOMAIN @), !.said = "disconnected"]
      ELSE [d EXCEPT !.state = new,
                     !.said = IF new = "Connected" THEN "connected" ELSE @]

ServicesDiscovered(d, ok) ==
  IF ok THEN [d EXCEPT !.state = "Discovered",
                       !.serviceList = [s \in LeServices |->
                         IF \E i \in DOMAIN AgTree : AgTree[i].service = s
                         THEN "Remote" ELSE "none"]]
  ELSE [d EXCEPT !.state = "Connected"]

ServiceDetailsDiscoveryFinished(d, s) ==
  IF d.serviceList[s] = "none" THEN d
  ELSE [d EXCEPT !.serviceList[s] = "Discovered"]

\* serviceForHandle(): the handles are known once the details are.
Found(d, h) == d.serviceList[Entries[h].service] = "Discovered"
\* characteristicRead(), descriptorRead(), characteristicWritten(),
\* descriptorWritten()
Accessed(d, h, op, ok) ==
  IF ~Found(d, h) THEN d
  ELSE [d EXCEPT !.calls = Answered(@, op, IF ok THEN "ok" ELSE "error")]
\* Q_ASSERT(!service.isNull()), then service->setError().
ServiceError(d, h, op) ==
  IF ~Found(d, h) THEN [d EXCEPT !.crashed = TRUE]
  ELSE [d EXCEPT !.calls = Answered(@, op, "error")]

Slot(d, m) ==
  CASE m.signal = "connection" -> CentralConnectionUpdated(d, m.up, m.ok)
    [] m.signal = "servicesDiscovered" -> ServicesDiscovered(d, m.ok)
    [] m.signal = "detailsFinished" -> ServiceDetailsDiscoveryFinished(d, m.service)
    [] m.signal = "read" -> Accessed(d, m.handle, m.op, TRUE)
    [] m.signal = "written" -> Accessed(d, m.handle, m.op, m.ok)
    [] m.signal = "error" -> ServiceError(d, m.handle, m.op)

AndroidSlot ==
  /\ gatt.toQt # <<>> /\ ~andr.crashed
  /\ andr' = Slot(andr, Head(gatt.toQt))
  /\ gatt' = [gatt EXCEPT !.toQt = Tail(@)]

-----------------------------------------------------------------------------
(* The other threads *)

AndroidHandler ==
  /\ gatt.handler # <<>>
  /\ gatt' = Handle([gatt EXCEPT !.handler = Tail(@)], Head(gatt.handler))
  /\ UNCHANGED andr

\* The application is not told of a call that is given up.
AndroidTimeout ==
  /\ gatt.handleForTimeout # HandleForReset
  /\ gatt.handleForTimeout.type = "Mtu" \/ AndroidMay("silent")
  /\ gatt' = TimeoutRunnable(gatt)
  /\ andr' = [andr EXCEPT !.calls = Answered(@, gatt.pendingJob.op, "lost")]

\* Android: the peer's answer to the request it has taken.
AndroidAnswer ==
  /\ gatt.busy # NoJob
  /\ \E ok \in {TRUE} \cup IF AndroidMay("jobError") THEN {FALSE} ELSE {} :
       gatt' = Post([gatt EXCEPT !.busy = NoJob],
                    [task |-> "answer", of |-> gatt.mBluetoothGatt,
                     job |-> gatt.busy, ok |-> ok])
  /\ UNCHANGED andr

AndroidServices ==
  /\ gatt.discovering
  /\ \E ok \in {TRUE} \cup IF AndroidMay("discoverFails") THEN {FALSE} ELSE {} :
       gatt' = Post([gatt EXCEPT !.discovering = FALSE],
                    [task |-> "services", of |-> gatt.mBluetoothGatt, ok |-> ok])
  /\ UNCHANGED andr

\* The request makes the devices pair; Android never completes it.
\* Bound: once per connection.
AndroidBonding ==
  /\ AndroidMay("bonding") /\ gatt.busy # NoJob /\ gatt.bond = "none"
  /\ gatt' = OnBonding([gatt EXCEPT !.bond = "bonding", !.busy = NoJob])
  /\ UNCHANGED andr
AndroidBondingEnded ==
  /\ gatt.bond = "bonding"
  /\ gatt' = OnBondingEnded([gatt EXCEPT !.bond = "ended"])
  /\ UNCHANGED andr

\* A connection attempt ends.
AndroidConnected(c) ==
  /\ \/ gatt.conns[c] = "connecting"
     \/ gatt.conns[c] = "abandoned" /\ AndroidMay("zombie")
  /\ \E up, ok \in BOOLEAN :
       /\ ~ok => AndroidMay("connectFails")
       /\ ok => up
       /\ ~ok /\ up => AndroidMay("falseConnect")
       /\ gatt' = Post([gatt EXCEPT !.conns[c] = IF up /\ ok THEN "up" ELSE "down"],
                       [task |-> "connection", of |-> c, up |-> up, ok |-> ok])
  /\ UNCHANGED andr
AndroidDisconnected(c) ==
  /\ \/ gatt.conns[c] = "closing"
     \/ gatt.conns[c] = "up" /\ AndroidMay("linkLoss")
  /\ gatt' = Post([gatt EXCEPT !.conns[c] = "down"],
                  [task |-> "connection", of |-> c, up |-> FALSE,
                   ok |-> gatt.conns[c] = "closing"])
  /\ UNCHANGED andr

AndroidNext ==
  \/ AndroidConnect \/ AndroidDisconnect \/ AndroidDiscoverServices
  \/ \E s \in LeServices, full \in BOOLEAN : AndroidDiscoverDetails(s, full)
  \/ \E a \in LeAttributes, type \in {"Read", "Write"} : AndroidAccess(a, type)
  \/ AndroidSlot \/ AndroidHandler \/ AndroidTimeout
  \/ AndroidAnswer \/ AndroidServices \/ AndroidBonding \/ AndroidBondingEnded
  \/ \E c \in DOMAIN gatt.conns : AndroidConnected(c) \/ AndroidDisconnected(c)

\* Event loops deliver and timers fire; Android ends connection attempts and
\* the connections it is told to end, and pairing; the peer answers, unless
\* it may be silent.
AndroidFairness ==
  /\ WF_androidVars(AndroidSlot)
  /\ WF_androidVars(AndroidHandler)
  /\ WF_androidVars(AndroidTimeout)
  /\ WF_androidVars(~AndroidMay("silent") /\ AndroidAnswer)
  /\ WF_androidVars(AndroidServices)
  /\ WF_androidVars(AndroidBondingEnded)
  /\ WF_androidVars(\E c \in DOMAIN gatt.conns : AndroidConnected(c))
  /\ WF_androidVars(\E c \in DOMAIN gatt.conns :
                      gatt.conns[c] = "closing" /\ AndroidDisconnected(c))

AndroidSpec == AndroidInit /\ [][AndroidNext]_androidVars /\ AndroidFairness

-----------------------------------------------------------------------------
(* Properties *)

AgJobs == [type : {"Read", "Write", "SkippedRead", "Mtu", "none"},
           handle : 0..Len(Entries), op : 0..LeMaxCalls]

\* Type correctness.
AndroidTypeOK ==
  /\ andr.state \in ControllerStates
  /\ andr.serviceList \in [LeServices -> ServiceStates]
  /\ andr.calls \in Seq(LeResults \cup {"lost"})
  /\ gatt.mBluetoothGatt \in 0..LeMaxSessions
  /\ gatt.valueKnown \subseteq DOMAIN Entries
  /\ gatt.readWriteQueue \in Seq(AgJobs)
  /\ {gatt.pendingJob, gatt.busy} \subseteq AgJobs

\* The queue is never locked for good: a pending job has its watchdog, or the
\* end of the pairing gives it back, or its answer is about to (TimeoutRunnable,
\* BondStateBroadcastReceiver and the callbacks reset what the others rely on).
AndroidQueueUnlocks ==
  gatt.mBluetoothGatt # 0 /\ gatt.pendingJob # NoJob =>
    \/ gatt.handleForTimeout # HandleForReset
    \/ gatt.bond = "bonding"

\* The watchdog and the answer both take jobs off the same queue: what the gate
\* stands for is the pending job, of its type and handle.
AndroidGateIsTheJobs ==
  gatt.handleForTimeout # HandleForReset =>
    gatt.handleForTimeout = ModifiedHandle(gatt.pendingJob.handle, gatt.pendingJob.type)

\* connected() and disconnected() alternate and agree with the state.
AndroidAnnounced ==
  /\ andr.state \in {"Connected", "Discovering", "Discovered"} => andr.said = "connected"
  /\ andr.state \in {"Unconnected", "Connecting"} => andr.said = "disconnected"

\* Only an answer to a request of its kind, for its attribute, ends a pending
\* job, however late the answers to those that were given up arrive
\* (modifiedReadWriteHandle()).
AndroidOwnAnswer ==
  [][gatt.pendingJob # NoJob /\ gatt'.pendingJob # gatt.pendingJob
       /\ gatt.handler # <<>> /\ Head(gatt.handler).task = "answer"
       /\ Len(gatt'.handler) < Len(gatt.handler) =>
     \/ gatt'.mBluetoothGatt = 0
     \/ LET job == Head(gatt.handler).job
        IN  <<job.type, job.handle>> = <<gatt.pendingJob.type, gatt.pendingJob.handle>>
    ]_androidVars

\* Each call is answered, or its service is gone, or the watchdog gave it up.
AndroidCallsEnd ==
  \A op \in 1..LeMaxCalls : []<>(op \notin Open(andr.calls))

\* The discovery of a service finishes whatever its reads do: refused, timed
\* out, put back by a pairing, skipped.
AndroidDetailsFinish ==
  \A s \in LeServices :
    []<>(andr.serviceList[s] # "Discovering")

\* The controller does not stay in a state of transition.
AndroidSettles ==
  \A state \in {"Connecting", "Discovering", "Closing"} :
    []<>(andr.state # state)

\* serviceError(): Q_ASSERT(!service.isNull()).
AndroidErrorHasService == ~andr.crashed

\* "we disconnected -> get rid of data from previous run"
AndroidFreshRun == gatt.mBluetoothGatt = 0 => gatt.pendingJob = NoJob

=============================================================================
