--------------------------- MODULE AndroidPeripheral ---------------------------
(***************************************************************************)
(* The peripheral of Android: QLowEnergyControllerPrivateAndroid in the    *)
(* peripheral role (qlowenergycontroller_android.cpp), in the thread of    *)
(* the application, and QtBluetoothLEServer.java, whose callbacks run on   *)
(* threads of Android and report by events queued for the controller.      *)
(* Services and values have two copies, one on each side.                  *)
(***************************************************************************)
EXTENDS Integers, Sequences, FiniteSets, SequencesExt

CONSTANTS
  ApServices,   \* the services the application adds, by UUID
  ApClients,    \* the centrals that may connect
  ApMaxWrites,  \* bound: writes, by whomever
  ApScenarios   \* what the clients, Android and the application may do

(***************************************************************************)
(* A scenario bounds the services added, the connections and the writes,   *)
(* has the room of the queue of prepared writes (MAX_PENDING_WRITE_COUNT), *)
(* and its set "may" has:                                                  *)
(* "refuses"     Android may refuse a service at once                      *)
(* "advFails"    advertising may fail to start                             *)
(* "hasty"       the application may advertise again, or add a service     *)
(*               again, with an event about it still on its way            *)
(* "advertises"  the application advertises ...                            *)
(* "stops"       ... and stops it                                          *)
(* "closes"      the application calls disconnectFromDevice()              *)
(* "local"       it writes the characteristics of its services             *)
(* "writes"      the clients do                                            *)
(* "prepared"    ... in prepared writes                                    *)
(* "subscribes"  the clients enable notifications                          *)
(* "returns"     a client may connect again                                *)
(* "missed"      a value may change while a client with notifications is   *)
(*               away, or not yet known to be back                         *)
(* "silent"      prepared writes may be executed where somebody has         *)
(*               notifications, which they do not send                      *)
(* "cutOff"      the last device may leave with a callback still to come    *)
(*               while writes are prepared                                 *)
(***************************************************************************)
ASSUME ApAssumption ==
  /\ IsFiniteSet(ApServices) /\ IsFiniteSet(ApClients) /\ ApMaxWrites \in Nat
  /\ \A c \in ApScenarios :
       /\ {c.adds, c.connects, c.room} \subseteq Nat /\ c.writes \in 0..ApMaxWrites
       /\ c.may \subseteq
            {"refuses", "advFails", "hasty", "advertises", "stops", "closes",
             "local", "writes", "prepared", "subscribes", "returns", "missed",
             "silent", "cutOff"}

VARIABLE
  ap  \* the controller, the events for it, the Java server, Android and the peers

ApMay(what) == what \in ap.scenario.may
ApChoose(what) == IF ApMay(what) THEN BOOLEAN ELSE {TRUE}
ApNobody == "nobody"

-----------------------------------------------------------------------------
\* The client configuration of a device: never written, off or on.
ApNever == -1
ApOff == 0
ApOn == 1
ApFresh == [char |-> 0, ccc |-> ApOff]
ApInit ==
  \E scenario \in ApScenarios :
    ap = [scenario |-> scenario, adds |-> 0, connects |-> 0, writes |-> 0,
          \* the controller: its state, localServices with their values, the
          \* remote device; whether connected() was the last it told, and
          \* whether the application closed
          state |-> "Unconnected", listed |-> {},
          copy |-> [s \in ApServices |-> ApFresh], peer |-> ApNobody,
          told |-> FALSE, closed |-> FALSE,
          posted |-> <<>>,
          \* QtBluetoothLEServer
          server |-> FALSE, pending |-> <<>>, prepared |-> <<>>,
          remote |-> ApNobody,
          config |-> [s \in ApServices |-> [c \in ApClients |-> ApNever]],
          marked |-> {},
          \* Android: the values of the services, those written last by the
          \* application, those it offers, those it is adding; advertising; the
          \* devices connected and the callbacks about them
          value |-> [s \in ApServices |-> ApFresh],
          local |-> {}, offered |-> {}, adding |-> {},
          advertising |-> "off", connected |-> {}, seen |-> {}, callbacks |-> <<>>,
          notified |-> [s \in ApServices |-> [c \in ApClients |-> 0]]]

ApPost(p, what, about, value) ==
  [p EXCEPT !.posted = Append(@, [what |-> what, about |-> about, value |-> value])]
ApPosted(p, what) == \E i \in DOMAIN p.posted : p.posted[i].what = what

\* connectServer(), and mGattServer.close().
ApOpenServer(p) == [p EXCEPT !.server = TRUE]
ApCloseServer(p) ==
  [p EXCEPT !.server = FALSE, !.pending = <<>>, !.offered = {}, !.adding = {},
            !.connected = {}, !.callbacks = <<>>, !.remote = ApNobody]

-----------------------------------------------------------------------------
(* Services: one addition at a time *)

\* QtBluetoothLEServer.addService()
ApAdd(p, s, accepted) ==
  IF p.pending # <<>> THEN [p EXCEPT !.pending = Append(@, s)]
  ELSE IF ~accepted THEN p
  ELSE [p EXCEPT !.pending = Append(@, s), !.adding = @ \cup {s}]

\* QLowEnergyController::addService() with addServiceHelper() and
\* addToGenericAttributeList(): new objects on both sides.  The application adds
\* a service the server does not have.
ApNewService(p, s) ==
  [p EXCEPT !.listed = @ \cup {s}, !.copy[s] = ApFresh, !.value[s] = ApFresh,
            !.config[s] = [c \in ApClients |-> ApNever],
            !.marked = {m \in @ : m[1] # s}, !.local = @ \ {s}]
ApAddService(s) ==
  /\ ap.state = "Unconnected" /\ ap.adds < ap.scenario.adds
  /\ s \notin ap.offered /\ ~Contains(ap.pending, s)
  /\ (\E i \in DOMAIN ap.posted : ap.posted[i].about = s) => ApMay("hasty")
  /\ \E accepted \in ApChoose("refuses") :
       ap' = ApAdd(ApOpenServer(ApNewService([ap EXCEPT !.adds = @ + 1], s)),
                   s, accepted)

\* onServiceAdded(): on to the first that Android accepts.
ApAddNext_RefusedKept(p, accepted) ==
  IF p.pending = <<>> THEN p
  ELSE [p EXCEPT !.adding = @ \cup ({Head(p.pending)} \cap accepted)]
ApAddNext(p, accepted) ==
  LET taken == SelectInSeq(p.pending, LAMBDA s : s \in accepted)
  IN  IF taken = 0 THEN [p EXCEPT !.pending = <<>>]
      ELSE [p EXCEPT !.pending = SubSeq(@, taken, Len(@)),
                     !.adding = @ \cup {p.pending[taken]}]
ApOnServiceAdded(p, s, accepted) ==
  ApAddNext([p EXCEPT !.pending = SelectSeq(@, LAMBDA t : t # s)], accepted)
ApAccepted == IF ApMay("refuses") THEN SUBSET ApServices ELSE {ApServices}
ApServiceAdded ==
  /\ ap.server
  /\ \E s \in ap.adding, accepted \in ApAccepted :
       ap' = ApOnServiceAdded([ap EXCEPT !.adding = @ \ {s}, !.offered = @ \cup {s}],
                              s, accepted)

-----------------------------------------------------------------------------
(* Advertising *)

ApStartAdvertising ==
  /\ ApMay("advertises") /\ ap.state = "Unconnected"
  /\ ApPosted(ap, "advFailed") => ApMay("hasty")
  /\ ap' = [ApOpenServer(ap) EXCEPT
              !.state = "Advertising",
              !.advertising = IF @ = "off" THEN "starting" ELSE @]

ApStop(p) == [p EXCEPT !.state = "Unconnected", !.advertising = "off"]
ApStopAdvertising ==
  /\ ApMay("stops") /\ ap.state = "Advertising"
  /\ ap' = ApStop(ap)

\* AdvertiseCallback
ApAdvertisingAnswer ==
  /\ ap.advertising = "starting"
  /\ \E ok \in ApChoose("advFails") :
       ap' = IF ok THEN [ap EXCEPT !.advertising = "on"]
             ELSE ApPost([ap EXCEPT !.advertising = "off"], "advFailed", ApNobody, 0)
ApAdvertisementError(p) ==
  IF p.state = "Advertising" THEN [p EXCEPT !.state = "Unconnected"] ELSE p

-----------------------------------------------------------------------------
(* Connections: the callbacks come one after the other, later than the list  *)
(* of connected devices they read                                            *)

ApClientConnects(c) ==
  /\ ap.server /\ c \notin ap.connected /\ ap.connects < ap.scenario.connects
  /\ c \in ap.seen => ApMay("returns")
  /\ ap' = [ap EXCEPT !.connected = @ \cup {c}, !.seen = @ \cup {c},
                      !.connects = @ + 1,
                      !.callbacks = Append(@, [client |-> c, up |-> TRUE])]
ApClientLeaves(c) ==
  /\ c \in ap.connected
  /\ ap.connected = {c} /\ ap.prepared # <<>> /\ ap.callbacks # <<>> => ApMay("cutOff")
  /\ ap' = [ap EXCEPT !.connected = @ \ {c},
                      !.callbacks = Append(@, [client |-> c, up |-> FALSE])]

\* markDeviceConnectivity()
ApMark(p, c, up) ==
  IF up THEN [p EXCEPT !.marked = @ \cup
                {m \in ApServices \X {c} : p.config[m[1]][c] # ApNever}]
  ELSE [p EXCEPT !.marked = {m \in @ : m[2] # c}]
\* clearPendingPreparedWrites()
ApClear(p, c) == [p EXCEPT !.prepared = SelectSeq(@, LAMBDA w : w.client # c)]

ApRemotes(p, c, up) ==
  IF up THEN {c}
  ELSE IF c = p.remote /\ p.connected # {} THEN p.connected ELSE {p.remote}

\* onConnectionStateChange()
ApServerState(p) == IF p.connected # {} THEN "Connected" ELSE "Unconnected"
ApConnectionCallback ==
  /\ ap.callbacks # <<>>
  /\ LET c == Head(ap.callbacks).client
         up == Head(ap.callbacks).up
         p == ApMark([ap EXCEPT !.callbacks = Tail(@)], c, up)
         q == IF up THEN p ELSE ApClear(p, c)
     IN  \E remote \in ApRemotes(q, c, up) :
           LET r == [q EXCEPT !.remote = remote]
           IN  ap' = ApPost(IF ap.connected = {} THEN ApCloseServer(r) ELSE r,
                            "state", ApServerState(ap), 0)

\* peripheralConnectionUpdated()
ApUpdated(p, new) ==
  LET q == IF new = "Unconnected" THEN ApStop(p) ELSE [p EXCEPT !.state = new]
  IN  [q EXCEPT !.peer = p.remote,
                !.closed = @ /\ new # "Connected",
                !.told = IF new = "Connected" THEN TRUE
                         ELSE @ /\ p.state # "Connected"]

\* disconnectServer()
ApDisconnectServer(p) ==
  ApPost([ApCloseServer(p) EXCEPT !.prepared = <<>>], "state", "Unconnected", 0)

\* QLowEnergyController::disconnectFromDevice()
ApDisconnect ==
  /\ ApMay("closes") /\ ap.state \notin {"Unconnected", "Closing"}
  /\ LET p == [ap EXCEPT !.listed = {}, !.state = "Closing", !.closed = TRUE]
     IN  ap' = IF p.server THEN ApDisconnectServer(p) ELSE p

-----------------------------------------------------------------------------
(* Values *)

\* A client that has enabled notifications and is away, or back and not yet
\* marked.
ApKnown(p, c) == c \in p.connected /\ \A i \in DOMAIN p.callbacks : p.callbacks[i].client # c
ApAway(s) == \E c \in ApClients : ap.config[s][c] = ApOn /\ ~ApKnown(ap, c)
ApChangeable(s) ==
  /\ ap.writes < ap.scenario.writes
  /\ ApAway(s) => ApMay("missed")

\* sendNotificationsOrIndications() with getToBeUpdatedDevices() and valueFor()
ApNotify(p, s) ==
  [p EXCEPT !.notified[s] =
     [c \in ApClients |->
        IF p.config[s][c] = ApOn /\ <<s, c>> \in p.marked
        THEN p.value[s].char ELSE @[c]]]

ApWriteOf(s) == [ap EXCEPT !.writes = @ + 1, !.value[s].char = ap.writes + 1]

\* QLowEnergyService::writeCharacteristic(): the value of the Java side only.
ApLocal(p, s) == ApNotify(p, s)
ApLocalWrite(s) ==
  /\ ApMay("local") /\ s \in ap.listed /\ ApChangeable(s)
  /\ ap' = ApLocal([ApWriteOf(s) EXCEPT !.local = @ \cup {s}], s)

\* onCharacteristicWriteRequest()
ApWritten(p, s) == ApPost(p, "changed", s, p.value[s].char)
ApClientWrite(c, s) ==
  /\ ApMay("writes") /\ ApKnown(ap, c) /\ s \in ap.offered /\ ApChangeable(s)
  /\ ap' = ApNotify(ApWritten([ApWriteOf(s) EXCEPT !.local = @ \ {s}], s), s)

\* onDescriptorWriteRequest() for the client characteristic configuration:
\* insertOrUpdate()
ApInsertOrUpdate_NotMarked(p, s, c, config) == [p EXCEPT !.config[s][c] = config]
ApInsertOrUpdate(p, s, c, config) ==
  [p EXCEPT !.config[s][c] = config,
            !.marked = IF p.config[s][c] = ApNever THEN @ \cup {<<s, c>>} ELSE @]
ApSubscribe(c, s) ==
  /\ ApMay("subscribes") /\ ApKnown(ap, c) /\ s \in ap.offered
  /\ ap.writes < ap.scenario.writes
  /\ \E config \in {ApOn, ApOff} :
       /\ config # ap.config[s][c]
       /\ ap' = ApPost([ApInsertOrUpdate(ap, s, c, config) EXCEPT
                          !.writes = @ + 1, !.value[s].ccc = config,
                          !.notified[s][c] = ap.value[s].char],
                       "configured", s, config)

\* addPendingPreparedWrite() and onExecuteWrite(): the writes of a target are
\* applied until one does not fit, the targets before it keep theirs.  Nobody is
\* notified.
ApPrepare(c, s) ==
  /\ ApMay("prepared") /\ ApKnown(ap, c) /\ s \in ap.offered
  /\ ap.writes < ap.scenario.writes
  /\ Len(ap.prepared) <= ap.scenario.room
  /\ ap' = [ap EXCEPT !.writes = @ + 1,
                      !.prepared = Append(@, [client |-> c, service |-> s,
                                              value |-> ap.writes + 1])]
ApApply(p, write) ==
  ApWritten([p EXCEPT !.value[write.service].char = write.value,
                      !.local = @ \ {write.service}], write.service)
\* The entry of each target holds its writes; its last one is its new value.
ApTargets(writes) ==
  LET last == SelectSeq([i \in DOMAIN writes |-> i],
                LAMBDA i : \A j \in DOMAIN writes :
                  j > i => writes[j].service # writes[i].service)
  IN  [k \in DOMAIN last |-> writes[last[k]]]
ApExecute(c) ==
  /\ ApKnown(ap, c) /\ \E i \in DOMAIN ap.prepared : ap.prepared[i].client = c
  /\ LET targets == ApTargets(SelectSeq(ap.prepared, LAMBDA w : w.client = c))
     IN  /\ (\E w \in ToSet(targets), d \in ApClients : ap.config[w.service][d] = ApOn)
               => ApMay("silent")
         /\ \E applied \in 0..Len(targets) :
           ap' = ApClear(FoldLeft(ApApply, ap, SubSeq(targets, 1, applied)), c)

-----------------------------------------------------------------------------
\* serverCharacteristicChanged(), serverDescriptorWritten(): by UUID.
ApServerChanged(p, event) ==
  IF event.about \notin p.listed THEN p
  ELSE IF event.what = "changed" THEN [p EXCEPT !.copy[event.about].char = event.value]
  ELSE [p EXCEPT !.copy[event.about].ccc = event.value]

ApDeliver ==
  /\ ap.posted # <<>>
  /\ LET event == Head(ap.posted)
         p == [ap EXCEPT !.posted = Tail(@)]
     IN  ap' = CASE event.what = "state" -> ApUpdated(p, event.about)
                 [] event.what = "advFailed" -> ApAdvertisementError(p)
                 [] OTHER -> ApServerChanged(p, event)

-----------------------------------------------------------------------------
ApNext ==
  \/ ApServiceAdded \/ ApStartAdvertising \/ ApStopAdvertising \/ ApAdvertisingAnswer
  \/ ApConnectionCallback \/ ApDisconnect \/ ApDeliver
  \/ \E s \in ApServices : ApAddService(s) \/ ApLocalWrite(s)
  \/ \E c \in ApClients : ApClientConnects(c) \/ ApClientLeaves(c) \/ ApExecute(c)
  \/ \E c \in ApClients, s \in ApServices :
       ApClientWrite(c, s) \/ ApSubscribe(c, s) \/ ApPrepare(c, s)

\* The event loop and Android's threads run, and Android answers.
ApFairness ==
  /\ WF_ap(ApDeliver) /\ WF_ap(ApServiceAdded) /\ WF_ap(ApAdvertisingAnswer)
  /\ WF_ap(ApConnectionCallback)
ApSpec == ApInit /\ [][ApNext]_ap /\ ApFairness

-----------------------------------------------------------------------------
(* What must hold *)

\* The state has its shape; a closed server has nothing to add, offers nothing
\* and knows no device.
ApTypeOK ==
  /\ ap.scenario \in ApScenarios
  /\ ap.state \in {"Unconnected", "Advertising", "Connected", "Closing"}
  /\ {ap.listed, ap.offered, ap.adding, ap.local} \subseteq SUBSET ApServices
  /\ {ap.connected, ap.seen} \subseteq SUBSET ApClients
  /\ ap.advertising \in {"off", "starting", "on"}
  /\ {ap.peer, ap.remote} \subseteq ApClients \cup {ApNobody}
  /\ ap.config \in [ApServices -> [ApClients -> {ApNever, ApOn, ApOff}]]
  /\ Len(ap.prepared) <= ap.scenario.room + 1
  /\ ~ap.server =>
       /\ ap.pending = <<>> /\ ap.offered = {} /\ ap.adding = {}
       /\ ap.connected = {} /\ ap.remote = ApNobody

\* Additions go one at a time, and while any is pending one is under way: the
\* callback that takes the next will come.
ApAdditionsMove ==
  /\ ap.adding \subseteq ToSet(ap.pending) /\ Cardinality(ap.adding) <= 1
  /\ ap.pending # <<>> => ap.adding # {}

\* With no event on its way, the controller is in ConnectedState when its server
\* has a device that it has been told of, the device it names is one of them,
\* and it advertises when Android does.
ApQuiet == ap.posted = <<>> /\ ap.callbacks = <<>>
ApStatesAgree ==
  ApQuiet =>
    /\ ap.state = "Connected" <=> ap.connected # {}
    /\ ap.state = "Connected" => ap.peer \in ap.connected
    /\ ap.state = "Advertising" => ap.advertising # "off"
    /\ ap.state = "Unconnected" => ap.advertising = "off"

\* connected() is followed by disconnected() before the controller is again
\* where the application can add services, unless the application closed it.
ApDisconnectedTold ==
  ap.state \in {"Unconnected", "Advertising"} => ~ap.told \/ ap.closed
\* ... and when the application did, as the documentation says.
ApDisconnectedAlwaysTold ==
  ap.state \in {"Unconnected", "Advertising"} => ~ap.told

\* With no event on its way the two copies of a value agree, but for what the
\* application wrote itself: that never reaches the controller's copy.
ApCopiesAgree ==
  ~ApPosted(ap, "changed") /\ ~ApPosted(ap, "configured") =>
    \A s \in ap.listed \cap ap.offered :
      /\ ap.copy[s].ccc = ap.value[s].ccc
      /\ s \notin ap.local => ap.copy[s].char = ap.value[s].char

\* A device that is connected and has enabled notifications has been sent the
\* value of the characteristic.
ApUpdatesSent ==
  \A s \in ap.offered, c \in ap.connected :
    ApKnown(ap, c) /\ ap.config[s][c] = ApOn =>
      ap.notified[s][c] = ap.value[s].char

\* A device that has left leaves no prepared writes: the next connection of it
\* would execute them.
ApPreparedLive ==
  \A i \in DOMAIN ap.prepared :
    LET c == ap.prepared[i].client
    IN  c \in ap.connected \/ \E j \in DOMAIN ap.callbacks : ap.callbacks[j].client = c

\* A service comes out of the queue, and ClosingState ends.
ApAdditionsEnd ==
  \A s \in ApServices : []<>~Contains(ap.pending, s)
ApClosingEnds == []<>(ap.state # "Closing")
=============================================================================
