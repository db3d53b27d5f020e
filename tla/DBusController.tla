---------------------------- MODULE DBusController ----------------------------
(***************************************************************************)
(* QLowEnergyControllerPrivateBluezDBus                                    *)
(* (src/src/bluetooth/qlowenergycontroller_bluezdbus.cpp): a central over  *)
(* the D-Bus interface of bluetoothd.  Connecting, disconnecting and every *)
(* read and write is an asynchronous call; reads and writes wait in a list *)
(* of jobs of which one is under way.  Meanwhile bluetoothd reports that   *)
(* the link is up or down, that services are gone or its objects removed.  *)
(*                                                                         *)
(* A slot of the controller is one step, with every function it calls.     *)
(* Calls are answered in any order, with an error if nothing else          *)
(* (libdbus makes one up after a timeout).                                 *)
(***************************************************************************)
EXTENDS LowEnergyApi, SequencesExt

CONSTANTS
  DBusScenarios  \* what bluetoothd and the application may do, see below

(***************************************************************************)
(* A scenario bounds the connections and the calls, names the services     *)
(* that bluetoothd shows as Battery1, and its set "may" has:               *)
(* "jobError"        a read or a write may be refused                      *)
(* "linkLoss"        the link may go down by itself                        *)
(* "uuids"           the peer may withdraw a service                       *)
(* "removed"         bluetoothd may remove the device or the adapter       *)
(* "connectFails"    no adapter, no device, or the adapter is off          *)
(* "managedFails"    GetManagedObjects may fail                            *)
(* "closeEarly"      disconnectFromDevice() while connecting               *)
(* "closeTwice"      disconnectFromDevice() while closing                  *)
(* "eagerReconnect"  connectToDevice() before all calls of the previous    *)
(*                   connection are answered                               *)
(***************************************************************************)
ASSUME DBusAssumption ==
  \A c \in DBusScenarios :
       /\ c.battery \subseteq LeServices /\ c.sessions \in 1..LeMaxSessions /\ c.calls \in 0..LeMaxCalls
       /\ c.may \subseteq
            {"jobError", "linkLoss", "uuids", "removed", "connectFails",
             "managedFails", "closeEarly", "closeTwice", "eagerReconnect"}

VARIABLES
  dbus,  \* the members of the controller, the application's calls, the D-Bus
         \* calls waiting for their answer and the signals on their way
  link   \* bluetoothd: whether the device is connected, its services resolved

dbusVars == <<dbus, link>>

DBusMay(what) == what \in dbus.scenario.may

-----------------------------------------------------------------------------
\* GattJob: its kind, its attribute, the ServiceDiscovery and
\* LastServiceDiscovery flags and (for the properties) the call it answers.
GattJob(kind, a, disc, op) ==
  [kind |-> kind, attr |-> a, disc |-> disc, last |-> FALSE, op |-> op]
\* A D-Bus call without an answer; "op" is the call whose job it carries.
Waiting(kind, op) == [kind |-> kind, op |-> op]

DBusInit ==
  /\ \E scenario \in DBusScenarios :
       dbus = [state |-> "Unconnected", device |-> FALSE, pendingConnect |-> FALSE,
               disconnectSignalRequired |-> FALSE, jobs |-> <<>>,
               jobPending |-> FALSE, serviceList |-> NoServices,
               dbusServices |-> {}, calls |-> <<>>, waiting |-> <<>>,
               signals |-> <<>>, said |-> "disconnected", session |-> 0,
               scenario |-> scenario]
  /\ link = [up |-> FALSE, resolved |-> FALSE]

\* Base class: the service objects lose their controller.
InvalidateServices(d) ==
  [d EXCEPT !.serviceList = NoServices, !.calls = Dropped(@, DOMAIN @)]

\* The proxies are deleted, and with them what they would still signal; the
\* watchers of pending calls are not.
ResetController(d) ==
  [InvalidateServices(d) EXCEPT
     !.device = FALSE, !.signals = <<>>, !.dbusServices = {}, !.jobs = <<>>,
     !.pendingConnect = FALSE, !.disconnectSignalRequired = FALSE,
     !.jobPending = FALSE]

ExecuteClose_ResetFirst(d) ==
  LET r == ResetController(d)
  IN  [r EXCEPT !.state = "Unconnected",
                !.said = IF r.disconnectSignalRequired THEN "disconnected" ELSE @]
ExecuteClose(d) ==
  [ResetController(d) EXCEPT
     !.state = "Unconnected",
     !.said = IF d.disconnectSignalRequired THEN "disconnected" ELSE @]

\* "connected" and "disconnected" signals, whichever was last, in "said".
EmitConnected(d) ==
  [d EXCEPT !.state = "Connected", !.disconnectSignalRequired = TRUE,
            !.said = "connected"]

-----------------------------------------------------------------------------
(* The job list *)

\* serviceForHandle() finds services whose details are (being) discovered.
ServiceForHandle(d, a) == d.serviceList[LeHome[a]] \in {"Discovering", "Discovered"}
Runnable(d, job) ==
  ServiceForHandle(d, job.attr) /\ LeHome[job.attr] \in d.dbusServices

\* Calls the next job that is still valid; those before it are skipped.
ScheduleNextJob(d) ==
  IF d.jobPending \/ d.jobs = <<>> THEN d
  ELSE LET left == SelectInSeq(d.jobs, LAMBDA j : Runnable(d, j))
       IN  IF left = 0 THEN [d EXCEPT !.jobs = <<>>]
           ELSE [d EXCEPT
                   !.jobs = SubSeq(@, left, Len(@)), !.jobPending = TRUE,
                   !.waiting = Append(@, Waiting(d.jobs[left].kind, d.jobs[left].op))]

PrepareNextJob(d) ==
  ScheduleNextJob([d EXCEPT !.jobs = Tail(@), !.jobPending = FALSE])

AppendJob_PendingIgnored(d, job) ==
  ScheduleNextJob([d EXCEPT !.jobs = Append(@, job), !.jobPending = FALSE])
AppendJob(d, job) == ScheduleNextJob([d EXCEPT !.jobs = Append(@, job)])

\* onCharReadFinished(), onDescReadFinished()
OnReadFinished(d, ok) ==
  IF ~d.jobPending \/ d.jobs = <<>> THEN d
  ELSE LET job == Head(d.jobs)
           s == LeHome[job.attr]
       IN  PrepareNextJob(
             IF ~Runnable(d, job) THEN d
             ELSE IF job.disc
             THEN IF ok /\ job.last
                  THEN [d EXCEPT !.serviceList[s] = "Discovered"] ELSE d
             ELSE [d EXCEPT !.calls =
                     Answered(@, job.op, IF ok THEN "ok" ELSE "error")])

\* onCharWriteFinished(), onDescWriteFinished(): the service is the one the job
\* was made with, whether or not it is still in serviceList.
OnWriteFinished(d, ok) ==
  IF ~d.jobPending \/ d.jobs = <<>> THEN d
  ELSE LET job == Head(d.jobs)
       IN  PrepareNextJob(
             IF LeHome[job.attr] \notin d.dbusServices THEN d
             ELSE [d EXCEPT !.calls =
                     Answered(@, job.op, IF ok THEN "ok" ELSE "error")])

-----------------------------------------------------------------------------
(* The application *)

ConnectToDevice ==
  /\ MayConnect(dbus.state)
  /\ dbus.session < dbus.scenario.sessions
  /\ DBusMay("eagerReconnect") \/ dbus.waiting = <<>>
  /\ LET d == [ResetController(dbus) EXCEPT !.session = @ + 1]
         found == [d EXCEPT !.device = TRUE, !.state = "Connecting"]
     IN  \/ /\ DBusMay("connectFails")
            /\ \E device \in BOOLEAN : dbus' = [d EXCEPT !.device = device]
         \/ /\ link.up /\ link.resolved
            /\ dbus' = EmitConnected(found)
         \/ /\ ~(link.up /\ link.resolved)
            /\ dbus' = [found EXCEPT !.pendingConnect = TRUE,
                                     !.waiting = Append(@, Waiting("Connect", 0))]
  /\ UNCHANGED link

DisconnectFromDevice ==
  /\ MayDisconnect(dbus.state)
  /\ dbus.state = "Connecting" => DBusMay("closeEarly")
  /\ dbus.state = "Closing" =>
       /\ DBusMay("closeTwice")
       /\ Len(SelectSeq(dbus.waiting, LAMBDA w : w.kind = "Disconnect")) < 2
  /\ dbus' = LET d == InvalidateServices(dbus)
             IN  IF ~d.device THEN d
                 ELSE [d EXCEPT !.state = "Closing",
                                !.waiting = Append(@, Waiting("Disconnect", 0))]
  /\ UNCHANGED link

DiscoverServices ==
  /\ MayDiscover(dbus.state)
  /\ \/ /\ DBusMay("managedFails")
        /\ dbus' = [dbus EXCEPT !.state = "Discovered"]
     \/ dbus' = [dbus EXCEPT !.state = "Discovered",
                   !.serviceList = [s \in LeServices |-> "Remote"],
                   !.dbusServices = LeServices]
  /\ UNCHANGED link

\* The attributes a full discovery reads, in the order of the object paths.
Orders(S) == {q \in [1..Cardinality(S) -> S] : {q[i] : i \in DOMAIN q} = S}
ReadKind(a) == IF a \in LeDescriptors THEN "DescRead" ELSE "CharRead"
MarkLast(jobs) == [jobs EXCEPT ![Len(jobs)].last = TRUE]

DiscoverServiceDetails(s, full) ==
  /\ MayDiscoverDetails(dbus.serviceList[s])
  /\ LET d == [dbus EXCEPT !.serviceList[s] = "Discovering"]
         done == [d EXCEPT !.serviceList[s] = "Discovered"]
     IN  \/ /\ s \in dbus.scenario.battery
            /\ dbus' = done
         \/ /\ s \notin dbus.scenario.battery /\ DBusMay("managedFails")
            /\ dbus' = [d EXCEPT !.state = "Discovered"]
         \/ /\ s \notin dbus.scenario.battery
            /\ \E order \in Orders({a \in LeAttributes : full /\ LeHome[a] = s}) :
                 LET jobs == d.jobs \o [i \in DOMAIN order |->
                               GattJob(ReadKind(order[i]), order[i], TRUE, 0)]
                 IN  dbus' = IF jobs = <<>> THEN done
                             ELSE ScheduleNextJob([d EXCEPT !.jobs = MarkLast(jobs)])
  /\ UNCHANGED link

\* readCharacteristic(), writeCharacteristic(), readDescriptor(),
\* writeDescriptor().  Battery1 is answered from its property at once.
AccessAttribute(a, kind) ==
  /\ MayAccess(dbus.serviceList[LeHome[a]])
  /\ Len(dbus.calls) < dbus.scenario.calls
  /\ LET op == Len(dbus.calls) + 1
         called(result) == [dbus EXCEPT !.calls = Append(@, result)]
     IN  dbus' = IF LeHome[a] \notin dbus.scenario.battery
                 THEN AppendJob(called("open"), GattJob(kind, a, FALSE, op))
                 ELSE called(IF kind = "CharWrite" THEN "error" ELSE "ok")
  /\ UNCHANGED link

-----------------------------------------------------------------------------
(* Answers and signals *)

Reply(i) ==
  LET w == dbus.waiting[i]
      d == [dbus EXCEPT !.waiting = RemoveAt(@, i)]
  IN  /\ \/ /\ w.kind = "Connect" /\ link.up    \* connected once resolved
            /\ dbus' = d
         \/ /\ w.kind = "Connect" /\ ~link.up
            /\ dbus' = ExecuteClose(d)
         \/ /\ w.kind = "Disconnect" /\ ~link.up
            /\ dbus' = ExecuteClose(d)
         \/ \E ok \in {TRUE} \cup IF DBusMay("jobError") \/ ~link.up
                                  THEN {FALSE} ELSE {} :
              \/ /\ w.kind \in {"CharRead", "DescRead"}
                 /\ dbus' = OnReadFinished(d, ok)
              \/ /\ w.kind \in {"CharWrite", "DescWrite"}
                 /\ dbus' = OnWriteFinished(d, ok)
      /\ UNCHANGED link

\* devicePropertiesChanged()
ServicesResolvedChanged(d) ==
  IF d.pendingConnect
  THEN [EmitConnected(d) EXCEPT !.pendingConnect = FALSE] ELSE d
ConnectedChanged(d) ==
  IF d.state = "Unconnected" THEN d ELSE ExecuteClose(d)
UuidsChanged(d, s) ==
  IF d.serviceList[s] = "none" THEN d
  ELSE [d EXCEPT
          !.serviceList[s] = "none", !.dbusServices = @ \ {s},
          !.calls = Dropped(@, {j.op : j \in {k \in ToSet(d.jobs) : LeHome[k.attr] = s}})]

DevicePropertiesChanged ==
  /\ dbus.signals # <<>>
  /\ LET d == [dbus EXCEPT !.signals = Tail(@)]
     IN  \/ /\ Head(dbus.signals) = "resolved" /\ dbus' = ServicesResolvedChanged(d)
         \/ /\ Head(dbus.signals) = "down" /\ dbus' = ConnectedChanged(d)
  /\ UNCHANGED link

ServiceWithdrawn(s) ==
  /\ DBusMay("uuids") /\ dbus.device /\ link.up
  /\ dbus.serviceList[s] # "none"
  /\ dbus' = UuidsChanged(dbus, s)
  /\ UNCHANGED link

\* The device or the adapter goes, and with it the link.
InterfacesRemoved ==
  /\ DBusMay("removed") /\ dbus.device
  /\ dbus' = ExecuteClose(dbus)
  /\ link' = [up |-> FALSE, resolved |-> FALSE]

-----------------------------------------------------------------------------
(* bluetoothd and the link *)

Tell(signal) ==
  dbus' = IF dbus.device THEN [dbus EXCEPT !.signals = Append(@, signal)] ELSE dbus
Asked(kind) == \E i \in DOMAIN dbus.waiting : dbus.waiting[i].kind = kind

LinkUp ==
  /\ ~link.up /\ Asked("Connect")
  /\ dbus.signals = <<>>   \* bound: the loss of an earlier link is known
  /\ link' = [link EXCEPT !.up = TRUE]
  /\ UNCHANGED dbus

Resolve ==
  /\ link.up /\ ~link.resolved
  /\ link' = [link EXCEPT !.resolved = TRUE]
  /\ Tell("resolved")

LinkDown ==
  /\ link.up
  /\ Asked("Disconnect") \/ DBusMay("linkLoss")
  /\ link' = [up |-> FALSE, resolved |-> FALSE]
  /\ Tell("down")

DBusNext ==
  \/ ConnectToDevice \/ DisconnectFromDevice \/ DiscoverServices
  \/ \E s \in LeServices, full \in BOOLEAN : DiscoverServiceDetails(s, full)
  \/ \E a \in LeAttributes : \E kind \in CallKinds(a) : AccessAttribute(a, kind)
  \/ \E i \in DOMAIN dbus.waiting : Reply(i)
  \/ DevicePropertiesChanged \/ InterfacesRemoved
  \/ \E s \in LeServices : ServiceWithdrawn(s)
  \/ LinkUp \/ Resolve \/ LinkDown

\* bluetoothd answers each call (or libdbus does), resolves the services of a
\* connected device, ends a link it is asked to end; the event loop delivers.
DBusFairness ==
  /\ WF_dbusVars(\E i \in DOMAIN dbus.waiting : Reply(i))
  /\ WF_dbusVars(DevicePropertiesChanged)
  /\ WF_dbusVars(Resolve)
  /\ WF_dbusVars(Asked("Disconnect") /\ LinkDown)

DBusSpec == DBusInit /\ [][DBusNext]_dbusVars /\ DBusFairness

-----------------------------------------------------------------------------
(* Properties *)

DBusJobs ==
  {j \in [kind : LeCalls, attr : LeAttributes, disc : BOOLEAN, last : BOOLEAN,
          op : 0..LeMaxCalls] : j.disc <=> j.op = 0}

\* Type correctness; a job reads or writes, for a call or for a discovery.
DBusTypeOK ==
  /\ dbus.state \in ControllerStates
  /\ dbus.serviceList \in [LeServices -> ServiceStates]
  /\ dbus.dbusServices \subseteq LeServices
  /\ dbus.jobs \in Seq(DBusJobs)
  /\ dbus.waiting \in Seq([kind : LeCalls \cup {"Connect", "Disconnect"},
                           op : 0..LeMaxCalls])
  /\ dbus.calls \in Seq(LeResults)
  /\ dbus.signals \in Seq({"resolved", "down"})
  /\ dbus.said \in {"connected", "disconnected"}
  /\ dbus.session \in 0..LeMaxSessions
  /\ {dbus.device, dbus.pendingConnect, dbus.disconnectSignalRequired,
      dbus.jobPending} \subseteq BOOLEAN
  /\ link \in [up : BOOLEAN, resolved : BOOLEAN]

\* The job list never comes to rest: while it holds a job, bluetoothd has a
\* read or a write of it to answer, whatever branch the last answer took, and
\* every open call is in the list (scheduleNextJob(), prepareNextJob()).
DBusJobsMove ==
  /\ dbus.jobPending <=> dbus.jobs # <<>>
  /\ dbus.jobPending => \E i \in DOMAIN dbus.waiting : dbus.waiting[i].kind \in LeCalls
  /\ \A op \in Open(dbus.calls) : \E i \in DOMAIN dbus.jobs : dbus.jobs[i].op = op

\* connected() and disconnected() alternate: a controller in a connected state
\* has announced it, one that is idle or connecting has taken it back
\* (disconnectSignalRequired).
DBusAnnounced ==
  /\ dbus.state \in {"Connected", "Discovering", "Discovered"} => dbus.said = "connected"
  /\ dbus.state \in {"Unconnected", "Connecting"} => dbus.said = "disconnected"

\* A call is answered by the answer of its own D-Bus call: the watcher says
\* nothing of the job, the slot takes the head of the list for it.
DBusWaiting(op) == \E i \in DOMAIN dbus.waiting : dbus.waiting[i].op = op
DBusOwnAnswer ==
  [][\A op \in Open(dbus.calls) :
       dbus.calls'[op] \in {"ok", "error"} =>
         DBusWaiting(op) /\ ~DBusWaiting(op)']_dbusVars

\* Each read and write is answered, or its service is gone.
DBusCallsAnswered ==
  \A op \in 1..LeMaxCalls : []<>(op \notin Open(dbus.calls))

\* Connecting and closing end, whatever the link does meanwhile: the answers
\* that come with an error, the properties that change and pendingConnect make
\* up for each other.
DBusSettles ==
  \A state \in {"Connecting", "Closing"} :
    []<>(dbus.state # state)

\* "After completion of detail discovery, it transitions to ServiceDiscovered".
DBusDetailDiscoveryFinishes ==
  \A s \in LeServices :
    []<>(dbus.serviceList[s] # "Discovering")

\* "The controller is about to be disconnected from the remote device."
DBusClosingIsFinal ==
  [][dbus.state = "Closing" => dbus'.state \in {"Closing", "Unconnected"}]_dbusVars

=============================================================================
